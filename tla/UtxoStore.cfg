SPECIFICATION Spec
CONSTANTS
  w1 = w1
  w2 = w2
  p = p
  q = q
  r = r
  Tx <- MCTx
  Ins <- MCIns
  Size <- MCSize
  Mined <- MCMined
  Workers = {w1, w2}
  MaxStarts = 3
SYMMETRY WorkersAlike
INVARIANTS
  TypeOK
  AsIfAtomic
  NoOutputLost
CHECK_DEADLOCK FALSE
