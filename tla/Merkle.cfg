SPECIFICATION FairSpec
CONSTANTS
  Tx = {t1, t2, t3}
  MaxLeaves = 5
  MaxList = 9
INVARIANTS
  TypeOK
  ProofVerifies
  ManyLeavesNeverReturn
PROPERTY
  FewLeavesReturn
CHECK_DEADLOCK FALSE
