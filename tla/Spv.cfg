SPECIFICATION FairSpec
CONSTANTS
  a = a
  b = b
  s1 = s1
  s2 = s2
  Miner = m
  Full = f
  Spvs = {s1, s2}
  Addresses = {a, b}
  Tx = {"r", "c", "d", "t"}
  Payees <- MCPayees
  Ins <- MCIns
  Setups <- MCSetups
INVARIANTS
  TypeOK
  HeadersRooted
  UtxoProved
  BalanceTrue
PROPERTIES
  HeaderFetched
  PaymentArrives
CHECK_DEADLOCK FALSE
