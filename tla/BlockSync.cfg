SPECIFICATION FairSpec
CONSTANTS
  n = n
  p = p
  Nodes = {n, p}
  Miners = {n}
  Neighbours <- MCNeighbours
  Mined <- MCTree
  Setups <- MCSetups
  InvLimit = 3
  MAX_BLOCKS_IN_TRANSIT_PER_PEER = 2
  SleepIsEnough = TRUE
  Handlers = 6
INVARIANTS
  TypeOK
  NoZeroBlock
  QuietMeansSynced
  ForkStays
PROPERTIES
  SyncConverges
  FreshBlocksFit
CHECK_DEADLOCK FALSE
