SPECIFICATION PoolFairSpec
CONSTANTS
  MessageCount = 4
  NumPeers = 3
  Serving = {1, 2}
  Late = {3}
INVARIANTS
  PoolTypeOK
  AllServedStored
PROPERTIES
  SentAsPromised
  Completes
CHECK_DEADLOCK FALSE
