SPECIFICATION FairSpec
CONSTANTS
  m = m
  m2 = m2
  c = c
  t1 = t1
  Phantom = Phantom
  Peers <- MCPeers
  Payment <- MCSpendReward
  Recipient <- MCRecipient
  Satoshi = "satoshi"
  COINBASE_REWARD = 2
  Miners = {m, m2}
  FullNodes = {}
  Clients = {c}
  Knows <- MCKnows
  UserTx = {t1}
  InOrder = FALSE
  MaxBlocks = 3
  MaxCrashes = 1
  Admitters = 1
  MaxLost = 0
INVARIANTS
  TipStored
  UtxoFromStored
PROPERTY BlocksStoredEverywhere
CHECK_DEADLOCK FALSE
