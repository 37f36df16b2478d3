SPECIFICATION FairSpec
CONSTANTS
  m = m
  f = f
  c = c
  t1 = t1
  t2 = t2
  Phantom = Phantom
  Miners = {m}
  FullNodes = {f}
  Clients = {c}
  Peers <- MCPeers
  Payment <- MCPayment
  Recipient <- MCRecipient
  Satoshi = "satoshi"
  COINBASE_REWARD = 2
  InOrder = TRUE
  Knows <- MCKnowsBoth
  UserTx = {t1}
  MaxBlocks = 4
  MaxCrashes = 0
  Admitters = 2
  MaxLost = 2
INVARIANTS
  TypeOK
  UtxoMatchesChain
  NoPanic
PROPERTIES
  FollowsMiner
  TxnFloodEnds
CHECK_DEADLOCK FALSE
