SPECIFICATION FairSpec
CONSTANTS
  n1 = n1
  n2 = n2
  n3 = n3
  Nodes = {n1, n2, n3}
  Networks <- MCNetworks
INVARIANTS
  TypeOK
  PeersOnce
  ListsMutual
  InitialPeersConnect
PROPERTIES
  Quiesces
  LateJoinerMeetsAll
CHECK_DEADLOCK FALSE
