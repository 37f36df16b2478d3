SPECIFICATION FairSpec
CONSTANTS
  s1 = s1
  s2 = s2
  x = x
  SpvNodes = {s1, s2}
  Reached = {s1}
  Coins = {x}
  Value <- MCValue
  Amounts = {2}
  Polls = 1
  MaxCalls = 2
INVARIANTS
  TypeOK
PROPERTIES
  PaysFromFreshAnswer
  CallsEnd
CHECK_DEADLOCK FALSE
