CONSTANTS
  Clients = {c1, c2}
  PrefixList <- MCPrefixes
  Fills <- MCFills
  Cuts <- MCCuts
  MaxRotations = 2
  MaxResets = 1
SPECIFICATION FairSpec
INVARIANTS
  TypeOK
  PairIntact
  FetchSound
PROPERTIES
  Answered
CHECK_DEADLOCK FALSE
