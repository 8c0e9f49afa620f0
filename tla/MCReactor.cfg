CONSTANTS
  Conns = {c1, c2, c3}
  Nibble = 4
  Challenges <- MCChallenges
  Responses <- MCResponses
  MaxThreads = 2
SPECIFICATION FairSpec
INVARIANTS
  TypeOK
  OwnTexts
  CompleteJudged
  ComparedOnce
PROPERTIES
  Served
CHECK_DEADLOCK FALSE
