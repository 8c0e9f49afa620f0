CONSTANTS
  Conns = {c1}
  Nibble = 4
  Challenges <- MCChallenges
  Responses <- MCDocumented
  MaxThreads = 1
SPECIFICATION Spec
INVARIANTS
  AcceptsDocumented
CHECK_DEADLOCK FALSE
