CONSTANTS
  Loop = "select"
  Fds = {1, 2, 3}
  Backlog = 1
  Timeout = 1
  Skew <- MCBehind
  Hash = 7
  Commands <- MCSetCommands
  MaxRuns = 3
  MaxTime = 2
  MaxFaults = 0
  MaxStrangers = 1
SPECIFICATION FairSpec
INVARIANTS
  Settled
PROPERTIES
  Served
CHECK_DEADLOCK FALSE
