CONSTANTS
  Loop = "accept"
  Fds = {1, 2}
  Backlog = 2
  Timeout = 1
  Skew = 0
  Hash = 7
  Commands <- MCCommands
  MaxRuns = 3
  MaxTime = 1
  MaxFaults = 1
  MaxStrangers = 1
SPECIFICATION DaemonFairSpec
INVARIANTS
  TypeOK
  Settled
  NoFalsePwned
PROPERTIES
  NoRegress
  HeldByStrangerOnly
CHECK_DEADLOCK FALSE
