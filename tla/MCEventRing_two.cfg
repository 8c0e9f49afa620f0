CONSTANTS
  p1 = p1
  p2 = p2
  Procs = {p1, p2}
  N = 4
  Loops = 2
  Reveal <- MCReveal
  KillBound = 1
SPECIFICATION FairSpec
INVARIANTS
  SingleTurn
  CapturedIsPlain
  InStep
PROPERTIES
  Termination
CHECK_DEADLOCK FALSE
