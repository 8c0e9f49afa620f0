CONSTANTS
  p1 = p1
  p2 = p2
  Procs = {p1}
  N = 5
  Loops = 8
  Reveal <- MCReveal
  KillBound = 1
SPECIFICATION Spec
INVARIANTS
  TypeOK
PROPERTIES
  RefinesSequential
CHECK_DEADLOCK FALSE
