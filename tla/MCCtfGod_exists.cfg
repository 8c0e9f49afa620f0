CONSTANTS
  KeyLines <- MCKeyLines
  FlagFiles <- MCFlagFiles
  CsumLines <- MCCsumLines
  Commands <- MCCommands
  Msgs = {1, 2, 3}
  LongFlags = {2}
  MaxFds = 2
  MaxRuns = 2
SPECIFICATION Spec
PROPERTY GenFailsIfExists
CHECK_DEADLOCK FALSE
