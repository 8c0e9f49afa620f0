CONSTANTS
  KeyLines <- MCKeyLines
  FlagFiles <- MCFlagFiles
  CsumLines <- MCCsumLines
  Commands <- MCCommands
  Msgs = {1, 2, 3}
  LongFlags = {2}
  MaxFds = 2
  MaxRuns = 2
SPECIFICATION Spec
INVARIANT NoEntryFails
CHECK_DEADLOCK FALSE
