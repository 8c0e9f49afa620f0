CONSTANTS
  Bytes = 1
  Bits = 2
  TalkKeys = 1
  StrangerPackets <- MCPackets
  MaxChanges = 2
  MaxNet = 1
  MaxStrangers = 1
  timer_limit = 2
  MaxTime = 4
  MaxCalls = 3
  MaxScripts = 1
  Workers = {w1, w2}
  NPorts = 2
  MaxIps = 3
SPECIFICATION MCSpec
INVARIANTS
  BroadcastWhole
  TornOnlyByChange
  FreshShellcode
  StuckAfterFault
PROPERTIES
  Answered
  FirstForEver
CHECK_DEADLOCK FALSE
