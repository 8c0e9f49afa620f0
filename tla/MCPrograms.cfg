CONSTANTS
  Byte = 2
  Width = 4
  StackWords = 2
  Blocks <- MCBlocks
  Memories <- MCMemories
  Strings = {13, 14, 15}
  MaxEnters = 4
  Runs = {"r1", "r2"}
  Teams = {1, 2}
  Ports <- MCPorts
  DaemonInfo = {1, 2}
  Checksums = {1}
  FlagRows <- MCFlagRows
  Jobs <- MCJobs
  Touched <- MCTouched
  MaxCrashes = 1
  MaxChanges = 1
  Sources <- MCSources
  Ord <- MCOrd
  Numbers <- MCNumbers
  Letters = {48, 64}
  MaxStack = 2
  MaxValue = 64
  Texts <- MCTexts
  Buffers <- MCBuffers
  WordBytes = 2
  ByteBits = 2
  Flags <- MCFlags
  Stuck = 2
SPECIFICATION MCSpec
INVARIANTS
  StrlenRight
  VerdictSound
  VerdictExact
  OnlyTheSerial
  KeyIsFlag
PROPERTIES
  ImplementsStack
  MovesOnTorus
CHECK_DEADLOCK FALSE
