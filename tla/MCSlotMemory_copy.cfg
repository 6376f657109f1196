SPECIFICATION Spec
CONSTANTS
  NSeq = 2
  MaxPos = 5
  NPad = 2
  MaskSlack = 0
  Configs <- MCPairCache
  CkptMin = 0
INVARIANT MemoryIsPrompt
CHECK_DEADLOCK FALSE
