SPECIFICATION Spec
CONSTANTS
  NSeq = 2
  MaxPos = 5
  NPad = 2
  MaskSlack = 0
  Configs <- MCConfigs
  CkptMin = 0
INVARIANTS
  IndexesAgree
  MemoryIsPrompt
  WindowIsPrompt
  AttentionExact
  LogitsAreOwn
PROPERTIES
  RefusalRestores
  DecodeProgress
CHECK_DEADLOCK FALSE
