SPECIFICATION Spec
CONSTANTS
  NSeq = 2
  MaxPos = 5
  NPad = 2
  MaskSlack = 0
  Configs <- MCCkpt
  CkptMin = 0
INVARIANT WindowIsPrompt
CHECK_DEADLOCK FALSE
