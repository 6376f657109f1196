SPECIFICATION Spec
CONSTANTS
  NSeq = 2
  MaxPos = 5
  NPad = 2
  MaskSlack = 0
  Configs <- MCSwaU
  CkptMin = 0
INVARIANT AttentionExact
CHECK_DEADLOCK FALSE
