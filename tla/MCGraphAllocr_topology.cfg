CONSTANTS
  Alignment = 2
  MaxChunkSize = 6
  MaxChunks = 2
  Endless = 100
  Leafs <- MCInput
  NewTensor <- MCPlain
  Resizes <- MCResizes
  MaxGraphs = 2
  LooseLeafs = FALSE
  AnyTopology = TRUE
  Retry = FALSE
SPECIFICATION Spec
CHECK_DEADLOCK FALSE
INVARIANT ValuesKept
