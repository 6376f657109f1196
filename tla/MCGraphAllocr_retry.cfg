CONSTANTS
  Alignment = 2
  MaxChunkSize = 6
  MaxChunks = 2
  Endless = 100
  Leafs <- MCLeafs
  NewTensor <- MCNewTensor
  Resizes <- MCResizes
  MaxGraphs = 2
  LooseLeafs = FALSE
  AnyTopology = FALSE
  Retry = TRUE
SPECIFICATION Spec
CHECK_DEADLOCK FALSE
INVARIANT InsideBuffer
