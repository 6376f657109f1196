CONSTANTS
  Alignment = 2
  MaxChunkSize = 6
  MaxChunks = 2
  Endless = 100
  Leafs <- MCInput
  NewTensor <- MCOutViews
  Resizes <- MCResizes
  MaxGraphs = 1
  LooseLeafs = FALSE
  AnyTopology = FALSE
  Retry = FALSE
SPECIFICATION Spec
CHECK_DEADLOCK FALSE
INVARIANT ValuesKept
