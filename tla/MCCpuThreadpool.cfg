CONSTANTS
  NThreads = 3
  MaxGraphs = 2
  GraphBits = 4
  ChunksPerThread = 2
  Graphs <- MCGraphs
SPECIFICATION Spec
CHECK_DEADLOCK FALSE
INVARIANTS ResetAlone NodesInOrder ResultComplete
PROPERTIES GraphReturns FreeReturns
