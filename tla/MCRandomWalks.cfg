SPECIFICATION BuildSpec
CONSTANTS
  UseOpenMP = FALSE
  NumThreads = 3
  WalksPerVertex = 2
  MaxVertices = 4
  MaxCalls = 2
  Empty = Empty
INVARIANT
  NoDataRace
PROPERTIES
  WrittenOnce
  ImplementsWalkBatch
  EveryCallEnds
  OpenMPBuildToo
\* A process may end, and calls are bounded.
CHECK_DEADLOCK FALSE
