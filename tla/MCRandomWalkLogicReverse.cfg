SPECIFICATION Spec

CONSTANTS
  Graphs <- MCGraphs
  WalkLength = 5
  Appearances = {1, 2}
  Epsilon = 1
  EpsilonRev = 1
  MaxFlows = 5

INVARIANT ReturnsReverseTheFlow
