SPECIFICATION Spec
CONSTANTS
  ValidIPs <- MCChainValid
  AllowedList = None
  BlockedList = None
  None = None
  NOccurrences = 1
  Epsilon = 1
  FlowLines <- MCChain
  MaxFlows = 3
  MaxCalculations = 1
  SuppliedRows <- MCNothing
  Prefixes <- MCChainPrefixes
INVARIANT
  ThreeStageChains
