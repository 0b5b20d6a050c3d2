SPECIFICATION Spec
CONSTANTS
  ValidIPs <- MCValid
  AllowedList = None
  BlockedList <- MCBlocked
  None = None
  NOccurrences = 2
  Epsilon = 1
  FlowLines <- MCFlows
  MaxFlows = 7
  MaxCalculations = 1
  SuppliedRows <- MCSupplied
  Prefixes <- MCPrefixes
INVARIANTS
  DependenciesExplained
  LoadedWasCalculated
  RestsOnDirect
CONSTRAINTS
  SortedFile
  FewSkipped
  FewRepeated
