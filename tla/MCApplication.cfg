SPECIFICATION Spec
CONSTANTS
  Cutoffs <- MCCutoffs
  Indeterminate <- MCIndeterminate
  HardwareThreads = 0
  Sessions <- MCSessions
  InitialFiles <- MCInitialFiles
  Scores <- MCScores
  ScoreUnit = 30
  WrittenUnit = 10
  CalibratedThresholds <- MCThresholds
INVARIANTS
  ArtifactsInOrder
  ExplanationsBelong
  ReportsAgree
  MetricsMatchReference
  ServiceIsLikeliest
  OutputsMatchArguments
  LoggedConfigurationReloads
\* Every command of a session comes to an end.
CHECK_DEADLOCK FALSE
