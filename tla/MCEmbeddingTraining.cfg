SPECIFICATION Spec
CONSTANTS
  NumVertices = 3
  WalksPerVertex = 1
  ContextSize = 3
  NumNegativeSamples = 2
  Epochs = 2
  BatchSizes <- MCBatchSizes
  None = None
  Walks <- MCWalks
INVARIANTS
  BatchesCoverEpoch
  PairsMatchWalks
  TargetsAreNotNegatives
PROPERTY
  ImplementsTrainingEpochs
