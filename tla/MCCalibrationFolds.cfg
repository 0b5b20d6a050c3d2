SPECIFICATION Spec

CONSTANTS
  LabelVectors <- MCLabelVectors
  FoldsAsked = {1, 2, 5}
  Metrics = {"f1", "precision", "recall", "accuracy"}
  Scale = 6
  Scores = {0, 2, 3, 5}

INVARIANT AtLeastTwoFolds
