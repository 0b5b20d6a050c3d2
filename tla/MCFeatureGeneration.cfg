SPECIFICATION Spec
CONSTANT
  Calls <- MCCalls
INVARIANTS
  TypeOK
  RowsBelongToPairs
  DistancesAreShortest
  RowsAgree
  SharesAddUp
  MirrorRows
  FailsOnlyWithoutStartTimes
