SPECIFICATION PartsSpec
CONSTANTS
  Capacity = 2
  Lines <- MCLines
  ValidIPs <- MCValid
  AllowedList = None
  BlockedList <- MCBlocked
  InternalList <- MCInternal
  InternalLimit = 2
  ExternalLimit = 1
  BucketCount = 2
  MaxMs = 100
  MaxLines = 4
  CountedKeys = {1, 2, 3}
  Limits = {0, 1, 2}
  MaxAdded = 7
  None = None
  Absent = Absent
INVARIANTS
  TopEndpointsRetained
  ReservoirHoldsSample
  OnlyAllowedAddresses
  AddressesWithinLimits
  GraphMirrorsReservoir
  SecondVerticesAreIsolated
  CountsWithinError
