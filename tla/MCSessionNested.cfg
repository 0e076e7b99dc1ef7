CONSTANTS
  RegionBytes <- MCNestedBytes
  PoolSizes <- MCPoolSizes
  ScratchSizes <- MCScratchSizes
  NumDirect = 1
  NumDomains = 1
  Scratches = {"workspace"}
  BodyKinds = {"scan", "loop"}
  MaxDepth = 4
  MaxInFlight = 1
SPECIFICATION Spec
INVARIANT SlotsOwnMemory
PROPERTY ScanCapturesIntact
CHECK_DEADLOCK FALSE
