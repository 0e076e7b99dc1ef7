CONSTANTS
  RegionBytes <- MCRegionBytes
  PoolSizes <- MCPoolSizes
  ScratchSizes <- MCScratchSizes
  NumDirect = 1
  NumDomains = 2
  Scratches = {"workspace", "qmoe_scratch"}
  BodyKinds = {"loop"}
  MaxDepth = 2
  MaxInFlight = 1
SPECIFICATION Spec
INVARIANT CapturesIntact
CHECK_DEADLOCK FALSE
