CONSTANTS
  RegionBytes <- MCRegionBytes
  PoolSizes <- MCPoolSizes
  ScratchSizes <- MCScratchSizes
  NumDirect = 1
  NumDomains = 2
  Scratches = {"workspace", "qmoe_scratch"}
  BodyKinds = {"scan"}
  MaxDepth = 2
  MaxInFlight = 1
VIEW Deciding
SPECIFICATION Spec
INVARIANTS
  TypeOK
  SlotsOwnMemory
  InFlightLive
  HeldIsOutstanding
  CapturesIntact
  ViewsAreCurrent
  NothingLeft
CHECK_DEADLOCK FALSE
