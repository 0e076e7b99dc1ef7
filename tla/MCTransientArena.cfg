CONSTANTS
  RegionBytes <- MCRegionBytes
  Requests <- MCRequests
SPECIFICATION Spec
INVARIANTS
  TypeOK
  NoOverlap
  NoLostUnit
  Coalesced
  WholeWhenIdle
PROPERTY ImplementsAbstract
