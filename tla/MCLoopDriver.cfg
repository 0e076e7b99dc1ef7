SPECIFICATION Spec
CONSTANTS
  MaxTrips = 2
  MaxLoops = 3
  Kernels = 2
  Garbage = Garbage
  None = None
CHECK_DEADLOCK FALSE
INVARIANTS TypeOK BodiesReadOwnInputs
PROPERTY LoopsComplete
