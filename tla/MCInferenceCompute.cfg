SPECIFICATION Spec
CONSTANTS
  Sessions = {s1, s2}
  Threads = {t1, t2}
  Buffers = {b1, b2, b3}
  Outputs = {o1}
  None = None
  Unprepared = Unprepared
  Empty = Empty
  Aliased = Aliased
  Wild = Wild
  Inputs = 1
  MaxRuns = 2
  Faults = {"op"}
SYMMETRY Symmetric
CHECK_DEADLOCK FALSE
INVARIANTS TypeOK StagingExclusive KernelsReadOwnInputs WorkDoneAtReturn
