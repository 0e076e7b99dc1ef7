SPECIFICATION Spec
CONSTANTS
  Sessions = {s1}
  Threads = {t1}
  Buffers = {b1, b2}
  Outputs = {o1}
  None = None
  Unprepared = Unprepared
  Empty = Empty
  Aliased = Aliased
  Wild = Wild
  Inputs = 2
  MaxRuns = 2
  Faults = {"input"}
SYMMETRY Symmetric
CHECK_DEADLOCK FALSE
INVARIANT FreesPreparedInputs
