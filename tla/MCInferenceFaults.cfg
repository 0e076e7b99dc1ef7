SPECIFICATION Spec
CONSTANTS
  Sessions = {s1}
  Threads = {t1}
  Buffers = {b1, b2, b3}
  Outputs = {o1}
  None = None
  Unprepared = Unprepared
  Empty = Empty
  Aliased = Aliased
  Wild = Wild
  Inputs = 2
  MaxRuns = 3
  Faults = {"op", "input", "memory", "copy", "stream"}
SYMMETRY Symmetric
CHECK_DEADLOCK FALSE
INVARIANTS ErrorReturned CallbackLive
