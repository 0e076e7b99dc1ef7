SPECIFICATION Spec
CONSTANTS
  Threads = {t1, t2}
  Ptrs = {p1, p2, p3}
  Sizes <- MCSizes
SYMMETRY Symmetric
VIEW Ages
CHECK_DEADLOCK FALSE
INVARIANTS TypeOK OnePlace RegistryExact CoversRequest LiveAccounting
           RetainedWhileGrowing
PROPERTIES ImplementsService
