SPECIFICATION Spec
CONSTANTS
  n = n
  m = m
  Static = Static
  Dims = {n, m}
  Align = 2
  NumAllocs = 3
  Kinds <- MCKinds
  Factors <- MCFactors
CHECK_DEADLOCK FALSE
INVARIANTS TypeOK LiveBuffersDisjoint WithinPool DomainsInOrder
