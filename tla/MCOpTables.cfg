SPECIFICATION Spec
CONSTANTS
  s1 = s1
  s2 = s2
  t1 = t1
  t2 = t2
  t3 = t3
  Sessions <- MCSessions
  Tables <- MCTables
  CandidateLists <- MCCandidateLists
  MaxCalls = 4
  None = None
CHECK_DEADLOCK FALSE
INVARIANTS TypeOK TablesShared RunsCovered
PROPERTIES SettledAlgo OpsReturn
