------------------------------ MODULE MCOpTables ------------------------------
EXTENDS OpTables
CONSTANTS s1, s2, t1, t2, t3
MCSessions == {s1, s2}
MCTables == {t1, t2, t3}
MCCandidateLists == {<<>>, <<3>>, <<2, 4, 1>>}
=============================================================================
