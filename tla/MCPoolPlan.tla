------------------------------ MODULE MCPoolPlan ------------------------------
EXTENDS PoolPlan
CONSTANTS n, m
Static1 == [dim |-> Static, bytes |-> 1]
Static3 == [dim |-> Static, bytes |-> 3]
Empty == [dim |-> Static, bytes |-> 0]
Dyn(d, c) == [dim |-> d, bytes |-> c]
MCKinds == {Empty, Static1, Static3, Dyn(n, 1), Dyn(n, 2), Dyn(m, 1), Dyn(m, 2)}
MCFactors == {0, 1, 3}
=============================================================================
