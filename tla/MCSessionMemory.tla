---------------------------- MODULE MCSessionMemory ----------------------------
(***************************************************************************)
(* An arena of two or three units, one driver block beyond it, and sizes   *)
(* that make a pool and a scratch grow within the arena, out of it and     *)
(* into a failing hipMalloc.                                               *)
(***************************************************************************)
EXTENDS SessionMemory

MCRegionBytes == 2 * 4096
MCNestedBytes == 3 * 4096
MCPoolSizes == {0, 4097}
MCScratchSizes == {3000, 4097}

\* The arena's high-water mark and the last answer of its allocate decide
\* nothing: states that differ in them alone are one state.
Deciding == <<free, live, used, direct, held, pools, scanPools, scanActive,
              scratch, stack, call, inflight, phase>>
=============================================================================
