--------------------------- MODULE MCTransientArena ---------------------------
(***************************************************************************)
(* A region of seven units and a remainder that init drops, and requests   *)
(* on both sides of the unit boundaries, of the whole region and beyond.   *)
(***************************************************************************)
EXTENDS TransientArena

MCRegionBytes == 7 * kAlign + 123
MCRequests == {0, 1, kAlign + 1, 3 * kAlign, 7 * kAlign, 7 * kAlign + 123}
=============================================================================
