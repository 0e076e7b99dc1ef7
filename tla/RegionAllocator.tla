--------------------------- MODULE RegionAllocator ---------------------------
(***************************************************************************)
(* What a client of the session's transient arena may rely on, with no     *)
(* free list at all: a request is granted the lowest run of vacant units   *)
(* that is long enough, and it is refused only when there is no such run.  *)
(* TransientArena implements this module.                                  *)
(***************************************************************************)
EXTENDS Integers

CONSTANTS NumUnits,   \* units of kAlign bytes in the region, a natural number
          Needs       \* the lengths in units that clients ask for, all positive

VARIABLES live,       \* live[o]: length of the granted block at o, 0 if none
          answer      \* the last step: a request and the offset it was given

vars == <<live, answer>>

Offsets == 0 .. NumUnits - 1
NoBlock == -1
NoAnswer == [need |-> 0, offset |-> NoBlock]

\* The n units from o on belong to the region and to no granted block.
Vacant(o, n) ==
  /\ o + n <= NumUnits
  /\ \A p \in Offsets : live[p] > 0 => p + live[p] <= o \/ o + n <= p

Init ==
  /\ live = [o \in Offsets |-> 0]
  /\ answer = NoAnswer

Grant(n) ==
  \E o \in Offsets :
    /\ Vacant(o, n)
    /\ \A q \in Offsets : Vacant(q, n) => o <= q
    /\ live' = [live EXCEPT ![o] = n]
    /\ answer' = [need |-> n, offset |-> o]

Refuse(n) ==
  /\ \A o \in Offsets : ~Vacant(o, n)
  /\ answer' = [need |-> n, offset |-> NoBlock]
  /\ UNCHANGED live

Return(o) ==
  /\ live[o] > 0
  /\ live' = [live EXCEPT ![o] = 0]
  /\ answer' = NoAnswer

Next ==
  \/ \E n \in Needs : Grant(n) \/ Refuse(n)
  \/ \E o \in Offsets : Return(o)

Spec == Init /\ [][Next]_vars
=============================================================================
