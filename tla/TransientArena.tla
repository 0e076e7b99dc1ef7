---------------------------- MODULE TransientArena ----------------------------
(***************************************************************************)
(* hipdnn_ep::TransientArenaAllocator (lib/Runtime/transient_arena.h): a   *)
(* first-fit offset allocator over one fixed region, with a free list that *)
(* is split on allocate and coalesced on release.                          *)
(*                                                                         *)
(* Offsets and lengths are counted in units of kAlign bytes, which is what *)
(* every offset and length of the code is a multiple of.  The two          *)
(* std::maps offset -> bytes are functions on every offset, 0 standing for *)
(* "no such key": the code never stores a zero length.  The hit and miss   *)
(* counters, which only a debug log reads, are left out.                   *)
(***************************************************************************)
EXTENDS Integers

CONSTANTS RegionBytes,   \* the size init is given
          Requests       \* the byte counts allocate is called with

ASSUME ArenaAssumption == RegionBytes \in Nat /\ Requests \subseteq Nat

kAlign == 4096

\* size_, in units: init drops what does not fill a unit.
NumUnits == RegionBytes \div kAlign
Offsets == 0 .. NumUnits - 1
NoBlock == -1                       \* std::nullopt
NoAnswer == [need |-> 0, offset |-> NoBlock]

\* roundUp.  The addition cannot wrap: allocate compares bytes to size_ first.
UnitsOf(bytes) == IF bytes = 0 THEN 1 ELSE (bytes + kAlign - 1) \div kAlign

VARIABLES free,     \* free_: free[o] is the length of the free block at o
          live,     \* live_: the same for the blocks handed out
          used,     \* used_
          hwm,      \* hwm_
          answer    \* the last step: what allocate was asked for and returned

vars == <<free, live, used, hwm, answer>>

Init ==
  /\ free = [o \in Offsets |-> IF o = 0 THEN NumUnits ELSE 0]
  /\ live = [o \in Offsets |-> 0]
  /\ used = 0
  /\ hwm = 0
  /\ answer = NoAnswer
-----------------------------------------------------------------------------
\* The first free block, in offset order, that is long enough (none or one).
FirstFit(need) ==
  {o \in Offsets : free[o] >= need /\ \A p \in Offsets : p < o => free[p] < need}

\* Slip: the rest of the block is dropped.
CarveAll(o, need) == [free EXCEPT ![o] = 0]

\* The block at o gives up its first units; what is left stays free.
Carve(o, need) ==
  [p \in Offsets |-> IF p = o THEN 0
                     ELSE IF p = o + need /\ free[o] > need THEN free[o] - need
                     ELSE free[p]]

Hit(o, need) ==
  /\ free' = Carve(o, need)
  /\ live' = [live EXCEPT ![o] = need]
  /\ used' = used + need
  /\ hwm' = IF used' > hwm THEN used' ELSE hwm
  /\ answer' = [need |-> need, offset |-> o]

Miss(need) ==
  /\ answer' = [need |-> need, offset |-> NoBlock]
  /\ UNCHANGED <<free, live, used, hwm>>

\* Slip: a request for the whole region is turned away.
AllocateBelowSize(bytes) ==
  LET need == UnitsOf(bytes)
      searched == bytes < NumUnits * kAlign
  IN \/ searched /\ \E o \in FirstFit(need) : Hit(o, need)
     \/ (searched => \A o \in Offsets : free[o] < need) /\ Miss(need)

\* allocate: only a request no larger than the region searches the free list.
Allocate(bytes) ==
  LET need == UnitsOf(bytes)
      searched == bytes <= NumUnits * kAlign
  IN \/ searched /\ \E o \in FirstFit(need) : Hit(o, need)
     \/ (searched => \A o \in Offsets : free[o] < need) /\ Miss(need)
-----------------------------------------------------------------------------
\* free_.lower_bound(o) and the entry before it, each as a set of at most one.
LowerBound(o) ==
  {n \in Offsets : /\ n >= o /\ free[n] > 0
                   /\ \A p \in Offsets : p >= o /\ free[p] > 0 => n <= p}
Before(o) ==
  {n \in Offsets : /\ n < o /\ free[n] > 0
                   /\ \A p \in Offsets : p < o /\ free[p] > 0 => p <= n}

\* Slip: the next block is absorbed and stays in the list as well.
GiveBackKeepingNext(o, len) ==
  LET next == {n \in LowerBound(o) : n = o + len}
      prev == {p \in Before(o) : p + free[p] = o}
      total == IF next = {} THEN len ELSE len + free[o + len]
  IN [p \in Offsets |->
        IF p \in prev THEN free[p] + total
        ELSE IF p = o /\ prev = {} THEN total
        ELSE free[p]]

\* Slip: the block before grows by the length of the returned one twice.
GiveBackTwice(o, len) ==
  LET next == {n \in LowerBound(o) : n = o + len}
      prev == {p \in Before(o) : p + free[p] = o}
      total == IF next = {} THEN len ELSE len + free[o + len]
  IN [p \in Offsets |->
        IF p \in prev THEN free[p] + len + total
        ELSE IF p \in next THEN 0
        ELSE IF p = o /\ prev = {} THEN total
        ELSE free[p]]

\* Slip: only the block behind is looked at.
GiveBackForward(o, len) ==
  LET next == {n \in LowerBound(o) : n = o + len} IN
  [p \in Offsets |->
     IF p \in next THEN 0
     ELSE IF p = o THEN IF next = {} THEN len ELSE len + free[o + len]
     ELSE free[p]]

\* The free list once the block [o, o + len) is returned: it absorbs a free
\* block that starts where it ends, and is absorbed by one that ends where it
\* starts.
GiveBack(o, len) ==
  LET next == {n \in LowerBound(o) : n = o + len}
      prev == {p \in Before(o) : p + free[p] = o}
      total == IF next = {} THEN len ELSE len + free[o + len]
  IN [p \in Offsets |->
        IF p \in prev THEN free[p] + total
        ELSE IF p \in next THEN 0
        ELSE IF p = o /\ prev = {} THEN total
        ELSE free[p]]

\* release, of the start of a live block.  For any other offset the code
\* returns false and changes nothing, a stuttering step here.
Release(o) ==
  /\ live[o] > 0
  /\ live' = [live EXCEPT ![o] = 0]
  /\ used' = used - live[o]
  /\ free' = GiveBack(o, live[o])
  /\ answer' = NoAnswer
  /\ UNCHANGED hwm

Next ==
  \/ \E bytes \in Requests : Allocate(bytes)
  \/ \E o \in Offsets : Release(o)

Spec == Init /\ [][Next]_vars
-----------------------------------------------------------------------------
(* Properties *)

\* The length of the block that starts at o, free or live.
Block(o) == free[o] + live[o]

\* The variables are maps from offsets to lengths within the region, and the
\* counters and the last answer have their types.
TypeOK ==
  /\ free \in [Offsets -> 0 .. NumUnits]
  /\ live \in [Offsets -> 0 .. NumUnits]
  /\ used \in Int
  /\ hwm \in Int
  /\ answer \in [need : Nat, offset : Offsets \cup {NoBlock}]

\* No unit is handed out twice, or handed out while it is on the free list:
\* blocks of both maps stay inside the region and never share a unit.
NoOverlap ==
  /\ \A o \in Offsets : free[o] = 0 \/ live[o] = 0
  /\ \A o \in Offsets : o + Block(o) <= NumUnits
  /\ \A o, p \in Offsets :
       o < p /\ Block(o) > 0 /\ Block(p) > 0 => o + Block(o) <= p

\* Splitting and merging lose nothing: every unit is in a block.
NoLostUnit ==
  \A u \in Offsets : \E o \in Offsets : o <= u /\ u < o + Block(o)

\* Release leaves no two free blocks side by side, in whatever order blocks
\* come back; a long request would otherwise miss although it has room.
Coalesced ==
  \A o, p \in Offsets : free[o] > 0 /\ p = o + free[o] => free[p] = 0

\* When every block has come back the region is one free block again.
WholeWhenIdle ==
  NumUnits > 0 /\ (\A o \in Offsets : live[o] = 0) => free[0] = NumUnits

\* The free list is an implementation of the abstract first-fit allocator:
\* in particular a request misses only if no vacant run is long enough.
Abstract == INSTANCE RegionAllocator WITH Needs <- {UnitsOf(b) : b \in Requests}
ImplementsAbstract == Abstract!Spec
=============================================================================
