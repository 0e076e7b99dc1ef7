------------------------- MODULE TransientArenaProofs -------------------------
(***************************************************************************)
(* For a region of any size and any requests: the blocks of the transient  *)
(* arena tile the region, free blocks are never adjacent, and the arena is *)
(* whole again once every block has come back.                             *)
(*                                                                         *)
(* The argument is about one function, BlockMap, that forgets which blocks *)
(* are free: allocate either leaves it alone or splits one of its blocks,  *)
(* release merges neighbours in it, and both keep it a tiling.             *)
(***************************************************************************)
EXTENDS TransientArena, TLAPS

BlockMap == [o \in Offsets |-> Block(o)]

\* B places non-overlapping blocks that cover the region.
Tiles(B) ==
  /\ \A o \in Offsets : o + B[o] <= NumUnits
  /\ \A o, p \in Offsets : o < p /\ B[o] > 0 /\ B[p] > 0 => o + B[o] <= p
  /\ \A u \in Offsets : \E o \in Offsets : o <= u /\ u < o + B[o]

Exclusive == \A o \in Offsets : free[o] = 0 \/ live[o] = 0

\* The inductive invariant.
IInv == TypeOK /\ NoOverlap /\ NoLostUnit /\ Coalesced

LEMMA NumUnitsNat == NumUnits \in Nat
  BY ArenaAssumption DEF NumUnits, kAlign

\* roundUp yields at least one unit, so no block of length zero is handed out.
LEMMA UnitsPositive == \A bytes \in Nat : UnitsOf(bytes) \in Nat \ {0}
  BY DEF UnitsOf, kAlign

LEMMA OffsetsAreInts == \A x : x \in Offsets <=> x \in Int /\ 0 <= x /\ x < NumUnits
  BY NumUnitsNat DEF Offsets

\* No block starts strictly inside another one.
LEMMA NoneInside ==
  ASSUME NEW B \in [Offsets -> 0 .. NumUnits], Tiles(B),
         NEW o \in Offsets, NEW x \in Offsets, o < x, x < o + B[o]
  PROVE  B[x] = 0
<1>1. B[o] \in Int /\ B[x] \in Nat /\ o \in Int /\ x \in Int
  BY NumUnitsNat, OffsetsAreInts
<1>2. B[o] > 0
  BY <1>1
<1>3. B[x] > 0 => o + B[o] <= x
  BY <1>2 DEF Tiles
<1> QED BY <1>1, <1>3

\* Splitting a block in two keeps a tiling.
LEMMA SplitTiles ==
  ASSUME NEW B \in [Offsets -> 0 .. NumUnits], Tiles(B),
         NEW o \in Offsets, NEW n \in Nat, 0 < n, n < B[o],
         NEW C \in [Offsets -> 0 .. NumUnits], C[o] = n, C[o + n] = B[o] - n,
         \A p \in Offsets : p # o /\ p # o + n => C[p] = B[p]
  PROVE  Tiles(C)
<1>1. /\ NumUnits \in Nat /\ o \in Int
      /\ \A p \in Offsets : p \in Int /\ B[p] \in Nat /\ C[p] \in Nat
  BY NumUnitsNat, OffsetsAreInts
<1> DEFINE x == o + n
<1>2. x \in Int /\ o < x /\ x < o + B[o] /\ o + B[o] <= NumUnits
  BY <1>1 DEF Tiles
<1>3. x \in Offsets
  BY <1>1, <1>2, OffsetsAreInts
<1>4. C[x] = B[o] - n /\ x + C[x] = o + B[o] /\ o + C[o] = x
  BY <1>1, <1>2
<1>5. \A p \in Offsets : p # o /\ p # x => C[p] = B[p]
  OBVIOUS
<1> HIDE DEF x
<1>6. ASSUME NEW p \in Offsets
      PROVE  p + C[p] <= NumUnits
  <2>1. p + B[p] <= NumUnits
    BY DEF Tiles
  <2> QED BY <1>1, <1>2, <1>3, <1>4, <1>5, <2>1
<1>7. ASSUME NEW p \in Offsets, NEW q \in Offsets, p < q, C[p] > 0, C[q] > 0
      PROVE  p + C[p] <= q
  <2>1. B[o] > 0 /\ B[x] = 0
    BY <1>1, <1>2, <1>3, NoneInside
  <2>2. CASE p = o /\ q = x
    BY <2>2, <1>1, <1>4
  <2>3. CASE p = o /\ q # x
    <3>1. q # o /\ B[q] > 0
      BY <1>7, <2>3, <1>1, <1>5
    <3>2. o + B[o] <= q
      BY <3>1, <2>1, <2>3, <1>7 DEF Tiles
    <3> QED BY <3>2, <2>3, <1>1, <1>2, <1>4
  <2>4. CASE p = x
    <3>1. q # o /\ q # x /\ o < q
      BY <1>7, <2>4, <1>1, <1>2
    <3>2. B[q] > 0
      BY <3>1, <1>7, <1>5
    <3>3. o + B[o] <= q
      BY <3>1, <3>2, <2>1 DEF Tiles
    <3> QED BY <3>3, <2>4, <1>4
  <2>5. CASE p # o /\ p # x /\ q = x
    <3>1. C[p] = B[p] /\ B[p] > 0
      BY <1>5, <1>7, <2>5
    <3>2. CASE p < o
      <4>1. p + B[p] <= o
        BY <3>1, <3>2, <2>1 DEF Tiles
      <4> QED BY <4>1, <3>1, <2>5, <1>1, <1>2
    <3>3. CASE o < p
      <4>1. B[p] = 0
        BY <3>3, <1>7, <2>5, <1>1, <1>2, NoneInside
      <4> QED BY <4>1, <3>1, <1>1
    <3> QED BY <3>2, <3>3, <2>5, <1>1
  <2>6. CASE p # o /\ p # x /\ q = o
    <3>1. C[p] = B[p] /\ B[p] > 0
      BY <1>5, <1>7, <2>6
    <3> QED BY <3>1, <2>1, <2>6, <1>7 DEF Tiles
  <2>7. CASE p # o /\ p # x /\ q # o /\ q # x
    <3>1. C[p] = B[p] /\ C[q] = B[q]
      BY <1>5, <2>7
    <3> QED BY <3>1, <1>7 DEF Tiles
  <2> QED BY <2>2, <2>3, <2>4, <2>5, <2>6, <2>7
<1>8. ASSUME NEW u \in Offsets
      PROVE  \E p \in Offsets : p <= u /\ u < p + C[p]
  <2>1. PICK p \in Offsets : p <= u /\ u < p + B[p]
    BY DEF Tiles
  <2>2. CASE p # o /\ p # x
    BY <2>1, <2>2, <1>5
  <2>3. CASE p = x
    <3>1. B[x] = 0
      BY <1>2, <1>3, NoneInside
    <3> QED BY <3>1, <2>1, <2>3, <1>1
  <2>4. CASE p = o /\ u < x
    BY <2>1, <2>4, <1>4
  <2>5. CASE p = o /\ x <= u
    BY <2>1, <2>5, <1>3, <1>4
  <2> QED BY <2>2, <2>3, <2>4, <2>5, <1>1, <1>2
<1> QED BY <1>6, <1>7, <1>8 DEF Tiles

\* Merging a block with the one that starts where it ends keeps a tiling.
LEMMA MergeTiles ==
  ASSUME NEW B \in [Offsets -> 0 .. NumUnits], Tiles(B),
         NEW o \in Offsets, NEW x \in Offsets,
         B[o] > 0, x = o + B[o], B[x] > 0,
         NEW C \in [Offsets -> 0 .. NumUnits], C[o] = B[o] + B[x], C[x] = 0,
         \A p \in Offsets : p # o /\ p # x => C[p] = B[p]
  PROVE  Tiles(C)
<1>1. /\ NumUnits \in Nat
      /\ \A p \in Offsets : p \in Int /\ B[p] \in Nat /\ C[p] \in Nat
  BY NumUnitsNat, OffsetsAreInts
<1>2. o < x /\ o + C[o] = x + B[x]
  BY <1>1
<1>3. ASSUME NEW p \in Offsets
      PROVE  p + C[p] <= NumUnits
  <2>1. p + B[p] <= NumUnits /\ x + B[x] <= NumUnits
    BY DEF Tiles
  <2> QED BY <2>1, <1>1, <1>2
<1>4. ASSUME NEW p \in Offsets, NEW q \in Offsets, p < q, C[p] > 0, C[q] > 0
      PROVE  p + C[p] <= q
  <2>1. p # x /\ q # x
    BY <1>1, <1>4
  <2>2. B[q] > 0
    BY <1>4, <2>1
  <2>3. CASE p = o
    <3>1. o + B[o] <= q
      BY <2>2, <2>3, <1>4 DEF Tiles
    <3>2. x < q
      BY <3>1, <2>1, <1>1
    <3>3. x + B[x] <= q
      BY <3>2, <2>2 DEF Tiles
    <3> QED BY <3>3, <2>3, <1>2
  <2>4. CASE p # o
    <3>1. C[p] = B[p]
      BY <2>1, <2>4
    <3> QED BY <3>1, <2>2, <1>4 DEF Tiles
  <2> QED BY <2>3, <2>4
<1>5. ASSUME NEW u \in Offsets
      PROVE  \E p \in Offsets : p <= u /\ u < p + C[p]
  <2>1. PICK p \in Offsets : p <= u /\ u < p + B[p]
    BY DEF Tiles
  <2>2. CASE p = o \/ p = x
    <3>1. o <= u /\ u < o + C[o]
      BY <2>1, <2>2, <1>1, <1>2
    <3> QED BY <3>1
  <2>3. CASE p # o /\ p # x
    BY <2>1, <2>3
  <2> QED BY <2>2, <2>3
<1> QED BY <1>3, <1>4, <1>5 DEF Tiles

\* The invariant in terms of the tiling.
LEMMA InvAsTiling ==
  ASSUME TypeOK
  PROVE  /\ NoOverlap /\ NoLostUnit <=> Exclusive /\ Tiles(BlockMap)
         /\ Exclusive => BlockMap \in [Offsets -> 0 .. NumUnits]
<1>1. \A o \in Offsets : BlockMap[o] = Block(o)
  BY DEF BlockMap
<1>2. NoOverlap /\ NoLostUnit <=> Exclusive /\ Tiles(BlockMap)
  BY <1>1 DEF NoOverlap, NoLostUnit, Exclusive, Tiles
<1>3. ASSUME Exclusive
      PROVE  BlockMap \in [Offsets -> 0 .. NumUnits]
  <2>1. ASSUME NEW o \in Offsets PROVE Block(o) \in 0 .. NumUnits
    BY <1>3, NumUnitsNat DEF Exclusive, Block, TypeOK
  <2> QED BY <2>1 DEF BlockMap
<1> QED BY <1>2, <1>3

\* A new block map that tiles the region re-establishes both halves.
LEMMA TilingAsInv ==
  ASSUME TypeOK', Exclusive', Tiles(BlockMap')
  PROVE  NoOverlap' /\ NoLostUnit'
<1>1. \A o \in Offsets : BlockMap'[o] = Block(o)'
  BY DEF BlockMap
<1> QED BY <1>1 DEF NoOverlap, NoLostUnit, Exclusive, Tiles

LEMMA InitInv == Init => IInv
<1> SUFFICES ASSUME Init PROVE IInv
  OBVIOUS
<1>1. TypeOK
  BY NumUnitsNat DEF Init, TypeOK, Offsets, NoAnswer
<1>2. \A o \in Offsets : Block(o) = IF o = 0 THEN NumUnits ELSE 0
  BY NumUnitsNat DEF Init, Block
<1>3. NoOverlap
  BY <1>2, NumUnitsNat DEF NoOverlap, Init, Offsets
<1>4. NoLostUnit
  <2>1. ASSUME NEW u \in Offsets PROVE 0 \in Offsets /\ 0 <= u /\ u < 0 + Block(0)
    BY <1>2, NumUnitsNat, OffsetsAreInts
  <2> QED BY <2>1 DEF NoLostUnit
<1>5. Coalesced
  <2>1. ASSUME NEW o \in Offsets, NEW p \in Offsets, free[o] > 0, p = o + free[o]
        PROVE  FALSE
    <3>1. o = 0 /\ free[o] = NumUnits
      BY <2>1 DEF Init
    <3> QED BY <3>1, <2>1, NumUnitsNat, OffsetsAreInts
  <2> QED BY <2>1 DEF Coalesced
<1> QED BY <1>1, <1>3, <1>4, <1>5 DEF IInv

\* allocate carves its block out of the first free one.
LEMMA HitInv ==
  ASSUME IInv, NEW need \in Nat \ {0}, NEW o \in FirstFit(need), Hit(o, need)
  PROVE  IInv'
<1> DEFINE x == o + need
<1>1. /\ o \in Offsets /\ free[o] >= need
      /\ TypeOK /\ Exclusive /\ Coalesced /\ Tiles(BlockMap)
      /\ BlockMap \in [Offsets -> 0 .. NumUnits]
  BY InvAsTiling DEF IInv, FirstFit
<1>2. /\ NumUnits \in Nat /\ used \in Int /\ hwm \in Int
      /\ free \in [Offsets -> 0 .. NumUnits] /\ live \in [Offsets -> 0 .. NumUnits]
      /\ \A p \in Offsets : p \in Int /\ free[p] \in Nat /\ live[p] \in Nat
  BY <1>1, NumUnitsNat, OffsetsAreInts DEF TypeOK
<1>3. /\ live[o] = 0 /\ o \in Int /\ 0 <= o /\ free[o] > 0
      /\ \A p \in Offsets : BlockMap[p] = free[p] + live[p]
  BY <1>1, <1>2, OffsetsAreInts DEF Exclusive, BlockMap, Block
<1>4. x \in Int /\ o < x /\ x <= o + free[o] /\ o + free[o] <= NumUnits
  <2>1. o + BlockMap[o] <= NumUnits
    BY <1>1 DEF Tiles
  <2> QED BY <2>1, <1>1, <1>2, <1>3
<1>5. free[o] > need => x \in Offsets
  <2> SUFFICES ASSUME free[o] > need PROVE x \in Offsets
    OBVIOUS
  <2>1. x \in Int /\ 0 <= x /\ x < NumUnits
    BY <1>1, <1>2, <1>3, <1>4
  <2> QED BY <2>1, OffsetsAreInts
<1>6. free[o] > need => free[x] = 0 /\ live[x] = 0
  <2> SUFFICES ASSUME free[o] > need PROVE free[x] = 0 /\ live[x] = 0
    OBVIOUS
  <2>1. x < o + BlockMap[o]
    BY <1>1, <1>2, <1>3
  <2>2. BlockMap[x] = 0
    BY <2>1, <1>1, <1>4, <1>5, NoneInside
  <2> QED BY <2>2, <1>2, <1>3, <1>5
<1>7. /\ live' = [live EXCEPT ![o] = need]
      /\ free' = [p \in Offsets |-> IF p = o THEN 0
                                    ELSE IF p = x /\ free[o] > need THEN free[o] - need
                                    ELSE free[p]]
  BY DEF Hit, Carve
<1>8. TypeOK'
  <2>1. free' \in [Offsets -> 0 .. NumUnits]
    BY <1>1, <1>2, <1>7
  <2>2. need \in 0 .. NumUnits
    BY <1>1, <1>2
  <2>3. live' \in [Offsets -> 0 .. NumUnits]
    BY <2>2, <1>2, <1>7
  <2>4. used' \in Int /\ hwm' \in Int
    BY <1>2 DEF Hit
  <2>5. answer' \in [need : Nat, offset : Offsets \cup {NoBlock}]
    BY <1>1 DEF Hit
  <2> QED BY <2>1, <2>3, <2>4, <2>5 DEF TypeOK
<1> HIDE DEF x
<1>9. /\ live'[o] = need /\ free'[o] = 0
      /\ \A p \in Offsets : p # o => live'[p] = live[p]
      /\ \A p \in Offsets : p # o /\ p # x => free'[p] = free[p]
      /\ free[o] > need => free'[x] = free[o] - need
      /\ free[o] = need => \A p \in Offsets : p # o => free'[p] = free[p]
  BY <1>1, <1>2, <1>4, <1>5, <1>7
<1>10. Exclusive'
  <2> SUFFICES ASSUME NEW p \in Offsets PROVE free'[p] = 0 \/ live'[p] = 0
    BY DEF Exclusive
  <2>1. CASE p = o
    BY <2>1, <1>9
  <2>2. CASE p # o /\ p = x /\ free[o] > need
    BY <2>2, <1>6, <1>9
  <2>3. CASE p # o /\ ~(p = x /\ free[o] > need)
    <3>1. free'[p] = free[p] /\ live'[p] = live[p]
      BY <2>3, <1>1, <1>2, <1>9
    <3> QED BY <3>1, <1>1 DEF Exclusive
  <2> QED BY <2>1, <2>2, <2>3
<1>11. \A p \in Offsets : BlockMap'[p] = free'[p] + live'[p]
  BY DEF BlockMap, Block
<1>12. Tiles(BlockMap')
  <2>1. BlockMap' \in [Offsets -> 0 .. NumUnits]
    <3>1. \A p \in Offsets : free'[p] + live'[p] \in 0 .. NumUnits
      BY <1>8, <1>10, NumUnitsNat DEF TypeOK, Exclusive
    <3> QED BY <3>1 DEF BlockMap, Block
  <2>2. CASE free[o] = need
    <3>1. \A p \in Offsets : BlockMap'[p] = BlockMap[p]
      BY <2>2, <1>2, <1>3, <1>9, <1>11
    <3>2. BlockMap' = BlockMap
      BY <3>1, <2>1, <1>1
    <3> QED BY <3>2, <1>1
  <2>3. CASE free[o] > need
    <3>1. BlockMap'[o] = need /\ BlockMap'[o + need] = BlockMap[o] - need
      BY <2>3, <1>1, <1>2, <1>3, <1>4, <1>5, <1>6, <1>9, <1>11 DEF x
    <3>2. \A p \in Offsets : p # o /\ p # o + need => BlockMap'[p] = BlockMap[p]
      BY <1>3, <1>9, <1>11 DEF x
    <3>3. 0 < need /\ need < BlockMap[o] /\ need \in Nat
      BY <2>3, <1>1, <1>2, <1>3
    <3> QED BY <3>1, <3>2, <3>3, <2>1, <1>1, SplitTiles
  <2> QED BY <2>2, <2>3, <1>1, <1>2
<1>13. Coalesced'
  <2> SUFFICES ASSUME NEW a \in Offsets, NEW b \in Offsets,
                      free'[a] > 0, b = a + free'[a]
               PROVE  free'[b] = 0
    BY DEF Coalesced
  <2>1. CASE a = x /\ free[o] > need
    <3>1. b = o + free[o]
      <4>1. b = (o + need) + (free[o] - need)
        BY <2>1, <1>9 DEF x
      <4> QED BY <4>1, <1>1, <1>2
    <3>2. free[b] = 0 /\ b # o /\ b # x
      BY <3>1, <2>1, <1>1, <1>2, <1>3 DEF Coalesced, x
    <3> QED BY <3>2, <1>9
  <2>2. CASE ~(a = x /\ free[o] > need)
    <3>1. a # o /\ free'[a] = free[a]
      BY <2>2, <1>1, <1>2, <1>9
    <3>2. free[b] = 0
      BY <3>1, <1>1 DEF Coalesced
    <3>3. ~(b = x /\ free[o] > need)
      <4> SUFFICES ASSUME b = x, free[o] > need PROVE FALSE
        OBVIOUS
      <4>1. BlockMap[a] > 0 /\ a + BlockMap[a] = x
        BY <3>1, <1>1, <1>2, <1>3 DEF Exclusive
      <4>2. a < x /\ BlockMap[o] > 0
        <5>1. a \in Int /\ BlockMap[a] \in Int /\ BlockMap[o] = free[o] + live[o]
          BY <1>1, <1>2, <1>3
        <5> QED BY <5>1, <4>1, <1>1, <1>2, <1>3
      <4>3. CASE a < o
        <5>1. a + BlockMap[a] <= o
          BY <4>1, <4>2, <4>3, <1>1 DEF Tiles
        <5> QED BY <5>1, <4>1, <1>3, <1>4
      <4>4. CASE o < a
        <5>1. a < o + BlockMap[o]
          BY <4>2, <1>1, <1>2, <1>3, <1>4
        <5>2. BlockMap[a] = 0
          BY <5>1, <4>4, <1>1, NoneInside
        <5> QED BY <5>2, <4>1
      <4> QED BY <4>3, <4>4, <3>1, <1>2, <1>3
    <3>4. CASE b = o
      BY <3>4, <1>9
    <3>5. CASE b # o
      BY <3>2, <3>3, <3>5, <1>1, <1>2, <1>9
    <3> QED BY <3>4, <3>5
  <2> QED BY <2>1, <2>2
<1> QED BY <1>8, <1>10, <1>12, <1>13, TilingAsInv DEF IInv

\* release merges its block with the free neighbours on both sides.
LEMMA ReleaseInv ==
  ASSUME IInv, NEW o \in Offsets, Release(o)
  PROVE  IInv'
<1> DEFINE len == live[o]
           x == o + len
           next == {n \in LowerBound(o) : n = x}
           prev == {p \in Before(o) : p + free[p] = o}
           total == IF next = {} THEN len ELSE len + free[x]
<1>1. /\ TypeOK /\ Exclusive /\ Coalesced /\ Tiles(BlockMap)
      /\ BlockMap \in [Offsets -> 0 .. NumUnits]
  BY InvAsTiling DEF IInv
<1>2. /\ NumUnits \in Nat /\ used \in Int /\ hwm \in Int
      /\ free \in [Offsets -> 0 .. NumUnits] /\ live \in [Offsets -> 0 .. NumUnits]
      /\ \A p \in Offsets : p \in Int /\ 0 <= p /\ free[p] \in Nat /\ live[p] \in Nat
      /\ \A p \in Offsets : BlockMap[p] = free[p] + live[p]
  BY <1>1, NumUnitsNat, OffsetsAreInts DEF TypeOK, BlockMap, Block
<1>3. /\ len \in Int /\ len > 0 /\ free[o] = 0 /\ BlockMap[o] = len
      /\ x \in Int /\ o < x
  BY <1>1, <1>2 DEF Release, Exclusive
<1>4. /\ live' = [live EXCEPT ![o] = 0]
      /\ free' = [p \in Offsets |->
                    IF p \in prev THEN free[p] + total
                    ELSE IF p \in next THEN 0
                    ELSE IF p = o /\ prev = {} THEN total
                    ELSE free[p]]
  BY DEF Release, GiveBack
\* What the two lookups find.
<1>5. next = IF x \in Offsets /\ free[x] > 0 THEN {x} ELSE {}
  <2>1. \A n : n \in next => n = x /\ x \in Offsets /\ free[x] > 0
    BY DEF LowerBound
  <2>2. ASSUME x \in Offsets, free[x] > 0 PROVE x \in next
    <3>1. ASSUME NEW p \in Offsets, p >= o, free[p] > 0 PROVE x <= p
      <4>1. BlockMap[p] > 0 /\ p # o
        BY <3>1, <1>2, <1>3
      <4>2. o < p
        BY <3>1, <4>1, <1>2
      <4> QED BY <4>1, <4>2, <1>1, <1>3 DEF Tiles
    <3> QED BY <3>1, <2>2, <1>2, <1>3 DEF LowerBound
  <2> QED BY <2>1, <2>2
<1>6. \A p : p \in prev <=> p \in Offsets /\ free[p] > 0 /\ p + free[p] = o
  <2>1. ASSUME NEW p \in Offsets, free[p] > 0, p + free[p] = o
        PROVE  p \in Before(o)
    <3>1. p < o /\ BlockMap[p] > 0 /\ p + BlockMap[p] = o
      BY <2>1, <1>1, <1>2 DEF Exclusive
    <3>2. ASSUME NEW q \in Offsets, q < o, free[q] > 0 PROVE q <= p
      <4>1. BlockMap[q] > 0
        BY <3>2, <1>2
      <4>2. p < q => p + BlockMap[p] <= q
        BY <3>1, <4>1, <1>1 DEF Tiles
      <4> QED BY <4>2, <3>1, <3>2, <1>2
    <3> QED BY <3>1, <3>2, <2>1 DEF Before
  <2> QED BY <2>1 DEF Before
<1>7. \A p, q \in prev : p = q
  <2> SUFFICES ASSUME NEW p \in prev, NEW q \in prev, p < q PROVE FALSE
    BY <1>2, <1>6
  <2>1. /\ p \in Offsets /\ q \in Offsets
        /\ BlockMap[p] > 0 /\ BlockMap[q] > 0 /\ p + BlockMap[p] = o /\ q < o
    BY <1>1, <1>2, <1>6 DEF Exclusive
  <2>2. p + BlockMap[p] <= q
    BY <2>1, <1>1 DEF Tiles
  <2> QED BY <2>1, <2>2, <1>2
<1>8. total \in Int /\ total >= len /\ x + (total - len) = o + total
  BY <1>2, <1>3, <1>5
<1>9. next # {} => total = len + free[x] /\ x \in Offsets /\ free[x] > 0 /\ live[x] = 0
  BY <1>1, <1>5 DEF Exclusive
<1> HIDE DEF total, x, len
<1>10. \A p \in prev : p \in Offsets /\ p # o /\ p # x /\ p \notin next
                       /\ free[p] > 0 /\ live[p] = 0 /\ p + free[p] = o /\ p < o
  BY <1>1, <1>2, <1>3, <1>5, <1>6 DEF Exclusive
<1>11. next = {} \/ next = {x}
  BY <1>5
<1> HIDE DEF next, prev
<1>12. /\ \A p \in prev : free'[p] = free[p] + total
       /\ \A p \in next : free'[p] = 0
       /\ prev = {} => free'[o] = total
       /\ prev # {} => free'[o] = 0
       /\ \A p \in Offsets : p \notin prev /\ p \notin next /\ p # o => free'[p] = free[p]
       /\ live'[o] = 0
       /\ \A p \in Offsets : p # o => live'[p] = live[p]
  <2>1. o \notin prev /\ o \notin next
    BY <1>2, <1>3, <1>10, <1>11
  <2>2. \A p \in next : p \in Offsets /\ p \notin prev
    BY <1>9, <1>10, <1>11
  <2> QED BY <2>1, <2>2, <1>2, <1>3, <1>4, <1>10
\* The block map is merged with the next block, then with the previous one.
<1> DEFINE B1 == [p \in Offsets |-> IF p = o THEN total
                                    ELSE IF p \in next THEN 0 ELSE BlockMap[p]]
<1>13. B1 \in [Offsets -> 0 .. NumUnits] /\ Tiles(B1)
  <2>1. CASE next = {}
    <3>1. total = len
      BY <2>1 DEF total
    <3>2. B1 = BlockMap
      BY <3>1, <2>1, <1>1, <1>3
    <3> QED BY <3>2, <1>1
  <2>2. CASE next = {x}
    <3>1. x \in Offsets /\ BlockMap[x] = free[x] /\ total = len + free[x] /\ free[x] > 0
      BY <2>2, <1>2, <1>9
    <3>2. x + BlockMap[x] <= NumUnits /\ total \in 0 .. NumUnits
      <4>1. x + BlockMap[x] <= NumUnits
        BY <3>1, <1>1 DEF Tiles
      <4>2. o + total <= NumUnits
        BY <4>1, <3>1, <1>2, <1>3 DEF x
      <4> QED BY <4>1, <4>2, <1>2, <1>3, <1>8
    <3>3. B1 \in [Offsets -> 0 .. NumUnits]
      BY <3>2, <1>1, <1>2
    <3>4. B1[o] = BlockMap[o] + BlockMap[x] /\ B1[x] = 0
      BY <3>1, <2>2, <1>2, <1>3
    <3>5. \A p \in Offsets : p # o /\ p # x => B1[p] = BlockMap[p]
      BY <2>2
    <3>6. BlockMap[o] > 0 /\ x = o + BlockMap[o] /\ BlockMap[x] > 0
      BY <3>1, <1>3 DEF x
    <3> HIDE DEF B1
    <3> QED BY <3>1, <3>3, <3>4, <3>5, <3>6, <1>1, MergeTiles
  <2> QED BY <2>1, <2>2, <1>11
<1>14. B1[o] = total /\ \A p \in Offsets : p # o => B1[p] = IF p \in next THEN 0 ELSE BlockMap[p]
  OBVIOUS
<1> HIDE DEF B1
<1>15. Exclusive'
  <2> SUFFICES ASSUME NEW p \in Offsets PROVE free'[p] = 0 \/ live'[p] = 0
    BY DEF Exclusive
  <2>1. CASE p = o
    BY <2>1, <1>12
  <2>2. CASE p \in prev
    BY <2>2, <1>10, <1>12
  <2>3. CASE p \in next
    BY <2>3, <1>12
  <2>4. CASE p # o /\ p \notin prev /\ p \notin next
    BY <2>4, <1>1, <1>12 DEF Exclusive
  <2> QED BY <2>1, <2>2, <2>3, <2>4
<1>16. \A p \in Offsets : BlockMap'[p] = free'[p] + live'[p]
  BY DEF BlockMap, Block
<1>17. BlockMap' \in [Offsets -> 0 .. NumUnits] /\ Tiles(BlockMap')
  <2>1. CASE prev = {}
    <3>1. \A p \in Offsets : BlockMap'[p] = B1[p]
      <4> SUFFICES ASSUME NEW p \in Offsets PROVE BlockMap'[p] = B1[p]
        OBVIOUS
      <4>1. CASE p = o
        BY <4>1, <2>1, <1>8, <1>12, <1>14, <1>16
      <4>2. CASE p # o /\ p \in next
        BY <4>2, <1>9, <1>11, <1>12, <1>14, <1>16
      <4>3. CASE p # o /\ p \notin next
        BY <4>3, <2>1, <1>2, <1>12, <1>14, <1>16
      <4> QED BY <4>1, <4>2, <4>3
    <3>2. BlockMap' = B1
      BY <3>1, <1>13 DEF BlockMap
    <3> QED BY <3>2, <1>13
  <2>2. CASE prev # {}
    <3>1. PICK q \in prev : TRUE
      BY <2>2
    <3>2. prev = {q}
      BY <3>1, <1>7
    <3>3. /\ q \in Offsets /\ q # o /\ q # x /\ q \notin next /\ q < o
          /\ free[q] > 0 /\ live[q] = 0 /\ q + free[q] = o
      BY <3>1, <1>10
    <3>4. B1[q] = free[q] /\ B1[q] > 0 /\ q + B1[q] = o /\ B1[o] > 0
      BY <3>3, <1>2, <1>3, <1>8, <1>14
    <3>5. BlockMap'[q] = B1[q] + B1[o] /\ BlockMap'[o] = 0
      BY <3>2, <3>3, <3>4, <2>2, <1>2, <1>8, <1>12, <1>14, <1>16
    <3>6. ASSUME NEW p \in Offsets, p # q, p # o PROVE BlockMap'[p] = B1[p]
      <4>1. CASE p \in next
        BY <4>1, <3>6, <1>9, <1>11, <1>12, <1>14, <1>16
      <4>2. CASE p \notin next
        BY <4>2, <3>2, <3>6, <1>2, <1>12, <1>14, <1>16
      <4> QED BY <4>1, <4>2
    <3>7. BlockMap' \in [Offsets -> 0 .. NumUnits]
      <4>1. o + B1[o] <= NumUnits
        BY <1>13 DEF Tiles
      <4>2. BlockMap'[q] \in 0 .. NumUnits
        BY <4>1, <3>3, <3>4, <3>5, <1>2, <1>8, <1>14
      <4>3. \A p \in Offsets : BlockMap'[p] \in 0 .. NumUnits
        BY <4>2, <3>5, <3>6, <1>2, <1>13
      <4> QED BY <4>3 DEF BlockMap
    <3> QED BY <3>3, <3>4, <3>5, <3>6, <3>7, <1>13, MergeTiles
  <2> QED BY <2>1, <2>2
<1>18. TypeOK'
  <2>1. ASSUME NEW p \in Offsets PROVE free'[p] \in 0 .. NumUnits
    <3>1. free'[p] \in Nat
      BY <1>2, <1>3, <1>8, <1>11, <1>12
    <3>2. live'[p] \in Nat
      BY <1>2, <1>12
    <3> QED BY <3>1, <3>2, <1>2, <1>16, <1>17
  <2>2. free' \in [Offsets -> 0 .. NumUnits]
    BY <2>1, <1>4
  <2>3. live' \in [Offsets -> 0 .. NumUnits]
    BY <1>2, <1>4
  <2>4. used' \in Int /\ UNCHANGED hwm
    BY <1>2 DEF Release
  <2>5. answer' \in [need : Nat, offset : Offsets \cup {NoBlock}]
    BY DEF Release, NoAnswer
  <2> QED BY <2>2, <2>3, <2>4, <2>5, <1>1 DEF TypeOK
<1>19. Coalesced'
  <2> SUFFICES ASSUME NEW a \in Offsets, NEW b \in Offsets,
                      free'[a] > 0, b = a + free'[a]
               PROVE  free'[b] = 0
    BY DEF Coalesced
  \* Past the end of the merged block nothing is free.
  <2>1. b = o + total => b \notin prev /\ b \notin next /\ b # o /\ free[b] = 0
    <3> SUFFICES ASSUME b = o + total
                 PROVE  b \notin prev /\ b \notin next /\ b # o /\ free[b] = 0
      OBVIOUS
    <3>1. b # o /\ b > o
      BY <1>2, <1>3, <1>8
    <3>2. b \notin prev
      BY <3>1, <1>2, <1>10
    <3>3. CASE next = {}
      <4>1. b = x
        BY <3>3 DEF total, x
      <4> QED BY <4>1, <3>1, <3>2, <3>3, <1>2, <1>5 DEF next
    <3>4. CASE next = {x}
      <4>1. b = x + free[x] /\ free[x] > 0 /\ x \in Offsets
        BY <3>4, <1>2, <1>3, <1>9 DEF x
      <4> QED BY <4>1, <3>1, <3>2, <3>4, <1>1, <1>2 DEF Coalesced
    <3> QED BY <3>3, <3>4, <1>11
  <2>2. b = o + total => free'[b] = 0
    BY <2>1, <1>12
  <2>3. CASE a \in prev
    BY <2>2, <2>3, <1>2, <1>8, <1>10, <1>12
  <2>4. CASE a = o
    BY <2>2, <2>4, <1>2, <1>12
  <2>5. CASE a \notin prev /\ a # o
    <3>1. a \notin next /\ free'[a] = free[a]
      BY <2>5, <1>12
    <3>2. free[b] = 0
      BY <3>1, <1>1 DEF Coalesced
    <3>3. b \notin prev
      BY <3>2, <1>10
    <3>4. CASE b = o
      <4>1. a \in prev
        BY <3>1, <3>4, <1>6
      <4> QED BY <4>1, <2>5
    <3>5. CASE b # o
      BY <3>2, <3>3, <3>5, <1>12
    <3> QED BY <3>4, <3>5
  <2> QED BY <2>3, <2>4, <2>5
<1> QED BY <1>15, <1>17, <1>18, <1>19, TilingAsInv DEF IInv

LEMMA NextInv == IInv /\ [Next]_vars => IInv'
<1> SUFFICES ASSUME IInv, [Next]_vars PROVE IInv'
  OBVIOUS
<1>1. ASSUME NEW bytes \in Requests, Allocate(bytes) PROVE IInv'
  <2>1. UnitsOf(bytes) \in Nat \ {0}
    BY UnitsPositive, ArenaAssumption
  <2>2. ASSUME NEW o \in FirstFit(UnitsOf(bytes)), Hit(o, UnitsOf(bytes)) PROVE IInv'
    BY <2>1, <2>2, HitInv
  <2>3. CASE Miss(UnitsOf(bytes))
    BY <2>1, <2>3 DEF Miss, IInv, TypeOK, NoOverlap, NoLostUnit, Coalesced, Block
  <2> QED BY <1>1, <2>2, <2>3 DEF Allocate
<1>2. ASSUME NEW o \in Offsets, Release(o) PROVE IInv'
  BY <1>2, ReleaseInv
<1>3. CASE UNCHANGED vars
  BY <1>3 DEF vars, IInv, TypeOK, NoOverlap, NoLostUnit, Coalesced, Block
<1> QED BY <1>1, <1>2, <1>3 DEF Next

LEMMA Inductive == Spec => []IInv
  BY InitInv, NextInv, PTL DEF Spec

\* The maps of the arena keep their types.
THEOREM ArenaTypes == Spec => []TypeOK
  BY Inductive, PTL DEF IInv

\* Whatever the sizes and the order of the calls, no unit of the region is
\* ever in two blocks: transient_arena.h never hands out memory it already
\* handed out.
THEOREM ArenaNoOverlap == Spec => []NoOverlap
  BY Inductive, PTL DEF IInv

\* Splitting in allocate and merging in release never drop a unit.
THEOREM ArenaNoLostUnit == Spec => []NoLostUnit
  BY Inductive, PTL DEF IInv

\* release always coalesces with both neighbours.
THEOREM ArenaCoalesced == Spec => []Coalesced
  BY Inductive, PTL DEF IInv

LEMMA IdleIsWhole == IInv => WholeWhenIdle
<1> SUFFICES ASSUME IInv, NumUnits > 0, \A o \in Offsets : live[o] = 0
             PROVE  free[0] = NumUnits
  BY DEF WholeWhenIdle
<1>1. /\ NumUnits \in Nat /\ 0 \in Offsets /\ NumUnits - 1 \in Offsets
      /\ \A p \in Offsets : p \in Int /\ 0 <= p /\ free[p] \in Nat /\ Block(p) = free[p]
  BY NumUnitsNat, OffsetsAreInts DEF IInv, TypeOK, Block
<1>2. free[0] > 0
  <2>1. PICK o \in Offsets : o <= 0 /\ 0 < o + Block(o)
    BY <1>1 DEF IInv, NoLostUnit
  <2> QED BY <2>1, <1>1
<1>3. free[0] <= NumUnits
  <2>1. 0 + Block(0) <= NumUnits
    BY <1>1 DEF IInv, NoOverlap
  <2> QED BY <2>1, <1>1
<1>4. ASSUME free[0] < NumUnits PROVE FALSE
  <2>1. free[0] \in Offsets
    BY <1>1, <1>4, OffsetsAreInts
  <2>2. PICK o \in Offsets : o <= free[0] /\ free[0] < o + Block(o)
    BY <2>1 DEF IInv, NoLostUnit
  <2>3. o > 0 /\ free[o] > 0
    BY <2>2, <1>1
  <2>4. 0 + Block(0) <= o
    BY <2>3, <1>1, <1>2 DEF IInv, NoOverlap
  <2>5. o = 0 + free[0]
    BY <2>2, <2>4, <1>1
  <2> QED BY <2>3, <2>5, <1>1, <1>2 DEF IInv, Coalesced
<1> QED BY <1>1, <1>3, <1>4

\* Fragmentation never outlives the blocks that caused it.
THEOREM ArenaWholeWhenIdle == Spec => []WholeWhenIdle
  BY Inductive, IdleIsWhole, PTL
-----------------------------------------------------------------------------
(* The free list implements RegionAllocator. *)

\* A free block that is long enough is a vacant run of the abstract allocator.
LEMMA FreeIsVacant ==
  ASSUME IInv, NEW need \in Nat \ {0}, NEW o \in Offsets, free[o] >= need
  PROVE  Abstract!Vacant(o, need)
<1>1. /\ NumUnits \in Nat /\ free[o] > 0 /\ live[o] = 0 /\ o + Block(o) <= NumUnits
      /\ \A p \in Offsets : p \in Int /\ free[p] \in Nat /\ live[p] \in Nat
      /\ \A p \in Offsets : Block(p) = free[p] + live[p]
  BY NumUnitsNat, OffsetsAreInts DEF IInv, TypeOK, NoOverlap, Block
<1>2. ASSUME NEW p \in Offsets, live[p] > 0
      PROVE  p + live[p] <= o \/ o + need <= p
  <2>1. p # o /\ Block(p) = live[p] /\ Block(p) > 0 /\ Block(o) = free[o] /\ Block(o) > 0
    BY <1>1, <1>2 DEF IInv, NoOverlap
  <2>2. p < o => p + Block(p) <= o
    BY <2>1 DEF IInv, NoOverlap
  <2>3. o < p => o + Block(o) <= p
    BY <2>1 DEF IInv, NoOverlap
  <2> QED BY <2>1, <2>2, <2>3, <1>1
<1>3. o + need <= NumUnits
  BY <1>1
<1> QED BY <1>2, <1>3 DEF Abstract!Vacant, Abstract!Offsets, Offsets

\* Conversely a vacant run lies inside one free block: this is what
\* coalescing is for.
LEMMA VacantIsFree ==
  ASSUME IInv, NEW need \in Nat \ {0}, NEW q \in Offsets, Abstract!Vacant(q, need)
  PROVE  \E p \in Offsets : p <= q /\ free[p] >= need
<1>1. /\ NumUnits \in Nat /\ q + need <= NumUnits
      /\ \A p \in Offsets : live[p] > 0 => p + live[p] <= q \/ q + need <= p
      /\ \A p \in Offsets : p \in Int /\ 0 <= p /\ free[p] \in Nat /\ live[p] \in Nat
      /\ \A p \in Offsets : Block(p) = free[p] + live[p]
  BY NumUnitsNat, OffsetsAreInts
     DEF IInv, TypeOK, Block, Abstract!Vacant, Abstract!Offsets, Offsets
<1>2. PICK p \in Offsets : p <= q /\ q < p + Block(p)
  BY DEF IInv, NoLostUnit
<1>3. live[p] = 0 /\ Block(p) = free[p] /\ free[p] > 0
  BY <1>1, <1>2 DEF IInv, NoOverlap
<1>4. ASSUME free[p] < need PROVE FALSE
  <2> DEFINE e == p + free[p]
  <2>1. e \in Int /\ q < e /\ e < q + need
    BY <1>1, <1>2, <1>3, <1>4
  <2>2. e \in Offsets
    BY <2>1, <1>1, OffsetsAreInts
  <2>3. PICK r \in Offsets : r <= e /\ e < r + Block(r)
    BY <2>2 DEF IInv, NoLostUnit
  <2>4. Block(r) > 0 /\ Block(p) > 0 /\ p < e
    BY <2>1, <2>3, <1>1, <1>3
  <2> HIDE DEF e
  <2>5. r = e
    <3>1. p < r
      <4>1. ~(r < p)
        <5>1. r < p => r + Block(r) <= p
          BY <2>4 DEF IInv, NoOverlap
        <5> QED BY <5>1, <2>1, <2>3, <2>4, <1>1
      <4>2. r # p
        BY <2>1, <2>3, <1>1, <1>3 DEF e
      <4> QED BY <4>1, <4>2, <1>1
    <3>2. p + Block(p) <= r
      BY <3>1, <2>4 DEF IInv, NoOverlap
    <3> QED BY <3>2, <2>1, <2>3, <1>1, <1>3 DEF e
  <2>6. free[r] = 0
    BY <2>5, <1>3 DEF IInv, Coalesced, e
  <2>7. live[r] > 0
    BY <2>4, <2>6, <1>1
  <2> QED BY <2>1, <2>5, <2>7, <1>1
<1> QED BY <1>1, <1>2, <1>4

LEMMA TooLongForRegion ==
  \A bytes \in Nat : bytes > NumUnits * kAlign => UnitsOf(bytes) > NumUnits
  BY NumUnitsNat DEF UnitsOf, kAlign

\* What allocate does, whatever it is asked for, is a grant or a refusal of
\* the allocator that looks at the live blocks alone.
LEMMA AllocateRefines ==
  ASSUME IInv, NEW bytes \in Nat, Allocate(bytes)
  PROVE  Abstract!Grant(UnitsOf(bytes)) \/ Abstract!Refuse(UnitsOf(bytes))
<1> DEFINE need == UnitsOf(bytes)
<1>1. \A p \in Offsets : p \in Int /\ free[p] \in Nat /\ live[p] \in Nat
  BY NumUnitsNat, OffsetsAreInts DEF IInv, TypeOK
<1>2. need \in Nat \ {0}
  BY UnitsPositive
<1>3. ASSUME NEW o \in FirstFit(need), Hit(o, need) PROVE Abstract!Grant(need)
  <2>1. o \in Offsets /\ free[o] >= need /\ \A p \in Offsets : p < o => free[p] < need
    BY DEF FirstFit
  <2>2. Abstract!Vacant(o, need)
    BY <1>2, <2>1, FreeIsVacant
  <2>3. ASSUME NEW q \in Offsets, Abstract!Vacant(q, need) PROVE o <= q
    <3>1. PICK p \in Offsets : p <= q /\ free[p] >= need
      BY <1>2, <2>3, VacantIsFree
    <3> QED BY <1>1, <1>2, <2>1, <3>1
  <2> QED BY <1>3, <2>1, <2>2, <2>3 DEF Hit, Abstract!Grant, Abstract!Offsets, Offsets
<1>4. ASSUME Miss(need),
             bytes <= NumUnits * kAlign => \A p \in Offsets : free[p] < need
      PROVE  Abstract!Refuse(need)
  <2>1. ASSUME NEW q \in Offsets, Abstract!Vacant(q, need) PROVE FALSE
    <3>1. need <= NumUnits
      BY <1>2, <2>1, NumUnitsNat, OffsetsAreInts DEF Abstract!Vacant
    <3>2. bytes <= NumUnits * kAlign
      BY <1>2, <3>1, TooLongForRegion, NumUnitsNat DEF kAlign
    <3>3. PICK p \in Offsets : free[p] >= need
      BY <1>2, <2>1, VacantIsFree
    <3> QED BY <1>1, <1>2, <1>4, <3>2, <3>3
  <2> QED BY <1>4, <2>1 DEF Miss, Abstract!Refuse, Abstract!Offsets, Offsets,
                          Abstract!NoBlock, NoBlock
<1> QED BY <1>3, <1>4 DEF Allocate

LEMMA StepRefines == IInv /\ [Next]_vars => [Abstract!Next]_(Abstract!vars)
<1> SUFFICES ASSUME IInv, [Next]_vars PROVE [Abstract!Next]_(Abstract!vars)
  OBVIOUS
<1>1. ASSUME NEW bytes \in Requests, Allocate(bytes) PROVE Abstract!Next
  <2>1. bytes \in Nat /\ UnitsOf(bytes) \in {UnitsOf(b) : b \in Requests}
    BY ArenaAssumption
  <2> QED BY <1>1, <2>1, AllocateRefines DEF Abstract!Next
<1>2. ASSUME NEW o \in Offsets, Release(o) PROVE Abstract!Next
  BY <1>2 DEF Release, Abstract!Next, Abstract!Return, Abstract!Offsets, Offsets,
              Abstract!NoAnswer, NoAnswer, Abstract!NoBlock, NoBlock
<1>3. CASE UNCHANGED vars
  BY <1>3 DEF vars, Abstract!vars
<1> QED BY <1>1, <1>2, <1>3 DEF Next

LEMMA InitRefines == Init => Abstract!Init
  BY DEF Init, Abstract!Init, Abstract!Offsets, Offsets, Abstract!NoAnswer,
         NoAnswer, Abstract!NoBlock, NoBlock

\* The free list, with its splits and merges, behaves as the allocator that
\* looks at the live blocks alone: it grants the lowest vacant run, and it
\* misses only when no vacant run is long enough.
THEOREM ArenaImplementsAbstract == Spec => ImplementsAbstract
  BY Inductive, InitRefines, StepRefines, PTL DEF Spec, ImplementsAbstract, Abstract!Spec
=============================================================================
