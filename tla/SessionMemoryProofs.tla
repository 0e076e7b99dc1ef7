------------------------- MODULE SessionMemoryProofs -------------------------
(***************************************************************************)
(* Proofs about the device memory of a session, for every arena, every     *)
(* number of domains, scratches and fallback blocks, every set of sizes    *)
(* and every depth of nested functions.                                    *)
(*                                                                         *)
(* SessionInv is inductive whatever drivers run.  Its core is OwnInv: the  *)
(* slots - the scratches, the current pools and those of the other side of *)
(* a Scan - divide the allocated blocks among them.  A growth takes a      *)
(* block from its slot and gives it another one, a Scan renames the slots, *)
(* and everything else leaves the division as it is.  MemoryInv rests on   *)
(* the tiling of the arena proved in TransientArenaProofs.                 *)
(*                                                                         *)
(* ViewsHome adds that what a running function was given is still in the   *)
(* slot it was given from, or was given back: so what is inside a Scan     *)
(* stays clear of the functions that wait for it.                          *)
(*                                                                         *)
(* ScanOnly adds that nothing was given back that a function holds.  It is *)
(* inductive when the only bodies are those of Scan; a Loop body uses the  *)
(* slots of its caller.                                                    *)
(***************************************************************************)
EXTENDS SessionMemory, FiniteSetFacts, SequenceTheorems, TLAPS

(***************************************************************************)
(* Sums over the addresses.                                                *)
(***************************************************************************)
\* A change at one address changes the sum by as much.
LEMMA SumChanges ==
  ASSUME NEW n \in Nat, NEW p \in 0 .. n - 1, NEW f1, NEW f2, NEW g1, NEW g2,
         \A a \in 0 .. n - 1 : f1[a] \in Nat /\ f2[a] \in Nat,
         \A a \in 0 .. n - 1 : a # p => f1[a] = f2[a],
         Adds(g1, f1, n), Adds(g2, f2, n)
  PROVE  g2[n] = g1[n] + f2[p] - f1[p]
<1> DEFINE delta(k) == IF k <= p THEN 0 ELSE f2[p] - f1[p]
           Bad == {k \in 0 .. n : g2[k] # g1[k] + delta(k)}
<1>0. \A a \in 0 .. n : g1[a] \in Nat /\ g2[a] \in Nat
  BY SumIsInt
<1>1. Bad = {}
  <2> SUFFICES ASSUME Bad # {} PROVE FALSE
    OBVIOUS
  <2>0. Bad \in SUBSET Nat
    OBVIOUS
  <2>1. PICK k \in Bad : \A j \in Bad : k <= j
    <3> HIDE DEF Bad
    <3> QED
      BY <2>0, LeastNat
  <2>2. /\ g1[k] = IF k = 0 THEN 0 ELSE g1[k - 1] + f1[k - 1]
        /\ g2[k] = IF k = 0 THEN 0 ELSE g2[k - 1] + f2[k - 1]
    BY DEF Adds
  <2>3. k # 0
    BY <2>1, <2>2
  <2>4. k - 1 \in 0 .. n - 1 /\ k - 1 \in 0 .. n /\ k - 1 \notin Bad
    BY <2>1, <2>3
  <2>5. g2[k - 1] = g1[k - 1] + delta(k - 1)
    BY <2>4
  <2>6. CASE k - 1 = p
    BY <1>0, <2>1, <2>2, <2>3, <2>4, <2>5, <2>6
  <2>7. CASE k - 1 # p
    BY <1>0, <2>1, <2>2, <2>3, <2>4, <2>5, <2>7
  <2> QED
    BY <2>6, <2>7
<1> QED
  BY <1>0, <1>1

\* A sum of nothing.
LEMMA SumOfZeros ==
  ASSUME NEW n \in Nat, NEW f, NEW g, \A a \in 0 .. n - 1 : f[a] = 0,
         Adds(g, f, n)
  PROVE  g[n] = 0
<1> DEFINE Bad == {k \in 0 .. n : g[k] # 0}
<1>1. Bad = {}
  <2> SUFFICES ASSUME Bad # {} PROVE FALSE
    OBVIOUS
  <2>0. Bad \in SUBSET Nat
    OBVIOUS
  <2>1. PICK k \in Bad : \A j \in Bad : k <= j
    <3> HIDE DEF Bad
    <3> QED
      BY <2>0, LeastNat
  <2>2. g[k] = IF k = 0 THEN 0 ELSE g[k - 1] + f[k - 1]
    BY DEF Adds
  <2>3. k # 0
    BY <2>1, <2>2
  <2>4. k - 1 \in 0 .. n - 1 /\ k - 1 \in 0 .. n /\ k - 1 \notin Bad
    BY <2>1, <2>3
  <2> QED
    BY <2>1, <2>2, <2>3, <2>4
<1> QED
  BY <1>1

Span == Arena!NumUnits + NumDirect
BytesMap == [a \in 0 .. Span - 1 |-> BytesAt(a)]

LEMMA SpanIsNat == Span \in Nat /\ Arena!NumUnits \in Nat
BY SessionAssumption DEF Span, Arena!NumUnits, Arena!kAlign

HaveBytes == \A a \in 0 .. Span - 1 : BytesAt(a) \in Nat
BytesSummed == Adds(BytesBelow, BytesMap, Span)

LEMMA BytesBelowAdds == HaveBytes => BytesSummed
<1> SUFFICES ASSUME \A a \in 0 .. Span - 1 : BytesAt(a) \in Nat
             PROVE  Adds(BytesBelow, BytesMap, Span)
  BY DEF HaveBytes, BytesSummed
<1>1. PICK g : Adds(g, BytesMap, Span)
  <2>1. \A a \in 0 .. Span - 1 : BytesMap[a] \in Int
    BY DEF BytesMap
  <2>2. Span \in Nat
    BY SpanIsNat
  <2> QED
    BY <2>1, <2>2, SumExists
<1>2. \A a \in 0 .. Span : a # 0 => BytesMap[a - 1] = BytesAt(a - 1)
  BY SpanIsNat DEF BytesMap
<1>3. g = [a \in 0 .. Span |-> IF a = 0 THEN 0 ELSE g[a - 1] + BytesAt(a - 1)]
  BY <1>1, <1>2 DEF Adds
<1>4. BytesBelow = [a \in 0 .. Span |-> IF a = 0 THEN 0
                                        ELSE BytesBelow[a - 1] + BytesAt(a - 1)]
  BY <1>3 DEF BytesBelow, Span
<1> QED
  BY <1>2, <1>4 DEF Adds

(***************************************************************************)
(* The arena inside the session.                                           *)
(***************************************************************************)
ArenaFacts == INSTANCE TransientArenaProofs WITH Requests <- PoolSizes \cup ScratchSizes

\* The tiling of the region, which the proofs about the arena are based on.
ArenaInv == ArenaFacts!IInv

LEMMA ArenaAssumed == ArenaFacts!ArenaAssumption
BY SessionAssumption DEF ArenaFacts!ArenaAssumption

\* A first fit is free and not live, and a hit hands it out.
LEMMA ArenaAllocates ==
  ASSUME ArenaInv, NEW bytes \in Nat, Arena!Allocate(bytes)
  PROVE  /\ ArenaInv'
         /\ \/ answer'.offset = Null /\ UNCHANGED live
            \/ /\ answer'.offset \in Arena!Offsets /\ live[answer'.offset] = 0
               /\ live' = [live EXCEPT ![answer'.offset] = Arena!UnitsOf(bytes)]
<1> DEFINE need == Arena!UnitsOf(bytes)
<1>1. need \in Nat \ {0}
  BY DEF Arena!UnitsOf, Arena!kAlign
<1> HIDE DEF need
<1>2. \/ \E o \in Arena!FirstFit(need) : Arena!Hit(o, need)
      \/ Arena!Miss(need)
  BY DEF Arena!Allocate, need
<1>3. ASSUME NEW o \in Arena!FirstFit(need), Arena!Hit(o, need)
      PROVE  /\ ArenaInv' /\ answer'.offset \in Arena!Offsets
             /\ live[answer'.offset] = 0
             /\ live' = [live EXCEPT ![answer'.offset] = need]
  <2>1. o \in ArenaFacts!FirstFit(need)
    BY DEF Arena!FirstFit, ArenaFacts!FirstFit, Arena!Offsets,
           ArenaFacts!Offsets, Arena!NumUnits, ArenaFacts!NumUnits,
           Arena!kAlign, ArenaFacts!kAlign
  <2>2. ArenaFacts!Hit(o, need)
    BY <1>3 DEF Arena!Hit, ArenaFacts!Hit, Arena!Carve, ArenaFacts!Carve,
                Arena!Offsets, ArenaFacts!Offsets, Arena!NumUnits,
                ArenaFacts!NumUnits, Arena!kAlign, ArenaFacts!kAlign
  <2>3. ArenaInv'
    BY <1>1, <2>1, <2>2, ArenaAssumed, ArenaFacts!HitInv DEF ArenaInv
  <2>4. /\ answer'.offset = o /\ live' = [live EXCEPT ![o] = need]
        /\ o \in Arena!Offsets /\ free[o] >= need
    BY <1>3 DEF Arena!Hit, Arena!FirstFit
  <2>5. live[o] = 0
    <3>1. free[o] = 0 \/ live[o] = 0
      BY <2>4 DEF ArenaInv, ArenaFacts!IInv, ArenaFacts!NoOverlap,
                  Arena!Offsets, ArenaFacts!Offsets, Arena!NumUnits,
                  ArenaFacts!NumUnits, Arena!kAlign, ArenaFacts!kAlign
    <3> QED
      BY <1>1, <2>4, <3>1
  <2> QED
    BY <2>3, <2>4, <2>5
<1>4. CASE Arena!Miss(need)
  <2>1. answer'.offset = Null /\ UNCHANGED <<free, live, used, hwm>>
    BY <1>4 DEF Arena!Miss, Null
  <2>2. answer' \in [need : Nat, offset : ArenaFacts!Offsets
                                            \cup {ArenaFacts!NoBlock}]
    BY <1>1, <1>4 DEF Arena!Miss, Arena!NoBlock, ArenaFacts!NoBlock
  <2>3. ArenaInv'
    BY <2>1, <2>2 DEF ArenaInv, ArenaFacts!IInv, ArenaFacts!TypeOK,
       ArenaFacts!NoOverlap, ArenaFacts!NoLostUnit, ArenaFacts!Coalesced,
       ArenaFacts!Block
  <2> QED
    BY <2>1, <2>3
<1> QED
  BY <1>2, <1>3, <1>4 DEF need

LEMMA ArenaReleases ==
  ASSUME ArenaInv, NEW o \in Arena!Offsets, Arena!Release(o)
  PROVE  ArenaInv' /\ live' = [live EXCEPT ![o] = 0]
<1>1. o \in ArenaFacts!Offsets
  BY DEF Arena!Offsets, ArenaFacts!Offsets, Arena!NumUnits,
         ArenaFacts!NumUnits, Arena!kAlign, ArenaFacts!kAlign
<1>2. ArenaFacts!Release(o)
  BY DEF Arena!Release, ArenaFacts!Release, Arena!GiveBack,
         ArenaFacts!GiveBack, Arena!LowerBound, ArenaFacts!LowerBound,
         Arena!Before, ArenaFacts!Before, Arena!Offsets, ArenaFacts!Offsets,
         Arena!NumUnits, ArenaFacts!NumUnits, Arena!kAlign, ArenaFacts!kAlign,
         Arena!NoAnswer, ArenaFacts!NoAnswer, Arena!NoBlock, ArenaFacts!NoBlock
<1>3. ArenaInv'
  BY <1>1, <1>2, ArenaAssumed, ArenaFacts!ReleaseInv DEF ArenaInv
<1> QED
  BY <1>3 DEF Arena!Release

LEMMA ArenaStarts == Arena!Init => ArenaInv
<1>1. Arena!Init => ArenaFacts!Init
  BY DEF Arena!Init, ArenaFacts!Init, Arena!Offsets, ArenaFacts!Offsets,
         Arena!NumUnits, ArenaFacts!NumUnits, Arena!kAlign, ArenaFacts!kAlign,
         Arena!NoBlock, ArenaFacts!NoBlock, Arena!NoAnswer, ArenaFacts!NoAnswer
<1> QED
  BY <1>1, ArenaAssumed, ArenaFacts!InitInv DEF ArenaInv

LEMMA ArenaTyped ==
  ASSUME ArenaInv
  PROVE  Arena!TypeOK
BY DEF ArenaInv, ArenaFacts!IInv, ArenaFacts!TypeOK, Arena!TypeOK,
       Arena!Offsets, ArenaFacts!Offsets, Arena!NumUnits, ArenaFacts!NumUnits,
       Arena!kAlign, ArenaFacts!kAlign, Arena!NoBlock, ArenaFacts!NoBlock

(***************************************************************************)
(* Blocks, wherever they come from.                                        *)
(***************************************************************************)
MemoryInv == ArenaInv /\ direct \in [DirectAddrs -> Nat] /\ HeldIsOutstanding

Blocks == Arena!Offsets \cup DirectAddrs

\* Blocks are the addresses that are summed up, and no marker is among them.
LEMMA BlocksAre ==
  /\ Blocks = 0 .. Span - 1 /\ Pointers = Blocks \cup {Null}
  /\ \A p \in Blocks : p \in Nat /\ p # Null /\ p # Dangling
                       /\ (InArena(p) <=> p \in Arena!Offsets)
                       /\ (~InArena(p) <=> p \in DirectAddrs)
  /\ Null = -1 /\ Dangling = -2
BY SpanIsNat, SessionAssumption
DEF Blocks, Pointers, Span, Arena!Offsets, DirectAddrs, Null, Dangling,
    Arena!NoBlock, InArena

\* A block is allocated when it has bytes.
BytesSound ==
  /\ \A p \in Blocks : BytesAt(p) \in Nat /\ (p \in Allocated <=> BytesAt(p) > 0)
  /\ Allocated \subseteq Blocks

LEMMA BytesAre ==
  ArenaInv /\ direct \in [DirectAddrs -> Nat] => BytesSound
<1> SUFFICES ASSUME ArenaInv, direct \in [DirectAddrs -> Nat] PROVE BytesSound
  OBVIOUS
<1>1. live \in [Arena!Offsets -> 0 .. Arena!NumUnits] /\ Arena!NumUnits \in Nat
  BY ArenaTyped, SpanIsNat DEF Arena!TypeOK
<1>2. ASSUME NEW p \in Arena!Offsets
      PROVE  /\ BytesAt(p) \in Nat /\ p \in Blocks
             /\ p \in Allocated <=> BytesAt(p) > 0
  <2>1. BytesAt(p) = live[p] * Arena!kAlign /\ p \notin DirectAddrs
    BY BlocksAre DEF BytesAt, Blocks
  <2>2. live[p] \in Nat
    BY <1>1
  <2> QED
    BY <2>1, <2>2 DEF Allocated, Blocks, Arena!kAlign
<1>3. ASSUME NEW p \in DirectAddrs
      PROVE  /\ BytesAt(p) \in Nat /\ p \in Blocks
             /\ p \in Allocated <=> BytesAt(p) > 0
  <2>1. BytesAt(p) = direct[p] /\ p \notin Arena!Offsets
    BY BlocksAre DEF BytesAt, Blocks
  <2> QED
    BY <2>1 DEF Allocated, Blocks
<1>4. Allocated \subseteq Blocks
  BY DEF Allocated, Blocks
<1> QED
  BY <1>2, <1>3, <1>4 DEF Blocks, BytesSound

\* When the bytes of one block change, held must change by as much.
LEMMA HeldFollows ==
  ASSUME MemoryInv, ArenaInv', direct' \in [DirectAddrs -> Nat],
         NEW p \in Blocks, \A q \in Blocks \ {p} : (BytesAt(q))' = BytesAt(q),
         held' = held + (BytesAt(p))' - BytesAt(p)
  PROVE  MemoryInv'
<1>1. /\ \A q \in 0 .. Span - 1 : BytesAt(q) \in Nat
      /\ \A q \in 0 .. Span - 1 : (BytesAt(q))' \in Nat
  <2>1. \A q \in Blocks : BytesAt(q) \in Nat
    BY BytesAre DEF MemoryInv, BytesSound
  <2>2. \A q \in Blocks : (BytesAt(q))' \in Nat
    <3>1. (ArenaInv /\ direct \in [DirectAddrs -> Nat] => BytesSound)'
      BY BytesAre, PTL
    <3> QED
      BY <3>1 DEF BytesSound
  <2> QED
    BY <2>1, <2>2, BlocksAre
<1>2. Adds(BytesBelow, BytesMap, Span)
  BY <1>1, BytesBelowAdds DEF HaveBytes, BytesSummed
<1>3. Adds(BytesBelow', BytesMap', Span)
  <2>1. (HaveBytes => BytesSummed)'
    BY BytesBelowAdds, PTL
  <2> QED
    BY <1>1, <2>1 DEF HaveBytes, BytesSummed, Adds
<1>4. /\ \A q \in 0 .. Span - 1 : BytesMap[q] = BytesAt(q)
      /\ \A q \in 0 .. Span - 1 : BytesMap'[q] = (BytesAt(q))'
  BY DEF BytesMap
<1>5. BytesBelow'[Span] = BytesBelow[Span] + (BytesAt(p))' - BytesAt(p)
  <2>1. p \in 0 .. Span - 1 /\ \A q \in 0 .. Span - 1 : q # p => q \in Blocks \ {p}
    BY BlocksAre
  <2>2. BytesBelow'[Span] = BytesBelow[Span] + BytesMap'[p] - BytesMap[p]
    BY <1>1, <1>2, <1>3, <1>4, <2>1, SpanIsNat, SumChanges
  <2> QED
    BY <1>4, <2>1, <2>2
<1>6. held' = BytesBelow'[Span]
  <2>1. held = BytesBelow[Span]
    BY DEF MemoryInv, HeldIsOutstanding, Span
  <2> QED
    BY <1>5, <2>1
<1> QED
  BY <1>6 DEF MemoryInv, HeldIsOutstanding, Span

LEMMA HeldIsNat ==
  ASSUME MemoryInv
  PROVE  held \in Nat
<1>1. HaveBytes
  BY BytesAre, BlocksAre DEF MemoryInv, HaveBytes, BytesSound
<1>2. \A a \in 0 .. Span - 1 : BytesMap[a] \in Nat
  BY <1>1 DEF HaveBytes, BytesMap
<1>3. \A a \in 0 .. Span : BytesBelow[a] \in Nat
  BY <1>1, <1>2, BytesBelowAdds, SumIsInt, SpanIsNat DEF BytesSummed
<1> QED
  BY <1>3, SpanIsNat DEF MemoryInv, HeldIsOutstanding, Span

\* hipdnn_ep_state_device_alloc hands out a block nobody has, of the size asked
\* for at least, or nothing.
Handed(bytes, p) ==
  \/ /\ p = Null /\ Allocated' = Allocated /\ \A q \in Blocks : (BytesAt(q))' = BytesAt(q)
  \/ /\ p \in Blocks /\ p \notin Allocated /\ Allocated' = Allocated \cup {p}
     /\ (BytesAt(p))' >= bytes
     /\ \A q \in Blocks \ {p} : (BytesAt(q))' = BytesAt(q)

LEMMA Allocates ==
  ASSUME MemoryInv, NEW bytes \in Nat \ {0}, NEW p, DeviceAlloc(bytes, p)
  PROVE  MemoryInv' /\ Handed(bytes, p)
<1>1. /\ ArenaInv /\ ArenaInv' /\ direct \in [DirectAddrs -> Nat]
      /\ \/ answer'.offset = Null /\ UNCHANGED live
         \/ /\ answer'.offset \in Arena!Offsets /\ live[answer'.offset] = 0
            /\ live' = [live EXCEPT ![answer'.offset] = Arena!UnitsOf(bytes)]
  BY ArenaAllocates DEF MemoryInv, DeviceAlloc
<1>2. /\ live \in [Arena!Offsets -> 0 .. Arena!NumUnits] /\ Arena!NumUnits \in Nat
      /\ BytesSound /\ held = BytesBelow[Span]
  BY <1>1, ArenaTyped, SpanIsNat, BytesAre
  DEF Arena!TypeOK, MemoryInv, HeldIsOutstanding, Span
<1>3. held \in Nat
  BY HeldIsNat
<1>4. CASE answer'.offset = Null /\ p = Null /\ UNCHANGED <<direct, held>>
  <2>1. UNCHANGED <<live, direct, held>>
    BY <1>1, <1>4, BlocksAre DEF Blocks
  <2>2. /\ \A q \in Blocks : (BytesAt(q))' = BytesAt(q)
        /\ Allocated' = Allocated
    BY <2>1 DEF BytesAt, Allocated
  <2>3. MemoryInv'
    <3>1. BytesBelow' = BytesBelow
      BY <2>1 DEF BytesBelow, BytesAt
    <3> QED
      BY <1>1, <2>1, <3>1 DEF MemoryInv, HeldIsOutstanding
  <2> QED
    BY <1>4, <2>2, <2>3 DEF Handed
<1>5. CASE /\ answer'.offset = Null /\ p \in DirectAddrs /\ direct[p] = 0
           /\ direct' = [direct EXCEPT ![p] = bytes]
           /\ held' = held + bytes
  <2>1. /\ UNCHANGED live /\ p \in Blocks /\ ~InArena(p) /\ p \notin Arena!Offsets
    BY <1>1, <1>5, BlocksAre DEF Blocks
  <2>2. /\ BytesAt(p) = 0 /\ (BytesAt(p))' = bytes
        /\ \A q \in Blocks \ {p} : (BytesAt(q))' = BytesAt(q)
        /\ direct' \in [DirectAddrs -> Nat]
    BY <1>1, <1>5, <2>1, BlocksAre DEF BytesAt, Blocks
  <2>3. p \notin Allocated /\ Allocated' = Allocated \cup {p}
    <3>1. \A a \in DirectAddrs : direct'[a] > 0 <=> direct[a] > 0 \/ a = p
      BY <1>1, <1>5
    <3>2. p \notin Allocated
      BY <1>5, <2>1 DEF Allocated
    <3>3. live' = live
      BY <2>1
    <3> QED
      BY <1>5, <3>1, <3>2, <3>3 DEF Allocated
  <2>4. MemoryInv'
    BY <1>1, <1>3, <1>5, <2>1, <2>2, HeldFollows
  <2> QED
    BY <2>1, <2>2, <2>3, <2>4 DEF Handed
<1>6. CASE /\ answer'.offset # Null /\ p = answer'.offset
           /\ held' = held + live'[p] * Arena!kAlign /\ UNCHANGED direct
  <2>1. /\ p \in Arena!Offsets /\ live[p] = 0
        /\ live' = [live EXCEPT ![p] = Arena!UnitsOf(bytes)]
    BY <1>1, <1>6
  <2>2. /\ live'[p] = Arena!UnitsOf(bytes)
        /\ \A q \in Arena!Offsets \ {p} : live'[q] = live[q]
        /\ p \in Blocks /\ InArena(p)
    BY <1>2, <2>1, BlocksAre DEF Blocks
  <2>3. /\ live'[p] \in Nat \ {0} /\ live'[p] * Arena!kAlign >= bytes
    BY <2>2 DEF Arena!UnitsOf, Arena!kAlign
  <2>4. /\ BytesAt(p) = 0 /\ (BytesAt(p))' = live'[p] * Arena!kAlign
        /\ \A q \in Blocks \ {p} : (BytesAt(q))' = BytesAt(q)
        /\ direct' \in [DirectAddrs -> Nat]
    <3>1. BytesAt(p) = 0 /\ (BytesAt(p))' = live'[p] * Arena!kAlign
      BY <2>1, <2>2 DEF BytesAt, Arena!kAlign
    <3>2. ASSUME NEW q \in Blocks, q # p
          PROVE  (BytesAt(q))' = BytesAt(q)
      BY <1>6, <2>2, <3>2, BlocksAre DEF BytesAt
    <3> QED
      BY <1>1, <1>6, <3>1, <3>2
  <2>5. p \notin Allocated /\ Allocated' = Allocated \cup {p}
    <3>1. \A a \in Arena!Offsets : live'[a] > 0 <=> live[a] > 0 \/ a = p
      BY <2>1, <2>2, <2>3
    <3>2. p \notin Allocated
      <4>1. p \notin DirectAddrs
        BY <2>2, BlocksAre
      <4> QED
        BY <2>1, <4>1 DEF Allocated
    <3>3. direct' = direct
      BY <1>6
    <3> QED
      BY <2>1, <3>1, <3>2, <3>3 DEF Allocated
  <2>6. MemoryInv'
    BY <1>1, <1>3, <1>6, <2>2, <2>3, <2>4, HeldFollows DEF Arena!kAlign
  <2> QED
    BY <2>2, <2>3, <2>4, <2>5, <2>6 DEF Handed
<1> QED
  BY <1>4, <1>5, <1>6 DEF DeviceAlloc

\* hipdnn_ep_state_device_free takes one block back.
LEMMA Frees ==
  ASSUME MemoryInv, NEW p \in Allocated, DeviceFree(p)
  PROVE  /\ MemoryInv' /\ Allocated' = Allocated \ {p}
         /\ \A q \in Blocks \ {p} : (BytesAt(q))' = BytesAt(q)
         /\ inflight' \in {{}, inflight}
<1>1. /\ ArenaInv /\ direct \in [DirectAddrs -> Nat] /\ BytesSound
      /\ live \in [Arena!Offsets -> 0 .. Arena!NumUnits] /\ Arena!NumUnits \in Nat
  BY ArenaTyped, SpanIsNat, BytesAre DEF Arena!TypeOK, MemoryInv
<1>2. p \in Blocks /\ held' = held - BytesAt(p) /\ BytesAt(p) \in Nat
  BY <1>1 DEF BytesSound, DeviceFree
<1>3. held \in Nat
  BY HeldIsNat
<1>4. CASE InArena(p)
  <2>1. p \in Arena!Offsets /\ p \notin DirectAddrs
    BY <1>2, <1>4, BlocksAre
  <2>2. Arena!Release(p) /\ inflight' = {} /\ UNCHANGED direct
    <3>1. live[p] > 0
      BY <2>1 DEF Allocated
    <3> QED
      BY <1>4, <3>1 DEF DeviceFree, ArenaTakes
  <2>3. ArenaInv' /\ live' = [live EXCEPT ![p] = 0]
    BY <1>1, <2>1, <2>2, ArenaReleases
  <2>4. live'[p] = 0 /\ \A q \in Arena!Offsets \ {p} : live'[q] = live[q]
    BY <1>1, <2>1, <2>3
  <2>5. /\ (BytesAt(p))' = 0
        /\ \A q \in Blocks \ {p} : (BytesAt(q))' = BytesAt(q)
    <3>1. (BytesAt(p))' = 0
      BY <1>4, <2>4 DEF BytesAt, Arena!kAlign
    <3>2. ASSUME NEW q \in Blocks, q # p
          PROVE  (BytesAt(q))' = BytesAt(q)
      BY <2>2, <2>4, <3>2, BlocksAre DEF BytesAt
    <3> QED
      BY <3>1, <3>2
  <2>6. Allocated' = Allocated \ {p}
    <3>1. \A a \in Arena!Offsets : live'[a] > 0 <=> live[a] > 0 /\ a # p
      BY <2>1, <2>4
    <3>2. direct' = direct
      BY <2>2
    <3> QED
      BY <2>1, <3>1, <3>2 DEF Allocated
  <2>7. MemoryInv'
    BY <1>1, <1>2, <1>3, <2>2, <2>3, <2>5, HeldFollows
  <2> QED
    BY <2>2, <2>5, <2>6, <2>7
<1>5. CASE ~InArena(p)
  <2>1. p \in DirectAddrs /\ p \notin Arena!Offsets
    BY <1>2, <1>5, BlocksAre
  <2>2. direct' = [direct EXCEPT ![p] = 0] /\ UNCHANGED <<arenaVars, inflight>>
    BY <1>5 DEF DeviceFree
  <2>3. /\ ArenaInv' /\ live' = live /\ direct' \in [DirectAddrs -> Nat]
        /\ direct'[p] = 0
        /\ \A q \in DirectAddrs \ {p} : direct'[q] = direct[q]
    BY <1>1, <2>1, <2>2 DEF arenaVars, ArenaInv, ArenaFacts!IInv,
       ArenaFacts!TypeOK, ArenaFacts!NoOverlap, ArenaFacts!NoLostUnit,
       ArenaFacts!Coalesced, ArenaFacts!Block
  <2>4. /\ (BytesAt(p))' = 0
        /\ \A q \in Blocks \ {p} : (BytesAt(q))' = BytesAt(q)
    <3>1. (BytesAt(p))' = 0
      BY <1>5, <2>3 DEF BytesAt
    <3>2. ASSUME NEW q \in Blocks, q # p
          PROVE  (BytesAt(q))' = BytesAt(q)
      BY <2>3, <3>2, BlocksAre DEF BytesAt
    <3> QED
      BY <3>1, <3>2
  <2>5. Allocated' = Allocated \ {p}
    <3>1. \A a \in DirectAddrs : direct'[a] > 0 <=> direct[a] > 0 /\ a # p
      BY <2>1, <2>3
    <3> QED
      BY <2>1, <2>3, <3>1 DEF Allocated
  <2>6. MemoryInv'
    BY <1>1, <1>2, <1>3, <2>3, <2>4, HeldFollows
  <2> QED
    BY <2>2, <2>4, <2>5, <2>6
<1> QED
  BY <1>4, <1>5

(***************************************************************************)
(* What holds whatever bodies run.                                         *)
(***************************************************************************)
Frames == [fn : {"main"} \cup BodyKinds, views : [Domains -> Pointers \cup {Dangling}],
           saved : PoolSets]

TypesInv ==
  /\ pools \in PoolSets /\ scanPools \in PoolSets /\ scanActive \in BOOLEAN
  /\ scratch \in [Scratches -> [base : Pointers, size : Nat]]
  /\ stack \in Seq(Frames) /\ Len(stack) <= MaxDepth
  /\ phase \in {"new", "open", "aborted", "closing", "closed"}

\* A growth under way is of a slot of the open session, and frees only what no
\* kernel in flight can refer to.
Calls == [kind : {"pool", "scratch"}, id : Domains \cup Scratches,
          need : Nat \ {0}, at : {"free", "alloc"}]
CallInv ==
  \/ call = Idle
  \/ /\ call \in Calls /\ phase = "open" /\ stack # <<>>
     /\ call.at = "free" => inflight = {}
     /\ \/ /\ call.kind = "pool" /\ call.id \in Domains /\ call.id < pools.num
           /\ call.at = "free" => pools.base[call.id] # Null
        \/ /\ call.kind = "scratch" /\ call.id \in Scratches
           /\ call.at = "free" <=> scratch[call.id].base # Null

\* At most one Scan is active, and its frame tells where the pools of the
\* functions outside it are kept.
StackInv ==
  /\ stack # <<>> => phase \in {"open", "aborted"}
  /\ \A i \in 1 .. Top : stack[i].fn = "main" <=> i = 1
  /\ scanActive <=> \E i \in 1 .. Top : stack[i].fn = "scan"
  /\ \A i, j \in 1 .. Top : stack[i].fn = "scan" /\ stack[j].fn = "scan" => i = j

OtherPools == IF scanActive THEN stack[ScanFrame].saved ELSE scanPools

\* A domain has a buffer only if the arrays reach it, and bytes only if it has
\* a buffer; cleanup drops the buffers and leaves the rest.
InReach(p) == \A d \in Domains : p.base[d] # Null => d < p.num
Backed(p) == \A d \in Domains : p.base[d] = Null => p.size[d] = 0
PoolsInv ==
  /\ InReach(pools) /\ InReach(OtherPools)
  /\ phase = "new" => pools.num = 0
  /\ phase \notin {"closing", "closed"} => Backed(pools) /\ Backed(OtherPools)

\* A view leads to a live block, or says that its block was given back.
ViewsLive ==
  \A i \in 1 .. Top, d \in Domains :
    stack[i].views[d] \in Allocated \cup {Null, Dangling}

\* A kernel in flight refers to live memory, or was launched on a view whose
\* buffer had been given back.
InFlightKnown == inflight \subseteq Allocated \cup {Dangling}

\* The buffer and the size of every slot; a pool between the free and the
\* allocation of its growth has none.
Slots == ({"scratch"} \X Scratches) \cup ({"current", "other"} \X Domains)
Moving(d) == call.at = "alloc" /\ call.kind = "pool" /\ call.id = d
BaseOf ==
  [o \in Slots |-> IF o[1] = "scratch" THEN scratch[o[2]].base
                   ELSE IF o[1] = "other" THEN OtherPools.base[o[2]]
                   ELSE IF Moving(o[2]) THEN Null ELSE pools.base[o[2]]]
SizeOf ==
  [o \in Slots |-> IF o[1] = "scratch" THEN scratch[o[2]].size
                   ELSE IF o[1] = "other" THEN OtherPools.size[o[2]]
                   ELSE pools.size[o[2]]]

\* The slots divide the allocated blocks among them.
Divided(base, size, alloc, bytes) ==
  /\ \A p \in alloc : \E o \in Slots : base[o] = p
  /\ \A o \in Slots : base[o] # Null => base[o] \in alloc /\ size[o] <= bytes[base[o]]
  /\ \A o, q \in Slots : base[o] = base[q] /\ base[o] # Null => o = q

OwnInv == Divided(BaseOf, SizeOf, Allocated, BytesMap)

\* Cleanup starts with an idle GPU and ends with empty slots.
ClosingInv ==
  /\ phase \in {"closing", "closed"} => inflight = {}
  /\ phase = "closed" => \A o \in Slots : BaseOf[o] = Null

SessionInv ==
  /\ MemoryInv /\ TypesInv /\ CallInv /\ StackInv /\ PoolsInv /\ ViewsLive
  /\ InFlightKnown /\ OwnInv /\ ClosingInv

(***************************************************************************)
(* How the division of the blocks moves.                                   *)
(***************************************************************************)
\* Nothing was allocated or freed, and the slots were renamed: pi tells where
\* a slot's buffer was before.
LEMMA DividedRenamed ==
  ASSUME NEW b, NEW s, NEW alloc, NEW bytes, Divided(b, s, alloc, bytes),
         NEW b2, NEW s2, NEW pi \in [Slots -> Slots],
         \A o \in Slots : pi[pi[o]] = o /\ b2[o] = b[pi[o]],
         \A o \in Slots : b2[o] # Null => s2[o] = s[pi[o]]
  PROVE  Divided(b2, s2, alloc, bytes)
<1>1. \A p \in alloc : \E o \in Slots : b2[o] = p
  <2> SUFFICES ASSUME NEW p \in alloc PROVE \E o \in Slots : b2[o] = p
    OBVIOUS
  <2>1. PICK o \in Slots : b[o] = p
    BY DEF Divided
  <2> QED
    BY <2>1
<1>2. \A o \in Slots : b2[o] # Null => b2[o] \in alloc /\ s2[o] <= bytes[b2[o]]
  BY DEF Divided
<1>3. ASSUME NEW o \in Slots, NEW q \in Slots, b2[o] = b2[q], b2[o] # Null
      PROVE  o = q
  <2>1. pi[o] = pi[q]
    BY <1>3 DEF Divided
  <2> QED
    BY <2>1
<1> QED
  BY <1>1, <1>2, <1>3 DEF Divided

LEMMA DividedKept ==
  ASSUME NEW b, NEW s, NEW alloc, NEW bytes, Divided(b, s, alloc, bytes),
         NEW b2, NEW s2, \A o \in Slots : b2[o] = b[o],
         \A o \in Slots : b2[o] # Null => s2[o] = s[o]
  PROVE  Divided(b2, s2, alloc, bytes)
BY DEF Divided

\* A slot without a buffer gets a block that was not allocated.
LEMMA DividedGained ==
  ASSUME NEW b, NEW s, NEW alloc, NEW bytes, Divided(b, s, alloc, bytes),
         NEW b2, NEW s2, NEW bytes2, NEW o \in Slots, NEW p,
         Null \notin alloc, b[o] = Null, p \notin alloc, b2[o] = p, s2[o] <= bytes2[p],
         \A q \in Slots \ {o} : b2[q] = b[q] /\ s2[q] = s[q],
         \A q \in alloc : bytes2[q] = bytes[q]
  PROVE  Divided(b2, s2, alloc \cup {p}, bytes2)
<1>1. \A r \in alloc \cup {p} : \E q \in Slots : b2[q] = r
  <2> SUFFICES ASSUME NEW r \in alloc \cup {p}, r # p
               PROVE  \E q \in Slots : b2[q] = r
    OBVIOUS
  <2>1. PICK q \in Slots : b[q] = r
    BY DEF Divided
  <2>2. CASE q = o
    BY <2>1, <2>2
  <2>3. CASE q # o
    BY <2>1, <2>3
  <2> QED
    BY <2>2, <2>3
<1>2. \A q \in Slots : b2[q] # Null =>
         b2[q] \in alloc \cup {p} /\ s2[q] <= bytes2[b2[q]]
  BY DEF Divided
<1>3. \A q, r \in Slots : b2[q] = b2[r] /\ b2[q] # Null => q = r
  BY DEF Divided
<1> QED
  BY <1>1, <1>2, <1>3 DEF Divided

\* The block of a slot is given back, and the slot forgets it.
LEMMA DividedFreed ==
  ASSUME NEW b, NEW s, NEW alloc, NEW bytes, Divided(b, s, alloc, bytes),
         NEW b2, NEW s2, NEW bytes2, NEW o \in Slots, NEW p,
         b[o] = p, p # Null, b2[o] = Null,
         \A q \in Slots \ {o} : b2[q] = b[q] /\ s2[q] = s[q],
         \A q \in alloc \ {p} : bytes2[q] = bytes[q]
  PROVE  Divided(b2, s2, alloc \ {p}, bytes2)
<1>1. \A r \in alloc \ {p} : \E q \in Slots : b2[q] = r
  <2> SUFFICES ASSUME NEW r \in alloc \ {p} PROVE \E q \in Slots : b2[q] = r
    OBVIOUS
  <2>1. PICK q \in Slots : b[q] = r
    BY DEF Divided
  <2> QED
    BY <2>1
<1>2. \A q \in Slots : b2[q] # Null =>
         b2[q] \in alloc \ {p} /\ s2[q] <= bytes2[b2[q]]
  BY DEF Divided
<1>3. \A q, r \in Slots : b2[q] = b2[r] /\ b2[q] # Null => q = r
  BY DEF Divided
<1> QED
  BY <1>1, <1>2, <1>3 DEF Divided

\* What the slots hold, kind by kind.
ScratchSlots ==
  \A t \in Scratches : /\ BaseOf[<<"scratch", t>>] = scratch[t].base
                       /\ SizeOf[<<"scratch", t>>] = scratch[t].size
CurrentSlots ==
  \A d \in Domains : /\ Moving(d) => BaseOf[<<"current", d>>] = Null
                     /\ ~Moving(d) => BaseOf[<<"current", d>>] = pools.base[d]
                     /\ SizeOf[<<"current", d>>] = pools.size[d]
OtherSlots ==
  \A d \in Domains : /\ BaseOf[<<"other", d>>] = OtherPools.base[d]
                     /\ SizeOf[<<"other", d>>] = OtherPools.size[d]

LEMMA SlotsAre ==
  /\ \A t \in Scratches : <<"scratch", t>> \in Slots
  /\ \A d \in Domains : <<"current", d>> \in Slots /\ <<"other", d>> \in Slots
  /\ \A o \in Slots : \/ \E t \in Scratches : o = <<"scratch", t>>
                      \/ \E d \in Domains : o = <<"current", d>> \/ o = <<"other", d>>
BY DEF Slots

LEMMA SlotsHold == ScratchSlots /\ CurrentSlots /\ OtherSlots
<1>1. ScratchSlots
  BY SlotsAre DEF BaseOf, SizeOf, ScratchSlots
<1>2. CurrentSlots
  BY SlotsAre DEF BaseOf, SizeOf, CurrentSlots
<1>3. OtherSlots
  BY SlotsAre DEF BaseOf, SizeOf, OtherSlots
<1> QED
  BY <1>1, <1>2, <1>3

\* The pools kept aside are in the frame of the one Scan, or cached.
OtherFacts ==
  /\ ~scanActive => OtherPools = scanPools
  /\ \A i \in 1 .. Top : stack[i].fn = "scan" => scanActive /\ OtherPools = stack[i].saved
  /\ scanActive => \E i \in 1 .. Top : stack[i].fn = "scan"

LEMMA OtherPoolsAre == StackInv => OtherFacts
BY DEF StackInv, OtherFacts, OtherPools, ScanFrame

LEMMA OtherPoolsStay ==
  ASSUME StackInv, StackInv', UNCHANGED <<scanActive, scanPools>>,
         \A i \in 1 .. Top : stack[i].fn = "scan" =>
            /\ i \in 1 .. Top' /\ stack'[i].fn = "scan"
            /\ stack'[i].saved = stack[i].saved
  PROVE  OtherPools' = OtherPools
<1>1. OtherFacts /\ OtherFacts'
  <2>1. (StackInv => OtherFacts)'
    BY OtherPoolsAre, PTL
  <2> QED
    BY <2>1, OtherPoolsAre
<1>2. CASE ~scanActive
  BY <1>1, <1>2 DEF OtherFacts
<1>3. CASE scanActive
  <2>1. PICK i \in 1 .. Top : stack[i].fn = "scan"
    BY <1>1, <1>3 DEF OtherFacts
  <2>2. OtherPools = stack[i].saved /\ OtherPools' = stack'[i].saved
    BY <1>1, <2>1 DEF OtherFacts
  <2> QED
    BY <2>1, <2>2
<1> QED
  BY <1>2, <1>3

LEMMA MemoryStays ==
  ASSUME MemoryInv, UNCHANGED <<arenaVars, direct, held>>
  PROVE  MemoryInv' /\ Allocated' = Allocated /\ BytesMap' = BytesMap
<1>1. live' = live /\ direct' = direct /\ held' = held
  BY DEF arenaVars
<1>2. Allocated' = Allocated
  BY <1>1 DEF Allocated
<1>3. BytesMap' = BytesMap /\ BytesBelow' = BytesBelow
  BY <1>1 DEF BytesMap, BytesBelow, BytesAt
<1>4. ArenaInv'
  BY DEF MemoryInv, arenaVars, ArenaInv, ArenaFacts!IInv,
     ArenaFacts!TypeOK, ArenaFacts!NoOverlap, ArenaFacts!NoLostUnit,
     ArenaFacts!Coalesced, ArenaFacts!Block
<1> QED
  BY <1>1, <1>2, <1>3, <1>4 DEF MemoryInv, HeldIsOutstanding

\* Blocks have bytes; the markers are no blocks.
LEMMA AllocatedAre ==
  MemoryInv => /\ Allocated \subseteq Blocks /\ Allocated \subseteq Pointers
               /\ Null \notin Allocated /\ Dangling \notin Allocated
               /\ \A p \in Allocated : p \in Blocks /\ BytesMap[p] = BytesAt(p)
<1> SUFFICES ASSUME MemoryInv
             PROVE  /\ Allocated \subseteq Blocks /\ Allocated \subseteq Pointers
                    /\ Null \notin Allocated /\ Dangling \notin Allocated
                    /\ \A p \in Blocks : BytesMap[p] = BytesAt(p)
  OBVIOUS
<1>1. Allocated \subseteq Blocks
  BY BytesAre DEF MemoryInv, BytesSound
<1>2. \A p \in Blocks : BytesMap[p] = BytesAt(p)
  BY BlocksAre DEF BytesMap
<1> QED
  BY <1>1, <1>2, BlocksAre

LEMMA AllocatedPoint == MemoryInv => Allocated \subseteq Pointers
BY AllocatedAre

LEMMA OwnStays ==
  ASSUME OwnInv, Allocated' = Allocated, BytesMap' = BytesMap,
         UNCHANGED scratch, OtherPools' = OtherPools,
         \A d \in Domains : /\ pools'.size[d] = pools.size[d]
                            /\ BaseOf'[<<"current", d>>] = BaseOf[<<"current", d>>]
  PROVE  OwnInv' /\ \A o \in Slots : BaseOf'[o] = BaseOf[o]
<1>1. /\ ScratchSlots /\ CurrentSlots /\ OtherSlots
      /\ ScratchSlots' /\ CurrentSlots' /\ OtherSlots'
  BY SlotsHold, PTL
<1>2. ASSUME NEW o \in Slots
      PROVE  BaseOf'[o] = BaseOf[o] /\ SizeOf'[o] = SizeOf[o]
  <2>1. ASSUME NEW t \in Scratches, o = <<"scratch", t>>
        PROVE  BaseOf'[o] = BaseOf[o] /\ SizeOf'[o] = SizeOf[o]
    BY <1>1, <2>1 DEF ScratchSlots
  <2>2. ASSUME NEW d \in Domains, o = <<"other", d>>
        PROVE  BaseOf'[o] = BaseOf[o] /\ SizeOf'[o] = SizeOf[o]
    BY <1>1, <2>2 DEF OtherSlots
  <2>3. ASSUME NEW d \in Domains, o = <<"current", d>>
        PROVE  BaseOf'[o] = BaseOf[o] /\ SizeOf'[o] = SizeOf[o]
    BY <1>1, <2>3 DEF CurrentSlots
  <2> QED
    BY <2>1, <2>2, <2>3, SlotsAre
<1>3. Divided(BaseOf', SizeOf', Allocated, BytesMap)
  BY <1>2, DividedKept DEF OwnInv
<1>4. OwnInv'
  BY <1>3 DEF OwnInv, Divided, Slots
<1> QED
  BY <1>2, <1>4

(***************************************************************************)
(* Steps that leave the memory and its slots as they are.                  *)
(***************************************************************************)
LEMMA FrameTyped ==
  ASSUME NEW fn \in {"main"} \cup BodyKinds, NEW saved \in PoolSets
  PROVE  /\ Frame(fn, saved) \in Frames
         /\ Frame(fn, saved).fn = fn /\ Frame(fn, saved).saved = saved
         /\ \A d \in Domains : Frame(fn, saved).views[d] = Null
<1>1. NoViews \in [Domains -> Pointers \cup {Dangling}]
  BY DEF NoViews, Pointers
<1> QED
  BY <1>1 DEF Frame, Frames, NoViews

LEMMA NoPoolsTyped ==
  /\ NoPools \in PoolSets /\ NoPools.num = 0
  /\ \A d \in Domains : NoPools.base[d] = Null /\ NoPools.size[d] = 0
BY SessionAssumption DEF NoPools, PoolSets, Pointers

LEMMA Pushed ==
  ASSUME NEW f \in Frames, TypesInv, Top < MaxDepth, stack' = Append(stack, f)
  PROVE  /\ stack' \in Seq(Frames) /\ Top' = Top + 1 /\ Top' <= MaxDepth
         /\ stack'[Top'] = f /\ stack' # <<>> /\ Top \in Nat
         /\ \A i \in 1 .. Top : stack'[i] = stack[i]
BY SessionAssumption, AppendProperties DEF TypesInv, Top

LEMMA Popped ==
  ASSUME TypesInv, stack # <<>>, stack' = Front(stack)
  PROVE  /\ stack' \in Seq(Frames) /\ Top' = Top - 1 /\ Top' <= MaxDepth
         /\ Top \in Nat \ {0}
         /\ \A i \in 1 .. Top' : stack'[i] = stack[i]
<1>1. stack \in Seq(Frames) /\ Len(stack) \in Nat \ {0} /\ Len(stack) <= MaxDepth
  BY EmptySeq DEF TypesInv
<1>2. stack' = SubSeq(stack, 1, Len(stack) - 1)
  BY DEF Front
<1>3. /\ stack' \in Seq(Frames) /\ Len(stack') = Len(stack) - 1
      /\ \A i \in 1 .. Len(stack') : stack'[i] = stack[i]
  <2>1. \A i \in 1 .. Len(stack) - 1 : stack[i] \in Frames
    BY <1>1, ElementOfSeq
  <2>2. PICK n \in Nat : n = Len(stack) - 1
    BY <1>1
  <2>3. /\ SubSeq(stack, 1, n) \in Seq(Frames)
        /\ Len(SubSeq(stack, 1, n)) = IF 1 <= n THEN n - 1 + 1 ELSE 0
        /\ \A i \in 1 .. n - 1 + 1 : SubSeq(stack, 1, n)[i] = stack[1 + i - 1]
    BY <2>1, <2>2, SubSeqProperties
  <2>4. /\ n - 1 + 1 = n /\ (IF 1 <= n THEN n - 1 + 1 ELSE 0) = n
        /\ \A i \in 1 .. n : 1 + i - 1 = i
    BY <2>2
  <2> QED
    BY <1>2, <2>2, <2>3, <2>4
<1> QED
  BY <1>1, <1>3, SessionAssumption DEF Top

LEMMA QuietStep ==
  ASSUME SessionInv, StackInv',
         UNCHANGED <<arenaVars, direct, held, pools, scanPools, scanActive,
                     scratch, call>>,
         \A i \in 1 .. Top : stack[i].fn = "scan" =>
            /\ i \in 1 .. Top' /\ stack'[i].fn = "scan"
            /\ stack'[i].saved = stack[i].saved
  PROVE  /\ MemoryInv' /\ OwnInv' /\ Allocated' = Allocated
         /\ OtherPools' = OtherPools
         /\ \A o \in Slots : BaseOf'[o] = BaseOf[o]
<1>1. MemoryInv' /\ Allocated' = Allocated /\ BytesMap' = BytesMap
  BY MemoryStays DEF SessionInv
<1>2. OtherPools' = OtherPools
  BY OtherPoolsStay DEF SessionInv
<1>3. ASSUME NEW d \in Domains
      PROVE  BaseOf'[<<"current", d>>] = BaseOf[<<"current", d>>]
  <2>1. CurrentSlots /\ CurrentSlots'
    BY SlotsHold, PTL
  <2> QED
    BY <2>1 DEF CurrentSlots, Moving
<1>4. OwnInv' /\ \A o \in Slots : BaseOf'[o] = BaseOf[o]
  BY <1>1, <1>2, <1>3, OwnStays DEF SessionInv
<1> QED
  BY <1>1, <1>2, <1>4

\* Nothing at all happens, or only the kernels in flight change.
LEMMA InFlightStep ==
  ASSUME SessionInv,
         UNCHANGED <<arenaVars, direct, held, pools, scanPools, scanActive,
                     scratch, stack, call, phase>>,
         inflight' \subseteq Allocated \cup {Dangling},
         inflight = {} /\ inflight' # {} => call = Idle /\ phase = "open"
  PROVE  SessionInv' /\ \A o \in Slots : BaseOf'[o] = BaseOf[o]
<1>1. TypesInv' /\ StackInv'
  BY DEF SessionInv, TypesInv, StackInv, Top
<1>2. /\ MemoryInv' /\ OwnInv' /\ Allocated' = Allocated
      /\ OtherPools' = OtherPools
      /\ \A o \in Slots : BaseOf'[o] = BaseOf[o]
  BY <1>1, QuietStep DEF Top
<1>3. CallInv'
  BY DEF SessionInv, CallInv, Idle
<1>4. PoolsInv'
  BY <1>2 DEF SessionInv, PoolsInv, InReach, Backed
<1>5. ViewsLive' /\ InFlightKnown'
  BY <1>2 DEF SessionInv, ViewsLive, InFlightKnown, Top
<1>6. ClosingInv'
  BY <1>2 DEF SessionInv, ClosingInv
<1> QED
  BY <1>1, <1>2, <1>3, <1>4, <1>5, <1>6 DEF SessionInv

\* The functions running change, by nothing that holds memory.
LEMMA StackStep ==
  ASSUME SessionInv, phase = "open", call = Idle, stack' \in Seq(Frames),
         Top' <= MaxDepth, StackInv', inflight' \in {{}, inflight},
         UNCHANGED <<arenaVars, direct, held, pools, scanPools, scanActive,
                     scratch, call, phase>>,
         \A i \in 1 .. Top : stack[i].fn = "scan" =>
            /\ i \in 1 .. Top' /\ stack'[i].fn = "scan"
            /\ stack'[i].saved = stack[i].saved,
         \A i \in 1 .. Top', d \in Domains :
            stack'[i].views[d] \in Allocated \cup {Null, Dangling}
  PROVE  SessionInv' /\ \A o \in Slots : BaseOf'[o] = BaseOf[o]
<1>1. TypesInv'
  BY DEF SessionInv, TypesInv, Top
<1>2. /\ MemoryInv' /\ OwnInv' /\ Allocated' = Allocated
      /\ OtherPools' = OtherPools
      /\ \A o \in Slots : BaseOf'[o] = BaseOf[o]
  BY QuietStep
<1>3. CallInv'
  BY DEF CallInv
<1>4. PoolsInv'
  BY <1>2 DEF SessionInv, PoolsInv, InReach, Backed
<1>5. ViewsLive' /\ InFlightKnown'
  BY <1>2 DEF SessionInv, ViewsLive, InFlightKnown, Top
<1>6. ClosingInv'
  BY <1>2 DEF SessionInv, ClosingInv
<1> QED
  BY <1>1, <1>2, <1>3, <1>4, <1>5, <1>6 DEF SessionInv

LEMMA ComputeStep ==
  ASSUME SessionInv, Compute PROVE SessionInv'
<1> DEFINE f == Frame("main", NoPools)
<1>1. /\ f \in Frames /\ f.fn = "main" /\ \A d \in Domains : f.views[d] = Null
  BY FrameTyped, NoPoolsTyped
<1> HIDE DEF f
<1>2. /\ stack = <<>> /\ Top = 0 /\ stack' = <<f>> /\ call = Idle /\ phase = "open"
      /\ UNCHANGED <<arenaVars, direct, held, pools, scanPools, scanActive,
                     scratch, call, inflight, phase>>
  BY DEF Compute, f, SessionInv, CallInv, Top
<1>3. stack' \in Seq(Frames) /\ Top' = 1 /\ stack'[1] = f /\ Top' <= MaxDepth
  BY <1>1, <1>2, SessionAssumption DEF Top
<1>4. StackInv'
  BY <1>1, <1>2, <1>3 DEF SessionInv, StackInv
<1> QED
  BY <1>1, <1>2, <1>3, <1>4, StackStep

LEMMA ComputeDoneStep ==
  ASSUME SessionInv, ComputeDone PROVE SessionInv'
<1>1. /\ Top = 1 /\ stack' = <<>> /\ call = Idle /\ phase = "open"
      /\ stack # <<>> /\ inflight' \in {{}, inflight}
      /\ UNCHANGED <<arenaVars, direct, held, pools, scanPools, scanActive,
                     scratch, call, phase>>
  BY DEF ComputeDone, Running
<1>2. stack' \in Seq(Frames) /\ Top' = 0 /\ Top' <= MaxDepth
  BY <1>1, SessionAssumption DEF Top
<1>3. \A i \in 1 .. Top : stack[i].fn # "scan"
  BY <1>1 DEF SessionInv, StackInv
<1>4. StackInv'
  BY <1>1, <1>2, <1>3 DEF SessionInv, StackInv
<1> QED
  BY <1>1, <1>2, <1>3, <1>4, StackStep

LEMMA EnterLoopStep ==
  ASSUME SessionInv, EnterLoop, "loop" \in BodyKinds
  PROVE  SessionInv' /\ \A o \in Slots : BaseOf'[o] = BaseOf[o]
<1> DEFINE f == Frame("loop", NoPools)
<1>1. /\ f \in Frames /\ f.fn = "loop" /\ \A d \in Domains : f.views[d] = Null
  BY FrameTyped, NoPoolsTyped
<1> HIDE DEF f
<1>2. /\ stack # <<>> /\ call = Idle /\ phase = "open" /\ Top < MaxDepth
      /\ stack' = Append(stack, f)
      /\ UNCHANGED <<arenaVars, direct, held, pools, scanPools, scanActive,
                     scratch, call, inflight, phase>>
  BY DEF EnterLoop, Running, f
<1>3. /\ stack' \in Seq(Frames) /\ Top' = Top + 1 /\ Top' <= MaxDepth
      /\ stack'[Top'] = f /\ stack' # <<>> /\ Top \in Nat /\ Top # 0
      /\ \A i \in 1 .. Top : stack'[i] = stack[i]
  BY <1>1, <1>2, Pushed, EmptySeq DEF SessionInv, TypesInv, Top
<1>4. /\ \A i \in 1 .. Top' : i \in 1 .. Top \/ i = Top'
      /\ \A i \in 1 .. Top : i \in 1 .. Top' /\ i # Top' /\ Top' # 1
  BY <1>3
<1>5. StackInv'
  <2>1. StackInv /\ UNCHANGED <<scanActive, phase>> /\ f.fn # "scan" /\ f.fn # "main"
    BY <1>1, <1>2 DEF SessionInv
  <2>2. /\ \A i \in 1 .. Top' : stack'[i].fn = "main" <=> i = 1
        /\ \A i \in 1 .. Top' : stack'[i].fn = "scan" => i \in 1 .. Top
    BY <1>3, <1>4, <2>1 DEF StackInv
  <2>3. \A i, j \in 1 .. Top' : stack'[i].fn = "scan" /\ stack'[j].fn = "scan" => i = j
    BY <1>3, <2>1, <2>2 DEF StackInv
  <2>4. scanActive' <=> \E i \in 1 .. Top' : stack'[i].fn = "scan"
    BY <1>3, <1>4, <2>1, <2>2 DEF StackInv
  <2> QED
    BY <1>2, <2>2, <2>3, <2>4 DEF StackInv
<1>6. \A i \in 1 .. Top', d \in Domains :
        stack'[i].views[d] \in Allocated \cup {Null, Dangling}
  BY <1>1, <1>3, <1>4 DEF SessionInv, ViewsLive
<1> QED
  BY <1>2, <1>3, <1>4, <1>5, <1>6, StackStep

LEMMA LeaveLoopStep ==
  ASSUME SessionInv, LeaveLoop
  PROVE  SessionInv' /\ \A o \in Slots : BaseOf'[o] = BaseOf[o]
<1>1. /\ stack # <<>> /\ call = Idle /\ phase = "open"
      /\ stack[Top].fn = "loop" /\ stack' = Front(stack)
      /\ UNCHANGED <<arenaVars, direct, held, pools, scanPools, scanActive,
                     scratch, call, inflight, phase>>
  BY DEF LeaveLoop, Running
<1>2. /\ stack' \in Seq(Frames) /\ Top' = Top - 1 /\ Top' <= MaxDepth
      /\ Top \in Nat \ {0}
      /\ \A i \in 1 .. Top' : stack'[i] = stack[i]
  BY <1>1, Popped DEF SessionInv
<1>3. /\ \A i \in 1 .. Top : i = Top \/ i \in 1 .. Top'
      /\ \A i \in 1 .. Top' : i \in 1 .. Top
  BY <1>2
<1>4. \A i \in 1 .. Top : stack[i].fn = "scan" => i \in 1 .. Top'
  BY <1>1, <1>3
<1>5. StackInv'
  <2>1. StackInv /\ UNCHANGED <<scanActive, phase>>
    BY <1>1 DEF SessionInv
  <2>2. stack' # <<>> => phase' \in {"open", "aborted"}
    BY <1>1, <2>1
  <2>3. \A i \in 1 .. Top' : stack'[i].fn = "main" <=> i = 1
    BY <1>2, <1>3, <2>1 DEF StackInv
  <2>4. scanActive' <=> \E i \in 1 .. Top' : stack'[i].fn = "scan"
    BY <1>2, <1>3, <1>4, <2>1 DEF StackInv
  <2>5. \A i, j \in 1 .. Top' : stack'[i].fn = "scan" /\ stack'[j].fn = "scan" => i = j
    BY <1>2, <1>3, <2>1 DEF StackInv
  <2> QED
    BY <2>2, <2>3, <2>4, <2>5 DEF StackInv
<1> QED
  BY <1>1, <1>2, <1>3, <1>4, <1>5, StackStep DEF SessionInv, ViewsLive

LEMMA IterateStep ==
  ASSUME SessionInv, Iterate
  PROVE  /\ SessionInv' /\ \A o \in Slots : BaseOf'[o] = BaseOf[o]
         /\ Top' = Top /\ UNCHANGED call
         /\ \A i \in 1 .. Top, d \in Domains :
              stack'[i].views[d] = Null \/ stack'[i].views[d] = stack[i].views[d]
         /\ \A i \in 1 .. Top : /\ stack'[i].fn = stack[i].fn
                                /\ i # Top => stack'[i].views = stack[i].views
<1>1. /\ stack # <<>> /\ call = Idle /\ phase = "open" /\ Top > 1
      /\ stack' = [stack EXCEPT ![Top].views = NoViews]
      /\ UNCHANGED <<arenaVars, direct, held, pools, scanPools, scanActive,
                     scratch, call, inflight, phase>>
  BY DEF Iterate, Running
<1>2. stack \in Seq(Frames) /\ Top \in 1 .. Top /\ Top <= MaxDepth /\ Top = Len(stack)
  BY <1>1 DEF SessionInv, TypesInv, Top
<1>3. NoViews \in [Domains -> Pointers \cup {Dangling}]
  BY DEF NoViews, Pointers
<1>4. [stack[Top] EXCEPT !.views = NoViews] \in Frames
  <2>1. stack[Top] \in Frames
    BY <1>2, ElementOfSeq
  <2> QED
    BY <1>3, <2>1 DEF Frames
<1>5. stack' \in Seq(Frames) /\ Top' = Top
  BY <1>1, <1>2, <1>4, ExceptSeq DEF Top
<1>6. \A i \in 1 .. Top :
        /\ stack'[i].fn = stack[i].fn /\ stack'[i].saved = stack[i].saved
        /\ stack'[i].views = IF i = Top THEN NoViews ELSE stack[i].views
  BY <1>1, <1>2 DEF Frames
<1>7. StackInv'
  BY <1>1, <1>5, <1>6 DEF SessionInv, StackInv
<1>8. \A i \in 1 .. Top, d \in Domains :
        stack'[i].views[d] \in Allocated \cup {Null, Dangling}
  BY <1>6 DEF SessionInv, ViewsLive, NoViews
<1>9. SessionInv' /\ \A o \in Slots : BaseOf'[o] = BaseOf[o]
  BY <1>1, <1>2, <1>5, <1>6, <1>7, <1>8, StackStep
<1> QED
  BY <1>1, <1>5, <1>6, <1>9 DEF NoViews

LEMMA LaunchStep ==
  ASSUME SessionInv, Launch
  PROVE  SessionInv' /\ \A o \in Slots : BaseOf'[o] = BaseOf[o]
<1>1. PICK p \in Reachable : inflight' = inflight \cup {p}
  BY DEF Launch
<1>2. /\ call = Idle /\ phase = "open"
      /\ UNCHANGED <<arenaVars, direct, held, pools, scanPools, scanActive,
                     scratch, stack, call, phase>>
  BY DEF Launch, Running
<1>3. p \in Allocated \cup {Dangling}
  <2>1. p # Null
    BY DEF Reachable
  <2>2. ASSUME NEW i \in 1 .. Top, NEW d \in Domains, p = stack[i].views[d]
        PROVE  p \in Allocated \cup {Dangling}
    BY <2>1, <2>2 DEF SessionInv, ViewsLive
  <2>3. ASSUME NEW t \in Scratches, p = scratch[t].base
        PROVE  p \in Allocated
    <3>1. BaseOf[<<"scratch", t>>] = p /\ <<"scratch", t>> \in Slots
      BY <2>3, SlotsHold, SlotsAre DEF ScratchSlots
    <3> QED
      BY <2>1, <3>1 DEF SessionInv, OwnInv, Divided
  <2> QED
    BY <2>2, <2>3 DEF Reachable
<1>4. inflight' \subseteq Allocated \cup {Dangling}
  BY <1>1, <1>3 DEF SessionInv, InFlightKnown
<1> QED
  BY <1>2, <1>4, InFlightStep

LEMMA RetireStep ==
  ASSUME SessionInv, Retire
  PROVE  SessionInv' /\ \A o \in Slots : BaseOf'[o] = BaseOf[o]
<1>1. /\ inflight # {} /\ inflight' \subseteq inflight
      /\ UNCHANGED <<arenaVars, direct, held, pools, scanPools, scanActive,
                     scratch, stack, call, phase>>
  BY DEF Retire
<1> QED
  BY <1>1, InFlightStep DEF SessionInv, InFlightKnown

LEMMA StutterStep ==
  ASSUME SessionInv, UNCHANGED vars
  PROVE  SessionInv' /\ \A o \in Slots : BaseOf'[o] = BaseOf[o]
<1>1. UNCHANGED <<arenaVars, direct, held, pools, scanPools, scanActive,
                  scratch, stack, call, phase, inflight>>
  BY DEF vars
<1> QED
  BY <1>1, InFlightStep DEF SessionInv, InFlightKnown

\* The session moves on to its next phase with no function running.
LEMMA PhaseStep ==
  ASSUME SessionInv, stack = <<>>,
         UNCHANGED <<arenaVars, direct, held, pools, scanPools, scanActive,
                     scratch, stack, call>>,
         inflight' \in {{}, inflight}, phase' \in {"open", "closing", "closed"},
         phase' = "open" => phase \in {"new", "open"},
         phase' \in {"closing", "closed"} => inflight' = {},
         phase' = "closed" => \A o \in Slots : BaseOf[o] = Null
  PROVE  SessionInv'
<1>1. TypesInv' /\ StackInv'
  BY DEF SessionInv, TypesInv, StackInv, Top
<1>2. /\ MemoryInv' /\ OwnInv' /\ Allocated' = Allocated
      /\ OtherPools' = OtherPools
      /\ \A o \in Slots : BaseOf'[o] = BaseOf[o]
  BY <1>1, QuietStep DEF Top
<1>3. CallInv'
  <2>1. call = Idle
    BY DEF SessionInv, CallInv
  <2> QED
    BY <2>1 DEF CallInv, Idle
<1>4. PoolsInv'
  BY <1>2 DEF SessionInv, PoolsInv, InReach, Backed
<1>5. ViewsLive' /\ InFlightKnown'
  BY <1>2 DEF SessionInv, ViewsLive, InFlightKnown, Top
<1>6. ClosingInv'
  BY <1>2 DEF ClosingInv, Slots
<1> QED
  BY <1>1, <1>2, <1>3, <1>4, <1>5, <1>6 DEF SessionInv

LEMMA NoPoolInitStep ==
  ASSUME SessionInv, NoPoolInit PROVE SessionInv'
<1>1. /\ phase = "new" /\ phase' = "open"
      /\ UNCHANGED <<arenaVars, direct, held, pools, scanPools, scanActive,
                     scratch, stack, call, inflight>>
  BY DEF NoPoolInit
<1>2. stack = <<>>
  BY <1>1 DEF SessionInv, StackInv
<1> QED
  BY <1>1, <1>2, PhaseStep

LEMMA CleanupBegins ==
  ASSUME SessionInv, Cleanup PROVE SessionInv'
<1>1. /\ stack = <<>> /\ phase' = "closing" /\ inflight' = {}
      /\ UNCHANGED <<arenaVars, direct, held, pools, scanPools, scanActive,
                     scratch, stack, call>>
  BY DEF Cleanup
<1> QED
  BY <1>1, PhaseStep

\* Cleanup's loops over the domains miss none.
LEMMA NoneFirst ==
  ASSUME NEW p, InReach(p), First(p) = {}
  PROVE  \A d \in Domains : p.base[d] = Null
<1> DEFINE Bad == {d \in Domains : p.base[d] # Null}
<1>0. Bad \in SUBSET Nat
  BY SessionAssumption DEF Domains
<1> SUFFICES ASSUME Bad # {} PROVE FALSE
  OBVIOUS
<1>1. PICK k \in Bad : \A j \in Bad : k <= j
  <2> HIDE DEF Bad
  <2> QED
    BY <1>0, LeastNat
<1>2. \A e \in 0 .. k - 1 : e \in Domains /\ ~ k <= e
  BY SessionAssumption DEF Domains
<1>3. \A e \in 0 .. k - 1 : p.base[e] = Null
  BY <1>1, <1>2
<1>4. k \in First(p)
  BY <1>3 DEF First, InReach
<1> QED
  BY <1>4

\* While the session is closing no function runs, and no Scan.
LEMMA ClosingIs ==
  ASSUME SessionInv, phase = "closing"
  PROVE  /\ stack = <<>> /\ Top = 0 /\ call = Idle /\ inflight = {}
         /\ scanActive = FALSE /\ OtherPools = scanPools
         /\ InReach(pools) /\ InReach(scanPools)
<1>1. stack = <<>> /\ Top = 0 /\ call = Idle /\ inflight = {}
  BY DEF SessionInv, StackInv, CallInv, ClosingInv, Top
<1>2. ~scanActive
  BY <1>1 DEF SessionInv, StackInv
<1>3. OtherPools = scanPools
  BY <1>2, OtherPoolsAre DEF SessionInv, OtherFacts
<1> QED
  BY <1>1, <1>2, <1>3 DEF SessionInv, PoolsInv, TypesInv

LEMMA DestroyArenaStep ==
  ASSUME SessionInv, phase = "closing", DestroyArena,
         UNCHANGED <<scanActive, stack, call>>
  PROVE  SessionInv'
<1>1. /\ stack = <<>> /\ phase' = "closed" /\ inflight' = {}
      /\ UNCHANGED <<arenaVars, direct, held, pools, scanPools, scanActive,
                     scratch, stack, call>>
  BY ClosingIs DEF DestroyArena
<1>2. ASSUME NEW o \in Slots PROVE BaseOf[o] = Null
  <2>1. ScratchSlots /\ CurrentSlots /\ OtherSlots
    BY SlotsHold
  <2>2. \A d \in Domains : pools.base[d] = Null /\ scanPools.base[d] = Null
    BY ClosingIs, NoneFirst DEF DestroyArena
  <2>3. ASSUME NEW t \in Scratches, o = <<"scratch", t>> PROVE BaseOf[o] = Null
    BY <2>1, <2>3 DEF ScratchSlots, DestroyArena
  <2>4. ASSUME NEW d \in Domains, o = <<"current", d>> PROVE BaseOf[o] = Null
    BY <2>1, <2>2, <2>4 DEF CurrentSlots
  <2>5. ASSUME NEW d \in Domains, o = <<"other", d>> PROVE BaseOf[o] = Null
    BY <2>1, <2>2, <2>5, ClosingIs DEF OtherSlots
  <2> QED
    BY <2>3, <2>4, <2>5, SlotsAre
<1> QED
  BY <1>1, <1>2, PhaseStep

(***************************************************************************)
(* A Scan swaps the current pools and the others.                          *)
(***************************************************************************)
Swapped == [o \in Slots |-> IF o[1] = "current" THEN <<"other", o[2]>>
                            ELSE IF o[1] = "other" THEN <<"current", o[2]>> ELSE o]

LEMMA SwapIs ==
  /\ Swapped \in [Slots -> Slots] /\ \A o \in Slots : Swapped[Swapped[o]] = o
  /\ \A t \in Scratches : Swapped[<<"scratch", t>>] = <<"scratch", t>>
  /\ \A d \in Domains : /\ Swapped[<<"current", d>>] = <<"other", d>>
                        /\ Swapped[<<"other", d>>] = <<"current", d>>
<1>1. \A t \in Scratches : Swapped[<<"scratch", t>>] = <<"scratch", t>>
  BY SlotsAre DEF Swapped
<1>2. \A d \in Domains : /\ Swapped[<<"current", d>>] = <<"other", d>>
                         /\ Swapped[<<"other", d>>] = <<"current", d>>
  BY SlotsAre DEF Swapped
<1>3. ASSUME NEW o \in Slots
      PROVE  Swapped[o] \in Slots /\ Swapped[Swapped[o]] = o
  <2>1. ASSUME NEW t \in Scratches, o = <<"scratch", t>>
        PROVE  Swapped[o] \in Slots /\ Swapped[Swapped[o]] = o
    BY <1>1, <2>1, SlotsAre
  <2>2. ASSUME NEW d \in Domains, o = <<"other", d>> \/ o = <<"current", d>>
        PROVE  Swapped[o] \in Slots /\ Swapped[Swapped[o]] = o
    BY <1>2, <2>2, SlotsAre
  <2> QED
    BY <2>1, <2>2, SlotsAre
<1> QED
  BY <1>1, <1>2, <1>3 DEF Swapped

LEMMA SwapStep ==
  ASSUME SessionInv, phase = "open", call = Idle, stack' \in Seq(Frames),
         Top' <= MaxDepth, StackInv',
         UNCHANGED <<arenaVars, direct, held, scratch, call, inflight, phase>>,
         scanPools' \in PoolSets, scanActive' \in BOOLEAN,
         pools' = OtherPools, OtherPools' = pools, pools' \in PoolSets,
         \A i \in 1 .. Top', d \in Domains :
            stack'[i].views[d] \in Allocated \cup {Null, Dangling}
  PROVE  SessionInv' /\ \A o \in Slots : BaseOf'[o] = BaseOf[Swapped[o]]
<1>1. MemoryInv' /\ Allocated' = Allocated /\ BytesMap' = BytesMap
  BY MemoryStays DEF SessionInv
<1>2. TypesInv' /\ CallInv'
  BY DEF SessionInv, TypesInv, CallInv, Top
<1>3. PoolsInv'
  BY DEF SessionInv, PoolsInv, InReach, Backed
<1>4. ViewsLive' /\ InFlightKnown'
  BY <1>1 DEF SessionInv, ViewsLive, InFlightKnown, Top
<1>5. /\ ScratchSlots /\ CurrentSlots /\ OtherSlots
      /\ ScratchSlots' /\ CurrentSlots' /\ OtherSlots'
  BY SlotsHold, PTL
<1>6. \A d \in Domains : ~Moving(d) /\ ~Moving(d)'
  BY DEF Moving, Idle
<1>7. ASSUME NEW o \in Slots
      PROVE  BaseOf'[o] = BaseOf[Swapped[o]] /\ SizeOf'[o] = SizeOf[Swapped[o]]
  <2>1. ASSUME NEW t \in Scratches, o = <<"scratch", t>>
        PROVE  BaseOf'[o] = BaseOf[Swapped[o]] /\ SizeOf'[o] = SizeOf[Swapped[o]]
    BY <1>5, <2>1, SwapIs DEF ScratchSlots
  <2>2. ASSUME NEW d \in Domains, o = <<"other", d>>
        PROVE  BaseOf'[o] = BaseOf[Swapped[o]] /\ SizeOf'[o] = SizeOf[Swapped[o]]
    <3>1. Swapped[o] = <<"current", d>>
      BY <2>2, SwapIs
    <3> QED
      BY <1>5, <1>6, <2>2, <3>1 DEF OtherSlots, CurrentSlots
  <2>3. ASSUME NEW d \in Domains, o = <<"current", d>>
        PROVE  BaseOf'[o] = BaseOf[Swapped[o]] /\ SizeOf'[o] = SizeOf[Swapped[o]]
    <3>1. Swapped[o] = <<"other", d>>
      BY <2>3, SwapIs
    <3> QED
      BY <1>5, <1>6, <2>3, <3>1 DEF OtherSlots, CurrentSlots
  <2> QED
    BY <2>1, <2>2, <2>3, SlotsAre
<1>8. OwnInv'
  <2>1. Divided(BaseOf', SizeOf', Allocated, BytesMap)
    BY <1>7, SwapIs, DividedRenamed DEF SessionInv, OwnInv
  <2> QED
    BY <1>1, <2>1 DEF OwnInv, Divided, Slots
<1>9. ClosingInv'
  BY DEF ClosingInv
<1> QED
  BY <1>1, <1>2, <1>3, <1>4, <1>7, <1>8, <1>9 DEF SessionInv

LEMMA EnterScanStep ==
  ASSUME SessionInv, EnterScan, "scan" \in BodyKinds
  PROVE  SessionInv' /\ \A o \in Slots : BaseOf'[o] = BaseOf[Swapped[o]]
<1> DEFINE f == Frame("scan", pools)
<1>1. /\ f \in Frames /\ f.fn = "scan" /\ f.saved = pools
      /\ \A d \in Domains : f.views[d] = Null
  BY FrameTyped DEF SessionInv, TypesInv
<1> HIDE DEF f
<1>2. /\ stack # <<>> /\ call = Idle /\ phase = "open" /\ Top < MaxDepth
      /\ ~scanActive /\ scanActive' = TRUE /\ pools' = scanPools
      /\ stack' = Append(stack, f)
      /\ UNCHANGED <<arenaVars, direct, held, scanPools, scratch, call,
                     inflight, phase>>
  BY DEF EnterScan, Running, f
<1>3. /\ stack' \in Seq(Frames) /\ Top' = Top + 1 /\ Top' <= MaxDepth
      /\ stack'[Top'] = f /\ stack' # <<>> /\ Top \in Nat /\ Top # 0
      /\ \A i \in 1 .. Top : stack'[i] = stack[i]
  BY <1>1, <1>2, Pushed, EmptySeq DEF SessionInv, TypesInv, Top
<1>4. /\ \A i \in 1 .. Top' : i \in 1 .. Top \/ i = Top'
      /\ \A i \in 1 .. Top : i \in 1 .. Top' /\ i # Top'
      /\ Top' # 1 /\ Top' \in 1 .. Top'
  BY <1>3
<1>5. StackInv'
  <2>1. StackInv /\ f.fn # "main"
    BY <1>1 DEF SessionInv
  <2>2. /\ \A i \in 1 .. Top' : stack'[i].fn = "main" <=> i = 1
        /\ \A i \in 1 .. Top' : stack'[i].fn = "scan" <=> i = Top'
    BY <1>1, <1>2, <1>3, <1>4, <2>1 DEF StackInv
  <2> QED
    BY <1>2, <1>4, <2>2 DEF StackInv
<1>6. \A i \in 1 .. Top', d \in Domains :
        stack'[i].views[d] \in Allocated \cup {Null, Dangling}
  BY <1>1, <1>3, <1>4 DEF SessionInv, ViewsLive
<1>7. pools' = OtherPools /\ OtherPools' = pools
  <2>1. OtherFacts /\ OtherFacts'
    <3>1. (StackInv => OtherFacts)'
      BY OtherPoolsAre, PTL
    <3> QED
      BY <1>5, <3>1, OtherPoolsAre DEF SessionInv
  <2> QED
    BY <1>1, <1>2, <1>3, <1>4, <2>1 DEF OtherFacts
<1>8. pools' \in PoolSets /\ scanPools' \in PoolSets /\ scanActive' \in BOOLEAN
  BY <1>2 DEF SessionInv, TypesInv
<1> QED
  BY <1>2, <1>3, <1>5, <1>6, <1>7, <1>8, SwapStep

LEMMA LeaveScanStep ==
  ASSUME SessionInv, LeaveScan
  PROVE  SessionInv' /\ \A o \in Slots : BaseOf'[o] = BaseOf[Swapped[o]]
<1>1. /\ stack # <<>> /\ call = Idle /\ phase = "open"
      /\ stack[Top].fn = "scan" /\ stack' = Front(stack)
      /\ scanPools' = pools /\ pools' = stack[Top].saved /\ scanActive' = FALSE
      /\ UNCHANGED <<arenaVars, direct, held, scratch, call, inflight, phase>>
  BY DEF LeaveScan, Running
<1>2. /\ stack' \in Seq(Frames) /\ Top' = Top - 1 /\ Top' <= MaxDepth
      /\ Top \in Nat \ {0}
      /\ \A i \in 1 .. Top' : stack'[i] = stack[i]
  BY <1>1, Popped DEF SessionInv
<1>3. /\ \A i \in 1 .. Top' : i \in 1 .. Top /\ i # Top
      /\ Top \in 1 .. Top
  BY <1>2
<1>4. \A i \in 1 .. Top' : stack'[i].fn # "scan"
  BY <1>1, <1>2, <1>3 DEF SessionInv, StackInv
<1>5. StackInv'
  BY <1>1, <1>2, <1>3, <1>4 DEF SessionInv, StackInv
<1>6. \A i \in 1 .. Top', d \in Domains :
        stack'[i].views[d] \in Allocated \cup {Null, Dangling}
  BY <1>2, <1>3 DEF SessionInv, ViewsLive
<1>7. pools' = OtherPools /\ OtherPools' = pools
  <2>1. OtherFacts /\ OtherFacts'
    <3>1. (StackInv => OtherFacts)'
      BY OtherPoolsAre, PTL
    <3> QED
      BY <1>5, <3>1, OtherPoolsAre DEF SessionInv
  <2> QED
    BY <1>1, <1>3, <2>1 DEF OtherFacts
<1>8. pools' \in PoolSets /\ scanPools' \in PoolSets /\ scanActive' \in BOOLEAN
  <2>1. stack[Top] \in Frames
    BY <1>3, ElementOfSeq DEF SessionInv, TypesInv, Top
  <2> QED
    BY <1>1, <2>1 DEF SessionInv, TypesInv, Frames
<1> QED
  BY <1>1, <1>2, <1>5, <1>6, <1>7, <1>8, SwapStep

(***************************************************************************)
(* One slot loses or gains its buffer.                                     *)
(***************************************************************************)
LEMMA BytesMapIs ==
  \A q \in Blocks : BytesMap[q] = BytesAt(q) /\ BytesMap'[q] = (BytesAt(q))'
BY BlocksAre DEF BytesMap

LEMMA SlotFreed ==
  ASSUME MemoryInv, OwnInv, NEW o \in Slots, BaseOf[o] # Null,
         DeviceFree(BaseOf[o]), BaseOf'[o] = Null,
         \A q \in Slots \ {o} : BaseOf'[q] = BaseOf[q] /\ SizeOf'[q] = SizeOf[q]
  PROVE  /\ MemoryInv' /\ OwnInv' /\ BaseOf[o] \in Allocated
         /\ Allocated' = Allocated \ {BaseOf[o]} /\ inflight' \in {{}, inflight}
<1>1. BaseOf[o] \in Allocated
  BY DEF OwnInv, Divided
<1>2. /\ MemoryInv' /\ Allocated' = Allocated \ {BaseOf[o]}
      /\ \A q \in Blocks \ {BaseOf[o]} : (BytesAt(q))' = BytesAt(q)
      /\ inflight' \in {{}, inflight}
  BY <1>1, Frees
<1>3. \A q \in Allocated \ {BaseOf[o]} : BytesMap'[q] = BytesMap[q]
  BY <1>2, AllocatedAre, BytesMapIs
<1>4. Divided(BaseOf', SizeOf', Allocated \ {BaseOf[o]}, BytesMap')
  BY <1>3, DividedFreed DEF OwnInv
<1>5. OwnInv'
  BY <1>2, <1>4 DEF OwnInv, Divided, Slots
<1> QED
  BY <1>1, <1>2, <1>5

LEMMA SlotGained ==
  ASSUME MemoryInv, OwnInv, NEW o \in Slots, BaseOf[o] = Null,
         NEW bytes \in Nat \ {0}, NEW p, DeviceAlloc(bytes, p),
         BaseOf'[o] = p, p # Null => SizeOf'[o] = bytes,
         \A q \in Slots \ {o} : BaseOf'[q] = BaseOf[q] /\ SizeOf'[q] = SizeOf[q]
  PROVE  /\ MemoryInv' /\ OwnInv' /\ p \in Pointers
         /\ Allocated \subseteq Allocated' /\ p \in Allocated' \cup {Null}
<1>1. MemoryInv' /\ Handed(bytes, p)
  BY Allocates
<1>2. /\ Allocated \subseteq Blocks /\ Null \notin Allocated
  BY AllocatedAre
<1>3. CASE /\ p = Null /\ Allocated' = Allocated
           /\ \A q \in Blocks : (BytesAt(q))' = BytesAt(q)
  <2>1. \A q \in Slots : BaseOf'[q] = BaseOf[q]
                         /\ (BaseOf'[q] # Null => SizeOf'[q] = SizeOf[q])
    BY <1>3
  <2>2. Divided(BaseOf', SizeOf', Allocated, BytesMap)
    BY <2>1, DividedKept DEF OwnInv
  <2>3. \A q \in Allocated : BytesMap'[q] = BytesMap[q]
    BY <1>2, <1>3, BytesMapIs
  <2>4. Divided(BaseOf', SizeOf', Allocated, BytesMap')
    BY <2>2, <2>3 DEF Divided
  <2>5. OwnInv'
    BY <1>3, <2>4 DEF OwnInv, Divided, Slots
  <2> QED
    BY <1>1, <1>3, <2>5 DEF Pointers
<1>4. CASE /\ p \in Blocks /\ p \notin Allocated /\ Allocated' = Allocated \cup {p}
           /\ (BytesAt(p))' >= bytes
           /\ \A q \in Blocks \ {p} : (BytesAt(q))' = BytesAt(q)
  <2>1. p # Null /\ p \in Pointers
    BY <1>4, BlocksAre
  <2>2. /\ \A q \in Allocated : BytesMap'[q] = BytesMap[q]
        /\ BytesMap'[p] = (BytesAt(p))'
    BY <1>2, <1>4, BytesMapIs
  <2>3. SizeOf'[o] <= BytesMap'[p]
    <3>1. (BytesAt(p))' \in Nat
      <4>1. (ArenaInv /\ direct \in [DirectAddrs -> Nat] => BytesSound)'
        BY BytesAre, PTL
      <4> QED
        BY <1>1, <1>4, <4>1 DEF MemoryInv, BytesSound
    <3> QED
      BY <1>4, <2>1, <2>2, <3>1
  <2>4. Divided(BaseOf', SizeOf', Allocated \cup {p}, BytesMap')
    BY <1>2, <1>4, <2>1, <2>2, <2>3, DividedGained DEF OwnInv
  <2>5. OwnInv'
    BY <1>4, <2>4 DEF OwnInv, Divided, Slots
  <2> QED
    BY <1>1, <1>4, <2>1, <2>5
<1> QED
  BY <1>1, <1>3, <1>4 DEF Handed

\* The functions running are the same ones, whatever their views became.
LEMMA StackKept ==
  ASSUME StackInv, Top' = Top, scanActive' = scanActive, phase' = "open",
         \A i \in 1 .. Top : stack'[i].fn = stack[i].fn
  PROVE  StackInv'
<1>1. stack' # <<>> => phase' \in {"open", "aborted"}
  OBVIOUS
<1>2. \A i \in 1 .. Top' : stack'[i].fn = "main" <=> i = 1
  BY DEF StackInv
<1>3. scanActive' <=> \E i \in 1 .. Top' : stack'[i].fn = "scan"
  BY DEF StackInv
<1>4. \A i, j \in 1 .. Top' : stack'[i].fn = "scan" /\ stack'[j].fn = "scan" => i = j
  BY DEF StackInv
<1> QED
  BY <1>1, <1>2, <1>3, <1>4 DEF StackInv

\* The views of the running functions, after a free and after an answer.
LEMMA ViewsDropped ==
  ASSUME TypesInv, NEW p, stack' = WithoutViewsOf(p)
  PROVE  /\ stack' \in Seq(Frames) /\ Top' = Top
         /\ \A i \in 1 .. Top :
              /\ stack'[i].fn = stack[i].fn /\ stack'[i].saved = stack[i].saved
              /\ \A d \in Domains :
                   stack'[i].views[d] = IF stack[i].views[d] = p THEN Dangling
                                        ELSE stack[i].views[d]
<1> DEFINE dropped(f) == [f EXCEPT !.views =
             [d \in Domains |-> IF @[d] = p THEN Dangling ELSE @[d]]]
<1>1. /\ stack \in Seq(Frames) /\ Top = Len(stack) /\ Top \in Nat
      /\ DOMAIN stack = 1 .. Top
      /\ \A i \in 1 .. Top : stack[i] \in Frames
  BY LenProperties, ElementOfSeq DEF TypesInv, Top
<1>2. ASSUME NEW f \in Frames
      PROVE  /\ dropped(f) \in Frames
             /\ dropped(f).fn = f.fn /\ dropped(f).saved = f.saved
             /\ \A d \in Domains : dropped(f).views[d] =
                  IF f.views[d] = p THEN Dangling ELSE f.views[d]
  <2>1. [d \in Domains |-> IF f.views[d] = p THEN Dangling ELSE f.views[d]]
          \in [Domains -> Pointers \cup {Dangling}]
    BY DEF Frames
  <2> QED
    BY <2>1 DEF Frames
<1>3. stack' = [i \in 1 .. Top |-> dropped(stack[i])]
  BY <1>1 DEF WithoutViewsOf
<1> HIDE DEF dropped
<1>4. stack' \in [1 .. Top -> Frames]
  BY <1>1, <1>2, <1>3
<1>5. stack' \in Seq(Frames)
  BY <1>1, <1>4, SeqDef
<1>6. Top' = Top
  <2>1. Len(stack') \in Nat /\ DOMAIN stack' = 1 .. Len(stack')
    BY <1>5, LenProperties
  <2>2. 1 .. Len(stack') = 1 .. Top
    BY <1>4, <2>1
  <2>3. ASSUME NEW m \in Nat, NEW n \in Nat, 1 .. m = 1 .. n
        PROVE  m = n
    <3>1. \A i \in Int : (1 <= i /\ i <= m) <=> (1 <= i /\ i <= n)
      BY <2>3
    <3> QED
      BY <3>1
  <2>4. Len(stack') = Len(stack)
    BY <1>1, <2>1, <2>2, <2>3
  <2> QED
    BY <2>4 DEF Top
<1>7. \A i \in 1 .. Top : stack'[i] = dropped(stack[i])
  BY <1>3
<1> QED
  BY <1>1, <1>2, <1>5, <1>6, <1>7

LEMMA ViewGiven ==
  ASSUME TypesInv, stack # <<>>, NEW e \in Domains, NEW p \in Pointers,
         stack' = [stack EXCEPT ![Top].views[e] = p]
  PROVE  /\ stack' \in Seq(Frames) /\ Top' = Top /\ Top \in Nat \ {0}
         /\ \A i \in 1 .. Top :
              /\ stack'[i].fn = stack[i].fn /\ stack'[i].saved = stack[i].saved
              /\ \A d \in Domains :
                   stack'[i].views[d] = IF i = Top /\ d = e THEN p
                                        ELSE stack[i].views[d]
<1>1. stack \in Seq(Frames) /\ Top = Len(stack) /\ Top \in Nat \ {0} /\ Top \in 1 .. Top
  BY EmptySeq DEF TypesInv, Top
<1>2. stack[Top] \in Frames
  BY <1>1, ElementOfSeq
<1> DEFINE f == [stack[Top] EXCEPT !.views[e] = p]
<1>3. /\ f \in Frames /\ f.fn = stack[Top].fn /\ f.saved = stack[Top].saved
      /\ \A d \in Domains : f.views[d] = IF d = e THEN p ELSE stack[Top].views[d]
  BY <1>2 DEF Frames
<1>4. stack' = [stack EXCEPT ![Top] = f]
  OBVIOUS
<1> HIDE DEF f
<1>5. /\ stack' \in Seq(Frames) /\ Len(stack') = Len(stack)
      /\ \A i \in 1 .. Len(stack) : stack'[i] = IF i = Top THEN f ELSE stack[i]
  <2>1. Top \in 1 .. Len(stack)
    BY <1>1
  <2>2. /\ [stack EXCEPT ![Top] = f] \in Seq(Frames)
        /\ Len([stack EXCEPT ![Top] = f]) = Len(stack)
        /\ \A i \in 1 .. Len(stack) :
             [stack EXCEPT ![Top] = f][i] = IF i = Top THEN f ELSE stack[i]
    BY <1>1, <1>3, <2>1, ExceptSeq
  <2> QED
    BY <1>4, <2>2, Zenon
<1>6. Top' = Top
  BY <1>1, <1>5 DEF Top
<1>7. ASSUME NEW i \in 1 .. Top
      PROVE  /\ stack'[i].fn = stack[i].fn /\ stack'[i].saved = stack[i].saved
             /\ \A d \in Domains :
                  stack'[i].views[d] = IF i = Top /\ d = e THEN p
                                       ELSE stack[i].views[d]
  <2>1. i \in 1 .. Len(stack)
    BY <1>1
  <2>2. CASE i = Top
    <3>1. stack'[i] = f
      BY <1>5, <2>1, <2>2, Zenon
    <3> QED
      BY <1>3, <2>2, <3>1, Zenon
  <2>3. CASE i # Top
    <3>1. stack'[i] = stack[i]
      BY <1>5, <2>1, <2>3, Zenon
    <3> QED
      BY <2>3, <3>1
  <2> QED
    BY <2>2, <2>3
<1> QED
  BY <1>1, <1>5, <1>6, <1>7

(***************************************************************************)
(* Growth.                                                                 *)
(***************************************************************************)
\* hipdnn_ep_get_pool_base with a pool that is large enough.
GivesPool(d) ==
  /\ Running /\ pools.size[d] > 0
  /\ pools' = [pools EXCEPT !.num = IF @ > d THEN @ ELSE d + 1]
  /\ stack' = [stack EXCEPT ![Top].views[d] = pools.base[d]]
  /\ UNCHANGED <<arenaVars, direct, held, scanPools, scanActive, scratch, call,
                 inflight, phase>>

LEMMA ReachExtended ==
  ASSUME SessionInv, NEW d \in Domains,
         pools' = [pools EXCEPT !.num = IF @ > d THEN @ ELSE d + 1]
  PROVE  /\ pools' \in PoolSets /\ InReach(pools') /\ d < pools'.num
         /\ pools'.base = pools.base /\ pools'.size = pools.size
<1>1. /\ pools \in PoolSets /\ InReach(pools) /\ pools.num \in 0 .. NumDomains
      /\ d \in Nat /\ d + 1 \in 0 .. NumDomains /\ NumDomains \in Nat
  BY SessionAssumption DEF SessionInv, TypesInv, PoolsInv, PoolSets, Domains
<1>2. /\ pools'.base = pools.base /\ pools'.size = pools.size
      /\ pools'.num = IF pools.num > d THEN pools.num ELSE d + 1
  BY <1>1 DEF PoolSets
<1>3. pools' \in PoolSets
  BY <1>1 DEF PoolSets
<1>4. InReach(pools')
  <2>1. ASSUME NEW e \in Domains, pools'.base[e] # Null PROVE e < pools'.num
    <3>1. e < pools.num /\ e \in Nat
      BY <1>1, <1>2, <2>1, SessionAssumption DEF InReach, Domains
    <3> QED
      BY <1>1, <1>2, <3>1
  <2> QED
    BY <2>1 DEF InReach
<1> QED
  BY <1>1, <1>2, <1>3, <1>4

LEMMA GivesPoolStep ==
  ASSUME SessionInv, NEW e \in Domains, GivesPool(e)
  PROVE  /\ SessionInv' /\ \A o \in Slots : BaseOf'[o] = BaseOf[o]
         /\ pools.base[e] = BaseOf[<<"current", e>>] /\ pools.base[e] \in Allocated
<1>1. /\ phase = "open" /\ stack # <<>> /\ call = Idle /\ ~Moving(e)
      /\ UNCHANGED <<arenaVars, direct, held, scanPools, scanActive, scratch,
                     call, inflight, phase>>
  BY DEF GivesPool, Running, Moving, Idle
<1>2. /\ pools' \in PoolSets /\ InReach(pools')
      /\ pools'.base = pools.base /\ pools'.size = pools.size
  BY ReachExtended DEF GivesPool
<1>3. pools.base[e] = BaseOf[<<"current", e>>] /\ pools.base[e] \in Allocated
  <2>1. pools.base[e] # Null
    <3>1. pools.size[e] # 0
      BY DEF GivesPool, SessionInv, TypesInv, PoolSets
    <3> QED
      BY <1>1, <3>1 DEF SessionInv, PoolsInv, Backed
  <2>2. pools.base[e] = BaseOf[<<"current", e>>] /\ <<"current", e>> \in Slots
    BY <1>1, SlotsHold, SlotsAre DEF CurrentSlots
  <2> QED
    BY <2>1, <2>2 DEF SessionInv, OwnInv, Divided
<1>4. /\ stack' \in Seq(Frames) /\ Top' = Top /\ Top \in Nat \ {0}
      /\ \A i \in 1 .. Top :
           /\ stack'[i].fn = stack[i].fn /\ stack'[i].saved = stack[i].saved
           /\ \A d \in Domains :
                stack'[i].views[d] = IF i = Top /\ d = e THEN pools.base[e]
                                     ELSE stack[i].views[d]
  <2>1. pools.base[e] \in Pointers
    BY DEF SessionInv, TypesInv, PoolSets
  <2> QED
    BY <1>1, <2>1, ViewGiven DEF GivesPool, SessionInv
<1>5. StackInv'
  BY <1>1, <1>4, StackKept DEF SessionInv
<1>6. OtherPools' = OtherPools
  BY <1>1, <1>4, <1>5, OtherPoolsStay DEF SessionInv
<1>7. MemoryInv' /\ Allocated' = Allocated /\ BytesMap' = BytesMap
  BY <1>1, MemoryStays DEF SessionInv
<1>8. OwnInv' /\ \A o \in Slots : BaseOf'[o] = BaseOf[o]
  <2>1. ASSUME NEW d \in Domains
        PROVE  BaseOf'[<<"current", d>>] = BaseOf[<<"current", d>>]
    <3>1. CurrentSlots /\ CurrentSlots'
      BY SlotsHold, PTL
    <3> QED
      BY <1>1, <1>2, <3>1 DEF CurrentSlots, Moving
  <2> QED
    BY <1>1, <1>2, <1>6, <1>7, <2>1, OwnStays DEF SessionInv
<1>9. TypesInv' /\ CallInv'
  <2>1. TypesInv'
    BY <1>1, <1>2, <1>4 DEF SessionInv, TypesInv, Top
  <2> QED
    BY <1>1, <2>1 DEF CallInv
<1>10. PoolsInv'
  BY <1>1, <1>2, <1>6 DEF SessionInv, PoolsInv, InReach, Backed
<1>11. ViewsLive' /\ InFlightKnown'
  <2>1. ViewsLive'
    BY <1>3, <1>4, <1>7 DEF SessionInv, ViewsLive
  <2>2. InFlightKnown'
    BY <1>1, <1>7 DEF SessionInv, InFlightKnown
  <2> QED
    BY <2>1, <2>2
<1>12. ClosingInv'
  BY <1>1 DEF ClosingInv
<1> QED
  BY <1>3, <1>5, <1>7, <1>8, <1>9, <1>10, <1>11, <1>12 DEF SessionInv

\* The decision to grow.
LEMMA GrowStep ==
  ASSUME SessionInv, Running, CallInv', pools' \in PoolSets, InReach(pools'),
         pools'.base = pools.base, pools'.size = pools.size,
         inflight' \in {{}, inflight},
         UNCHANGED <<arenaVars, direct, held, scanPools, scanActive, scratch,
                     stack, phase>>,
         \A d \in Domains : Moving(d)' => pools.base[d] = Null
  PROVE  SessionInv' /\ \A o \in Slots : BaseOf'[o] = BaseOf[o]
<1>1. phase = "open" /\ phase' = "open" /\ stack # <<>> /\ call = Idle
  BY DEF Running
<1>2. TypesInv' /\ StackInv'
  BY DEF SessionInv, TypesInv, StackInv, Top
<1>3. OtherPools' = OtherPools
  BY <1>2, OtherPoolsStay DEF SessionInv, Top
<1>4. MemoryInv' /\ Allocated' = Allocated /\ BytesMap' = BytesMap
  BY MemoryStays DEF SessionInv
<1>5. OwnInv' /\ \A o \in Slots : BaseOf'[o] = BaseOf[o]
  <2>1. ASSUME NEW d \in Domains
        PROVE  BaseOf'[<<"current", d>>] = BaseOf[<<"current", d>>]
    <3>1. CurrentSlots /\ CurrentSlots'
      BY SlotsHold, PTL
    <3>2. ~Moving(d)
      BY <1>1 DEF Moving, Idle
    <3> QED
      BY <3>1, <3>2 DEF CurrentSlots
  <2> QED
    BY <1>3, <1>4, <2>1, OwnStays DEF SessionInv
<1>6. PoolsInv'
  BY <1>1, <1>3 DEF SessionInv, PoolsInv, InReach, Backed
<1>7. ViewsLive' /\ InFlightKnown'
  BY <1>4 DEF SessionInv, ViewsLive, InFlightKnown, Top
<1>8. ClosingInv'
  BY <1>1 DEF ClosingInv
<1> QED
  BY <1>2, <1>4, <1>5, <1>6, <1>7, <1>8 DEF SessionInv

\* hipdnn_ep_get_pool_base with a pool that is too small.
GrowsPool(d) ==
  /\ Running /\ stack[Top].views[d] = Null
  /\ pools' = [pools EXCEPT !.num = IF @ > d THEN @ ELSE d + 1]
  /\ \E need \in Nat \ {0} : Grow("pool", d, pools.base[d], need)
  /\ UNCHANGED <<arenaVars, direct, held, scanPools, scanActive, scratch,
                 stack, phase>>

LEMMA GetPoolCases ==
  ASSUME SessionInv, NEW d \in Domains, NEW size \in PoolSizes, GetPool(d, size)
  PROVE  GivesPool(d) \/ GrowsPool(d)
<1> DEFINE need == IF size = 0 THEN 1 ELSE size
<1>1. need \in Nat \ {0}
  BY SessionAssumption
<1>2. pools.size[d] \in Nat
  BY DEF SessionInv, TypesInv, PoolSets
<1>3. /\ Running /\ stack[Top].views[d] = Null
      /\ pools' = [pools EXCEPT !.num = IF @ > d THEN @ ELSE d + 1]
      /\ \/ /\ need <= pools.size[d]
            /\ stack' = [stack EXCEPT ![Top].views[d] = pools.base[d]]
            /\ UNCHANGED <<call, inflight>>
         \/ /\ need > pools.size[d]
            /\ Grow("pool", d, pools.base[d], need)
            /\ UNCHANGED stack
      /\ UNCHANGED <<arenaVars, direct, held, scanPools, scanActive, scratch, phase>>
  BY DEF GetPool
<1> HIDE DEF need
<1>4. CASE need <= pools.size[d] /\ UNCHANGED <<call, inflight>>
           /\ stack' = [stack EXCEPT ![Top].views[d] = pools.base[d]]
  <2>1. pools.size[d] > 0
    BY <1>1, <1>2, <1>4
  <2> QED
    BY <1>3, <1>4, <2>1 DEF GivesPool
<1>5. CASE Grow("pool", d, pools.base[d], need) /\ UNCHANGED stack
  BY <1>1, <1>3, <1>5 DEF GrowsPool
<1> QED
  BY <1>3, <1>4, <1>5

LEMMA GrowsPoolStep ==
  ASSUME SessionInv, NEW d \in Domains, GrowsPool(d)
  PROVE  SessionInv' /\ \A o \in Slots : BaseOf'[o] = BaseOf[o]
<1>1. PICK need \in Nat \ {0} : Grow("pool", d, pools.base[d], need)
  BY DEF GrowsPool
<1>2. /\ Running /\ phase' = "open" /\ stack' # <<>>
      /\ UNCHANGED <<arenaVars, direct, held, scanPools, scanActive, scratch,
                     stack, phase>>
  BY DEF GrowsPool, Running
<1>3. /\ pools' \in PoolSets /\ InReach(pools') /\ d < pools'.num
      /\ pools'.base = pools.base /\ pools'.size = pools.size
  BY ReachExtended DEF GrowsPool
<1>4. /\ call'.kind = "pool" /\ call'.id = d /\ call'.need = need
      /\ pools.base[d] = Null => call'.at = "alloc" /\ inflight' = inflight
      /\ pools.base[d] # Null => call'.at = "free" /\ inflight' = {}
  BY <1>1 DEF Grow
<1>5. CallInv'
  <2>1. call' \in Calls
    BY <1>1 DEF Grow, Calls
  <2> QED
    BY <1>2, <1>3, <1>4, <2>1 DEF CallInv
<1>6. \A e \in Domains : Moving(e)' => pools.base[e] = Null
  BY <1>4 DEF Moving
<1>7. inflight' \in {{}, inflight}
  BY <1>4
<1> QED
  BY <1>2, <1>3, <1>5, <1>6, <1>7, GrowStep

LEMMA EnsureScratchStep ==
  ASSUME SessionInv, NEW t \in Scratches, NEW size \in ScratchSizes,
         EnsureScratch(t, size)
  PROVE  SessionInv' /\ \A o \in Slots : BaseOf'[o] = BaseOf[o]
<1>1. size \in Nat /\ scratch[t].size \in Nat
  BY SessionAssumption DEF SessionInv, TypesInv
<1>2. /\ Running /\ size > scratch[t].size /\ phase' = "open" /\ stack' # <<>>
      /\ UNCHANGED <<arenaVars, direct, held, pools, scanPools, scanActive,
                     scratch, stack, phase>>
  BY DEF EnsureScratch, Running
<1>3. \E need \in Nat \ {0} : Grow("scratch", t, scratch[t].base, need)
  <2> DEFINE grown == scratch[t].size + scratch[t].size \div 2
             need == IF grown > size THEN grown ELSE size
  <2>1. need \in Nat \ {0}
    BY <1>1, <1>2
  <2>2. Grow("scratch", t, scratch[t].base, need)
    BY DEF EnsureScratch
  <2> QED
    BY <2>1, <2>2
<1>4. PICK need \in Nat \ {0} : Grow("scratch", t, scratch[t].base, need)
  BY <1>3
<1>5. /\ call'.kind = "scratch" /\ call'.id = t /\ call'.need = need
      /\ scratch[t].base = Null => call'.at = "alloc" /\ inflight' = inflight
      /\ scratch[t].base # Null => call'.at = "free" /\ inflight' = {}
  BY <1>4 DEF Grow
<1>6. CallInv'
  <2>1. call' \in Calls
    BY <1>4 DEF Grow, Calls
  <2> QED
    BY <1>2, <1>5, <2>1 DEF CallInv
<1>7. \A e \in Domains : Moving(e)' => pools.base[e] = Null
  BY <1>5 DEF Moving
<1>8. inflight' \in {{}, inflight} /\ pools' \in PoolSets /\ InReach(pools')
  BY <1>2, <1>5 DEF SessionInv, TypesInv, PoolsInv
<1> QED
  BY <1>2, <1>6, <1>7, <1>8, GrowStep

\* The slot a growth is about.
GrowSlot == IF call.kind = "pool" THEN <<"current", call.id>> ELSE <<"scratch", call.id>>
GrowBase == IF call.kind = "pool" THEN pools.base[call.id] ELSE scratch[call.id].base

\* A growth under way: its slot, and what the function that runs may rely on.
LEMMA GrowingIs ==
  ASSUME SessionInv, call.at \in {"free", "alloc"}
  PROVE  /\ phase = "open" /\ stack # <<>> /\ call.need \in Nat \ {0}
         /\ GrowSlot \in Slots
         /\ call.at = "free" => /\ inflight = {} /\ BaseOf[GrowSlot] = GrowBase
                                /\ GrowBase # Null
         /\ call.at = "alloc" => BaseOf[GrowSlot] = Null
         /\ \/ call.kind = "pool" /\ call.id \in Domains /\ call.id < pools.num
            \/ call.kind = "scratch" /\ call.id \in Scratches
<1>1. call # Idle
  BY DEF Idle
<1>2. /\ phase = "open" /\ stack # <<>> /\ call.need \in Nat \ {0}
      /\ call.at = "free" => inflight = {}
      /\ \/ /\ call.kind = "pool" /\ call.id \in Domains /\ call.id < pools.num
            /\ call.at = "free" => pools.base[call.id] # Null
         \/ /\ call.kind = "scratch" /\ call.id \in Scratches
            /\ call.at = "free" <=> scratch[call.id].base # Null
  BY <1>1 DEF SessionInv, CallInv, Calls
<1>3. ScratchSlots /\ CurrentSlots
  BY SlotsHold
<1>4. CASE /\ call.kind = "pool" /\ call.id \in Domains /\ call.id < pools.num
           /\ call.at = "free" => pools.base[call.id] # Null
  <2>1. GrowSlot = <<"current", call.id>> /\ GrowBase = pools.base[call.id]
    BY <1>4 DEF GrowSlot, GrowBase
  <2>2. /\ call.at = "alloc" => Moving(call.id)
        /\ call.at = "free" => ~Moving(call.id)
    BY <1>4 DEF Moving
  <2>3. /\ call.at = "alloc" => BaseOf[<<"current", call.id>>] = Null
        /\ call.at = "free" => BaseOf[<<"current", call.id>>] = pools.base[call.id]
    BY <1>3, <1>4, <2>2 DEF CurrentSlots
  <2>4. <<"current", call.id>> \in Slots
    BY <1>4, SlotsAre
  <2> QED
    BY <1>2, <1>4, <2>1, <2>3, <2>4
<1>5. CASE /\ call.kind = "scratch" /\ call.id \in Scratches
           /\ call.at = "free" <=> scratch[call.id].base # Null
  <2>1. GrowSlot = <<"scratch", call.id>> /\ GrowBase = scratch[call.id].base
    BY <1>5 DEF GrowSlot, GrowBase
  <2>2. BaseOf[<<"scratch", call.id>>] = scratch[call.id].base
    BY <1>3, <1>5 DEF ScratchSlots
  <2>3. <<"scratch", call.id>> \in Slots
    BY <1>5, SlotsAre
  <2> QED
    BY <1>2, <1>5, <2>1, <2>2, <2>3
<1> QED
  BY <1>2, <1>4, <1>5

LEMMA GrowFreeStep ==
  ASSUME SessionInv, GrowFree
  PROVE  /\ SessionInv'
         /\ BaseOf[GrowSlot] = GrowBase /\ GrowBase # Null /\ GrowSlot \in Slots
         /\ \A q \in Slots \ {GrowSlot} : BaseOf'[q] = BaseOf[q]
<1> DEFINE old == GrowBase
<1>1. /\ call.at = "free" /\ DeviceFree(old) /\ stack' = WithoutViewsOf(old)
      /\ call' = [call EXCEPT !.at = "alloc"]
      /\ call.kind = "pool" => scratch' = scratch
      /\ call.kind = "scratch" => scratch' = [scratch EXCEPT ![call.id] = NoBuffer]
      /\ UNCHANGED <<pools, scanPools, scanActive, phase>>
  BY DEF GrowFree, GrowBase
<1>2. /\ phase = "open" /\ stack # <<>> /\ call.need \in Nat \ {0}
      /\ GrowSlot \in Slots /\ inflight = {} /\ BaseOf[GrowSlot] = old
      /\ old # Null /\ call # Idle
      /\ \/ call.kind = "pool" /\ call.id \in Domains /\ call.id < pools.num
         \/ call.kind = "scratch" /\ call.id \in Scratches
  BY <1>1, GrowingIs DEF Idle
<1> HIDE DEF old
<1>3. /\ call'.at = "alloc" /\ call'.kind = call.kind /\ call'.id = call.id
      /\ call' \in Calls
  BY <1>1, <1>2 DEF SessionInv, CallInv, Calls
<1>4. /\ stack' \in Seq(Frames) /\ Top' = Top /\ Top \in Nat \ {0}
      /\ \A i \in 1 .. Top :
           /\ stack'[i].fn = stack[i].fn /\ stack'[i].saved = stack[i].saved
           /\ \A d \in Domains :
                stack'[i].views[d] = IF stack[i].views[d] = old THEN Dangling
                                     ELSE stack[i].views[d]
  BY <1>1, <1>2, ViewsDropped, EmptySeq DEF SessionInv, TypesInv, Top
<1>5. StackInv'
  BY <1>1, <1>2, <1>4, StackKept DEF SessionInv
<1>6. OtherPools' = OtherPools
  BY <1>1, <1>4, <1>5, OtherPoolsStay DEF SessionInv
<1>7. /\ scratch' \in [Scratches -> [base : Pointers, size : Nat]]
      /\ call.kind = "scratch" => scratch'[call.id] = NoBuffer
      /\ \A t \in Scratches : (call.kind = "scratch" => t # call.id)
                              => scratch'[t] = scratch[t]
  <2>1. NoBuffer \in [base : Pointers, size : Nat]
    BY DEF NoBuffer, Pointers
  <2> QED
    BY <1>1, <1>2, <2>1 DEF SessionInv, TypesInv
<1>8. /\ BaseOf'[GrowSlot] = Null
      /\ \A q \in Slots \ {GrowSlot} : BaseOf'[q] = BaseOf[q] /\ SizeOf'[q] = SizeOf[q]
  <2>1. /\ ScratchSlots /\ CurrentSlots /\ OtherSlots
        /\ ScratchSlots' /\ CurrentSlots' /\ OtherSlots'
    BY SlotsHold, PTL
  <2>2. /\ call.kind = "pool" => GrowSlot = <<"current", call.id>>
        /\ call.kind = "scratch" => GrowSlot = <<"scratch", call.id>>
        /\ \A d \in Domains : ~Moving(d)
        /\ \A d \in Domains : Moving(d)' <=> call.kind = "pool" /\ d = call.id
    BY <1>1, <1>3 DEF GrowSlot, Moving
  <2>3. BaseOf'[GrowSlot] = Null
    <3>1. CASE call.kind = "pool"
      BY <1>2, <2>1, <2>2, <3>1 DEF CurrentSlots
    <3>2. CASE call.kind = "scratch"
      BY <1>2, <1>7, <2>1, <2>2, <3>2 DEF ScratchSlots, NoBuffer
    <3> QED
      BY <1>2, <3>1, <3>2
  <2>4. ASSUME NEW q \in Slots, q # GrowSlot
        PROVE  BaseOf'[q] = BaseOf[q] /\ SizeOf'[q] = SizeOf[q]
    <3>1. ASSUME NEW t \in Scratches, q = <<"scratch", t>>
          PROVE  BaseOf'[q] = BaseOf[q] /\ SizeOf'[q] = SizeOf[q]
      BY <1>7, <2>1, <2>2, <2>4, <3>1 DEF ScratchSlots
    <3>2. ASSUME NEW d \in Domains, q = <<"other", d>>
          PROVE  BaseOf'[q] = BaseOf[q] /\ SizeOf'[q] = SizeOf[q]
      BY <1>6, <2>1, <3>2 DEF OtherSlots
    <3>3. ASSUME NEW d \in Domains, q = <<"current", d>>
          PROVE  BaseOf'[q] = BaseOf[q] /\ SizeOf'[q] = SizeOf[q]
      <4>1. ~Moving(d)' /\ ~Moving(d)
        BY <2>2, <2>4, <3>3
      <4> QED
        BY <1>1, <2>1, <3>3, <4>1 DEF CurrentSlots
    <3> QED
      BY <3>1, <3>2, <3>3, SlotsAre
  <2> QED
    BY <2>3, <2>4
<1>9. /\ MemoryInv' /\ OwnInv' /\ old \in Allocated
      /\ Allocated' = Allocated \ {old} /\ inflight' = {}
  BY <1>1, <1>2, <1>8, SlotFreed DEF SessionInv
<1>10. TypesInv'
  BY <1>1, <1>4, <1>7 DEF SessionInv, TypesInv, Top
<1>11. CallInv'
  <2>1. stack' # <<>>
    BY <1>4 DEF Top
  <2>2. call.kind = "scratch" => scratch'[call.id].base = Null
    BY <1>7 DEF NoBuffer
  <2> QED
    BY <1>1, <1>2, <1>3, <2>1, <2>2 DEF CallInv
<1>12. PoolsInv'
  BY <1>1, <1>6 DEF SessionInv, PoolsInv, InReach, Backed
<1>13. ViewsLive' /\ InFlightKnown'
  BY <1>4, <1>9 DEF SessionInv, ViewsLive, InFlightKnown
<1>14. ClosingInv'
  BY <1>1, <1>2 DEF ClosingInv
<1>15. SessionInv'
  BY <1>5, <1>9, <1>10, <1>11, <1>12, <1>13, <1>14 DEF SessionInv
<1> QED
  BY <1>2, <1>8, <1>15 DEF old

\* The buffer of a pool domain is replaced.
Replaced(arrays, e, p, n) == [arrays EXCEPT !.base[e] = p, !.size[e] = n]

LEMMA ReplacedIs ==
  ASSUME NEW arrays \in PoolSets, NEW e \in Domains, NEW p \in Pointers,
         NEW n \in Nat
  PROVE  LET after == Replaced(arrays, e, p, n) IN
         /\ after \in PoolSets /\ after.num = arrays.num
         /\ after.base[e] = p /\ after.size[e] = n
         /\ \A d \in Domains \ {e} : /\ after.base[d] = arrays.base[d]
                                     /\ after.size[d] = arrays.size[d]
BY DEF PoolSets, Replaced

LEMMA DeviceAllocGives ==
  ASSUME SessionInv, NEW bytes \in Nat \ {0}, NEW p, DeviceAlloc(bytes, p)
  PROVE  p \in Pointers
<1>1. Handed(bytes, p)
  BY Allocates DEF SessionInv
<1> QED
  BY <1>1 DEF Handed, Blocks, Pointers

LEMMA GrowAllocPool ==
  ASSUME SessionInv, call.at = "alloc", call.kind = "pool", NEW p,
         DeviceAlloc(call.need, p), call' = Idle,
         pools' = Replaced(pools, call.id, p, IF p = Null THEN 0 ELSE call.need),
         stack' = [stack EXCEPT ![Top].views[call.id] = p],
         UNCHANGED <<scratch, phase, scanPools, scanActive, inflight>>
  PROVE  /\ SessionInv' /\ BaseOf'[GrowSlot] = p
         /\ \A q \in Slots \ {GrowSlot} : BaseOf'[q] = BaseOf[q]
<1> DEFINE n == IF p = Null THEN 0 ELSE call.need
<1>1. /\ phase = "open" /\ stack # <<>> /\ call.need \in Nat \ {0}
      /\ GrowSlot \in Slots /\ BaseOf[GrowSlot] = Null
      /\ call.id \in Domains /\ call.id < pools.num
      /\ GrowSlot = <<"current", call.id>>
  BY GrowingIs DEF GrowSlot
<1>2. p \in Pointers /\ n \in Nat
  BY <1>1, DeviceAllocGives
<1>3. /\ pools' \in PoolSets /\ pools'.num = pools.num
      /\ pools'.base[call.id] = p /\ pools'.size[call.id] = n
      /\ \A d \in Domains \ {call.id} : /\ pools'.base[d] = pools.base[d]
                                        /\ pools'.size[d] = pools.size[d]
  <2>1. pools \in PoolSets /\ pools' = Replaced(pools, call.id, p, n)
    BY DEF SessionInv, TypesInv
  <2> HIDE DEF n
  <2>2. \A e \in Domains : LET after == Replaced(pools, e, p, n) IN
          /\ after \in PoolSets /\ after.num = pools.num
          /\ after.base[e] = p /\ after.size[e] = n
          /\ \A d \in Domains \ {e} : /\ after.base[d] = pools.base[d]
                                      /\ after.size[d] = pools.size[d]
    BY <1>2, <2>1, ReplacedIs
  <2> QED
    BY <1>1, <2>1, <2>2
<1>4. /\ stack' \in Seq(Frames) /\ Top' = Top /\ Top \in Nat \ {0}
      /\ \A i \in 1 .. Top :
           /\ stack'[i].fn = stack[i].fn /\ stack'[i].saved = stack[i].saved
           /\ \A d \in Domains :
                stack'[i].views[d] = IF i = Top /\ d = call.id THEN p
                                     ELSE stack[i].views[d]
  BY <1>1, <1>2, ViewGiven DEF SessionInv
<1>5. StackInv'
  BY <1>1, <1>4 DEF SessionInv, StackInv
<1>6. OtherPools' = OtherPools
  BY <1>4, <1>5, OtherPoolsStay DEF SessionInv
<1>7. /\ BaseOf'[GrowSlot] = p /\ SizeOf'[GrowSlot] = n
      /\ \A q \in Slots \ {GrowSlot} : BaseOf'[q] = BaseOf[q] /\ SizeOf'[q] = SizeOf[q]
  <2>1. /\ ScratchSlots /\ CurrentSlots /\ OtherSlots
        /\ ScratchSlots' /\ CurrentSlots' /\ OtherSlots'
    BY SlotsHold, PTL
  <2>2. /\ \A d \in Domains : Moving(d) <=> d = call.id
        /\ \A d \in Domains : ~Moving(d)'
    BY DEF Moving, Idle
  <2>3. BaseOf'[GrowSlot] = p /\ SizeOf'[GrowSlot] = n
    BY <1>1, <1>3, <2>1, <2>2 DEF CurrentSlots
  <2>4. ASSUME NEW q \in Slots, q # GrowSlot
        PROVE  BaseOf'[q] = BaseOf[q] /\ SizeOf'[q] = SizeOf[q]
    <3>1. ASSUME NEW t \in Scratches, q = <<"scratch", t>>
          PROVE  BaseOf'[q] = BaseOf[q] /\ SizeOf'[q] = SizeOf[q]
      BY <2>1, <3>1 DEF ScratchSlots
    <3>2. ASSUME NEW d \in Domains, q = <<"other", d>>
          PROVE  BaseOf'[q] = BaseOf[q] /\ SizeOf'[q] = SizeOf[q]
      BY <1>6, <2>1, <3>2 DEF OtherSlots
    <3>3. ASSUME NEW d \in Domains, q = <<"current", d>>
          PROVE  BaseOf'[q] = BaseOf[q] /\ SizeOf'[q] = SizeOf[q]
      <4>1. d # call.id /\ ~Moving(d)' /\ ~Moving(d)
        BY <1>1, <2>2, <2>4, <3>3
      <4> QED
        BY <1>3, <2>1, <3>3, <4>1 DEF CurrentSlots
    <3> QED
      BY <3>1, <3>2, <3>3, SlotsAre
  <2> QED
    BY <2>3, <2>4
<1>8. /\ MemoryInv' /\ OwnInv' /\ Allocated \subseteq Allocated'
      /\ p \in Allocated' \cup {Null}
  BY <1>1, <1>7, SlotGained DEF SessionInv
<1>9. TypesInv' /\ CallInv'
  BY <1>3, <1>4 DEF SessionInv, TypesInv, CallInv, Top
<1>10. PoolsInv'
  <2>1. InReach(pools') /\ Backed(pools')
    <3>1. InReach(pools) /\ Backed(pools)
      BY <1>1 DEF SessionInv, PoolsInv
    <3> QED
      BY <1>1, <1>3, <3>1 DEF InReach, Backed
  <2> QED
    BY <1>1, <1>6, <2>1 DEF SessionInv, PoolsInv, InReach, Backed
<1>11. ViewsLive' /\ InFlightKnown'
  BY <1>4, <1>8 DEF SessionInv, ViewsLive, InFlightKnown
<1>12. ClosingInv'
  BY <1>1 DEF ClosingInv
<1> QED
  BY <1>5, <1>7, <1>8, <1>9, <1>10, <1>11, <1>12 DEF SessionInv

LEMMA GrowAllocScratch ==
  ASSUME SessionInv, call.at = "alloc", call.kind = "scratch", NEW p,
         DeviceAlloc(call.need, p), call' = Idle,
         scratch' = [scratch EXCEPT ![call.id] =
                       [base |-> p, size |-> IF p = Null THEN 0 ELSE call.need]],
         phase' \in {"open", "aborted"},
         UNCHANGED <<pools, stack, scanPools, scanActive, inflight>>
  PROVE  /\ SessionInv' /\ BaseOf'[GrowSlot] = p
         /\ \A q \in Slots \ {GrowSlot} : BaseOf'[q] = BaseOf[q]
<1> DEFINE n == IF p = Null THEN 0 ELSE call.need
<1>1. /\ phase = "open" /\ stack # <<>> /\ call.need \in Nat \ {0}
      /\ GrowSlot \in Slots /\ BaseOf[GrowSlot] = Null
      /\ call.id \in Scratches /\ GrowSlot = <<"scratch", call.id>>
  BY GrowingIs DEF GrowSlot
<1>2. p \in Pointers /\ n \in Nat
  BY <1>1, DeviceAllocGives
<1>3. /\ scratch' \in [Scratches -> [base : Pointers, size : Nat]]
      /\ scratch'[call.id] = [base |-> p, size |-> n]
      /\ \A t \in Scratches \ {call.id} : scratch'[t] = scratch[t]
  <2>1. [base |-> p, size |-> n] \in [base : Pointers, size : Nat]
    BY <1>2
  <2> QED
    BY <1>1, <2>1 DEF SessionInv, TypesInv
<1>4. StackInv'
  BY DEF SessionInv, StackInv, Top
<1>5. OtherPools' = OtherPools
  BY <1>4, OtherPoolsStay DEF SessionInv, Top
<1>6. /\ BaseOf'[GrowSlot] = p /\ SizeOf'[GrowSlot] = n
      /\ \A q \in Slots \ {GrowSlot} : BaseOf'[q] = BaseOf[q] /\ SizeOf'[q] = SizeOf[q]
  <2>1. /\ ScratchSlots /\ CurrentSlots /\ OtherSlots
        /\ ScratchSlots' /\ CurrentSlots' /\ OtherSlots'
    BY SlotsHold, PTL
  <2>2. \A d \in Domains : ~Moving(d) /\ ~Moving(d)'
    BY DEF Moving, Idle
  <2>3. BaseOf'[GrowSlot] = p /\ SizeOf'[GrowSlot] = n
    BY <1>1, <1>3, <2>1 DEF ScratchSlots
  <2>4. ASSUME NEW q \in Slots, q # GrowSlot
        PROVE  BaseOf'[q] = BaseOf[q] /\ SizeOf'[q] = SizeOf[q]
    <3>1. ASSUME NEW t \in Scratches, q = <<"scratch", t>>
          PROVE  BaseOf'[q] = BaseOf[q] /\ SizeOf'[q] = SizeOf[q]
      BY <1>1, <1>3, <2>1, <2>4, <3>1 DEF ScratchSlots
    <3>2. ASSUME NEW d \in Domains, q = <<"other", d>>
          PROVE  BaseOf'[q] = BaseOf[q] /\ SizeOf'[q] = SizeOf[q]
      BY <1>5, <2>1, <3>2 DEF OtherSlots
    <3>3. ASSUME NEW d \in Domains, q = <<"current", d>>
          PROVE  BaseOf'[q] = BaseOf[q] /\ SizeOf'[q] = SizeOf[q]
      BY <2>1, <2>2, <3>3 DEF CurrentSlots
    <3> QED
      BY <3>1, <3>2, <3>3, SlotsAre
  <2> QED
    BY <2>3, <2>4
<1>7. MemoryInv' /\ OwnInv' /\ Allocated \subseteq Allocated'
  BY <1>1, <1>6, SlotGained DEF SessionInv
<1>8. TypesInv' /\ CallInv'
  BY <1>3 DEF SessionInv, TypesInv, CallInv, Top
<1>9. PoolsInv'
  BY <1>1, <1>5 DEF SessionInv, PoolsInv, InReach, Backed
<1>10. ViewsLive' /\ InFlightKnown'
  BY <1>7 DEF SessionInv, ViewsLive, InFlightKnown, Top
<1>11. ClosingInv'
  BY DEF ClosingInv
<1> QED
  BY <1>4, <1>6, <1>7, <1>8, <1>9, <1>10, <1>11 DEF SessionInv

LEMMA GrowAllocStep ==
  ASSUME SessionInv, GrowAlloc
  PROVE  /\ SessionInv' /\ GrowSlot \in Slots /\ BaseOf[GrowSlot] = Null
         /\ \A q \in Slots \ {GrowSlot} : BaseOf'[q] = BaseOf[q]
         /\ \/ call.kind = "scratch" /\ UNCHANGED stack
            \/ /\ call.kind = "pool"
               /\ stack' = [stack EXCEPT ![Top].views[call.id] = BaseOf'[GrowSlot]]
<1>1. PICK p \in Arena!Offsets \cup DirectAddrs \cup {Null} :
        LET size == IF p = Null THEN 0 ELSE call.need IN
        /\ DeviceAlloc(call.need, p)
        /\ \/ /\ call.kind = "pool"
              /\ pools' = [pools EXCEPT !.base[call.id] = p, !.size[call.id] = size]
              /\ stack' = [stack EXCEPT ![Top].views[call.id] = p]
              /\ UNCHANGED <<scratch, phase>>
           \/ /\ call.kind = "scratch"
              /\ scratch' = [scratch EXCEPT ![call.id] = [base |-> p, size |-> size]]
              /\ phase' = IF p = Null /\ call.id = "workspace" THEN "aborted" ELSE phase
              /\ UNCHANGED <<pools, stack>>
  BY DEF GrowAlloc
<1>2. /\ call.at = "alloc" /\ call' = Idle
      /\ UNCHANGED <<scanPools, scanActive, inflight>>
  BY DEF GrowAlloc
<1>3. phase = "open" /\ GrowSlot \in Slots /\ BaseOf[GrowSlot] = Null
  BY <1>2, GrowingIs
<1>4. CASE call.kind = "pool"
  <2>1. /\ SessionInv' /\ BaseOf'[GrowSlot] = p
        /\ \A q \in Slots \ {GrowSlot} : BaseOf'[q] = BaseOf[q]
    BY <1>1, <1>2, <1>4, GrowAllocPool DEF Replaced
  <2> QED
    BY <1>1, <1>3, <1>4, <2>1
<1>5. CASE call.kind = "scratch"
  <2>1. /\ SessionInv' /\ BaseOf'[GrowSlot] = p
        /\ \A q \in Slots \ {GrowSlot} : BaseOf'[q] = BaseOf[q]
    BY <1>1, <1>2, <1>3, <1>5, GrowAllocScratch
  <2> QED
    BY <1>1, <1>3, <1>5, <2>1
<1> QED
  BY <1>1, <1>4, <1>5

(***************************************************************************)
(* The first pool, and cleanup.                                            *)
(***************************************************************************)
LEMMA PoolInitStep ==
  ASSUME SessionInv, NEW size \in PoolSizes, PoolInit(size)
  PROVE  SessionInv' /\ UNCHANGED stack /\ stack = <<>>
<1>1. PICK p \in Arena!Offsets \cup DirectAddrs \cup {Null} :
        /\ DeviceAlloc(size, p)
        /\ phase' = IF p = Null THEN "aborted" ELSE "open"
        /\ pools' = [num |-> 1, base |-> [pools.base EXCEPT ![0] = p],
                     size |-> [pools.size EXCEPT ![0] = IF p = Null THEN 0 ELSE size]]
  BY DEF PoolInit
<1> DEFINE n == IF p = Null THEN 0 ELSE size
<1>2. /\ phase = "new" /\ stack = <<>> /\ call = Idle /\ Top = 0
      /\ size \in Nat \ {0} /\ n \in Nat /\ p \in Pointers /\ 0 \in Domains
      /\ phase' \in {"open", "aborted"}
      /\ UNCHANGED <<scanPools, scanActive, scratch, stack, call, inflight>>
  BY <1>1, SessionAssumption
  DEF PoolInit, SessionInv, StackInv, CallInv, Pointers, Domains, Top
<1>3. \A d \in Domains : pools.base[d] = Null /\ pools.size[d] = 0
  <2>1. \A d \in Domains : ~ d < 0
    BY SessionAssumption DEF Domains
  <2>2. pools.num = 0 /\ InReach(pools) /\ Backed(pools)
    BY <1>2 DEF SessionInv, PoolsInv
  <2> QED
    BY <2>1, <2>2 DEF InReach, Backed
<1>4. /\ pools' \in PoolSets /\ pools'.num = 1
      /\ pools'.base[0] = p /\ pools'.size[0] = n
      /\ \A d \in Domains \ {0} : /\ pools'.base[d] = pools.base[d]
                                  /\ pools'.size[d] = pools.size[d]
  <2>1. pools.base \in [Domains -> Pointers] /\ pools.size \in [Domains -> Nat]
    BY DEF SessionInv, TypesInv, PoolSets
  <2>2. /\ pools'.num = 1 /\ pools'.base = [pools.base EXCEPT ![0] = p]
        /\ pools'.size = [pools.size EXCEPT ![0] = n]
        /\ pools' = [num |-> 1, base |-> pools'.base, size |-> pools'.size]
    BY <1>1
  <2> HIDE DEF n
  <2>3. /\ pools'.base \in [Domains -> Pointers] /\ pools'.size \in [Domains -> Nat]
        /\ 1 \in 0 .. NumDomains
    BY <1>2, <2>1, <2>2, SessionAssumption
  <2>4. pools' \in PoolSets
    BY <2>2, <2>3 DEF PoolSets
  <2> QED
    BY <1>2, <2>1, <2>2, <2>4
<1> HIDE DEF n
<1>5. StackInv'
  BY <1>2 DEF SessionInv, StackInv, Top
<1>6. OtherPools' = OtherPools
  BY <1>2, <1>5, OtherPoolsStay DEF SessionInv, Top
<1>7. <<"current", 0>> \in Slots /\ BaseOf[<<"current", 0>>] = Null
  <2>1. ~Moving(0)
    BY <1>2 DEF Moving, Idle
  <2> QED
    BY <1>2, <1>3, <2>1, SlotsHold, SlotsAre DEF CurrentSlots
<1>8. /\ BaseOf'[<<"current", 0>>] = p /\ SizeOf'[<<"current", 0>>] = n
      /\ \A q \in Slots \ {<<"current", 0>>} :
           BaseOf'[q] = BaseOf[q] /\ SizeOf'[q] = SizeOf[q]
  <2>1. /\ ScratchSlots /\ CurrentSlots /\ OtherSlots
        /\ ScratchSlots' /\ CurrentSlots' /\ OtherSlots'
    BY SlotsHold, PTL
  <2>2. \A d \in Domains : ~Moving(d) /\ ~Moving(d)'
    BY <1>2 DEF Moving, Idle
  <2>3. BaseOf'[<<"current", 0>>] = p /\ SizeOf'[<<"current", 0>>] = n
    BY <1>2, <1>4, <2>1, <2>2 DEF CurrentSlots
  <2>4. ASSUME NEW q \in Slots, q # <<"current", 0>>
        PROVE  BaseOf'[q] = BaseOf[q] /\ SizeOf'[q] = SizeOf[q]
    <3>1. ASSUME NEW t \in Scratches, q = <<"scratch", t>>
          PROVE  BaseOf'[q] = BaseOf[q] /\ SizeOf'[q] = SizeOf[q]
      BY <1>2, <2>1, <3>1 DEF ScratchSlots
    <3>2. ASSUME NEW d \in Domains, q = <<"other", d>>
          PROVE  BaseOf'[q] = BaseOf[q] /\ SizeOf'[q] = SizeOf[q]
      BY <1>6, <2>1, <3>2 DEF OtherSlots
    <3>3. ASSUME NEW d \in Domains, q = <<"current", d>>
          PROVE  BaseOf'[q] = BaseOf[q] /\ SizeOf'[q] = SizeOf[q]
      <4>1. d # 0
        BY <2>4, <3>3
      <4> QED
        BY <1>4, <2>1, <2>2, <3>3, <4>1 DEF CurrentSlots
    <3> QED
      BY <3>1, <3>2, <3>3, SlotsAre
  <2> QED
    BY <2>3, <2>4
<1>9. MemoryInv' /\ OwnInv' /\ Allocated \subseteq Allocated'
  BY <1>1, <1>2, <1>7, <1>8, SlotGained DEF SessionInv, n
<1>10. TypesInv' /\ CallInv'
  BY <1>2, <1>4 DEF SessionInv, TypesInv, CallInv, Top
<1>11. PoolsInv'
  <2>1. \A d \in Domains \ {0} : pools'.base[d] = Null /\ pools'.size[d] = 0
    BY <1>3, <1>4
  <2>2. InReach(pools') /\ Backed(pools')
    BY <1>4, <2>1 DEF InReach, Backed, n
  <2> QED
    BY <1>2, <1>6, <2>2 DEF SessionInv, PoolsInv, InReach, Backed
<1>12. ViewsLive' /\ InFlightKnown'
  BY <1>2, <1>9 DEF SessionInv, ViewsLive, InFlightKnown, Top
<1>13. ClosingInv'
  BY <1>2 DEF ClosingInv
<1> QED
  BY <1>2, <1>5, <1>9, <1>10, <1>11, <1>12, <1>13 DEF SessionInv

\* Cleanup frees the buffer of slot o, and that slot forgets it.
LEMMA CleanupFrees ==
  ASSUME SessionInv, phase = "closing", NEW o \in Slots, BaseOf[o] # Null,
         DeviceFree(BaseOf[o]), BaseOf'[o] = Null,
         \A q \in Slots \ {o} : BaseOf'[q] = BaseOf[q] /\ SizeOf'[q] = SizeOf[q],
         pools' \in PoolSets, scanPools' \in PoolSets,
         scratch' \in [Scratches -> [base : Pointers, size : Nat]],
         InReach(pools'), InReach(scanPools'),
         UNCHANGED <<phase, scanActive, stack, call>>
  PROVE  SessionInv'
<1>1. /\ stack = <<>> /\ Top = 0 /\ call = Idle /\ inflight = {}
      /\ scanActive = FALSE
  BY ClosingIs
<1>2. /\ MemoryInv' /\ OwnInv' /\ inflight' = {}
  BY <1>1, SlotFreed DEF SessionInv
<1>3. TypesInv' /\ CallInv' /\ StackInv'
  BY <1>1 DEF SessionInv, TypesInv, CallInv, StackInv, Top
<1>4. PoolsInv'
  <2>1. (StackInv => OtherFacts)'
    BY OtherPoolsAre, PTL
  <2>2. OtherPools' = scanPools'
    BY <1>1, <1>3, <2>1 DEF OtherFacts
  <2> QED
    BY <2>2 DEF PoolsInv, InReach
<1>5. ViewsLive' /\ InFlightKnown' /\ ClosingInv'
  BY <1>1, <1>2 DEF ViewsLive, InFlightKnown, ClosingInv, Top
<1> QED
  BY <1>2, <1>3, <1>4, <1>5 DEF SessionInv

LEMMA FreeScratchStep ==
  ASSUME SessionInv, phase = "closing", FreeScratch,
         UNCHANGED <<phase, scanActive, stack, call>>
  PROVE  SessionInv'
<1>1. PICK s \in Scratches :
        /\ scratch[s].base # Null /\ DeviceFree(scratch[s].base)
        /\ scratch' = [scratch EXCEPT ![s] = NoBuffer]
  BY DEF FreeScratch
<1>2. UNCHANGED <<pools, scanPools, scanActive, stack, call>>
  BY DEF FreeScratch
<1>3. /\ scratch' \in [Scratches -> [base : Pointers, size : Nat]]
      /\ scratch'[s] = NoBuffer
      /\ \A t \in Scratches \ {s} : scratch'[t] = scratch[t]
  <2>1. NoBuffer \in [base : Pointers, size : Nat]
    BY DEF NoBuffer, Pointers
  <2> QED
    BY <1>1, <2>1 DEF SessionInv, TypesInv
<1>4. OtherPools' = OtherPools
  BY <1>2 DEF OtherPools, ScanFrame, Top
<1>5. /\ ScratchSlots /\ CurrentSlots /\ OtherSlots
      /\ ScratchSlots' /\ CurrentSlots' /\ OtherSlots'
  BY SlotsHold, PTL
<1>6. /\ <<"scratch", s>> \in Slots
      /\ BaseOf[<<"scratch", s>>] = scratch[s].base
      /\ BaseOf'[<<"scratch", s>>] = Null
  BY <1>3, <1>5, SlotsAre DEF ScratchSlots, NoBuffer
<1>7. ASSUME NEW q \in Slots, q # <<"scratch", s>>
      PROVE  BaseOf'[q] = BaseOf[q] /\ SizeOf'[q] = SizeOf[q]
  <2>1. ASSUME NEW t \in Scratches, q = <<"scratch", t>>
        PROVE  BaseOf'[q] = BaseOf[q] /\ SizeOf'[q] = SizeOf[q]
    BY <1>3, <1>5, <1>7, <2>1 DEF ScratchSlots
  <2>2. ASSUME NEW d \in Domains, q = <<"other", d>>
        PROVE  BaseOf'[q] = BaseOf[q] /\ SizeOf'[q] = SizeOf[q]
    BY <1>4, <1>5, <2>2 DEF OtherSlots
  <2>3. ASSUME NEW d \in Domains, q = <<"current", d>>
        PROVE  BaseOf'[q] = BaseOf[q] /\ SizeOf'[q] = SizeOf[q]
    BY <1>2, <1>5, <2>3 DEF CurrentSlots, Moving
  <2> QED
    BY <2>1, <2>2, <2>3, SlotsAre
<1>8. InReach(pools') /\ InReach(scanPools')
  BY <1>2, ClosingIs DEF InReach
<1>9. pools' \in PoolSets /\ scanPools' \in PoolSets
  BY <1>2 DEF SessionInv, TypesInv
<1> QED
  BY <1>1, <1>2, <1>3, <1>6, <1>7, <1>8, <1>9, CleanupFrees

\* One domain of pool arrays loses its buffer.
Emptied(arrays, d) == [arrays EXCEPT !.base[d] = Null]

LEMMA EmptiedIs ==
  ASSUME NEW arrays \in PoolSets, InReach(arrays), NEW e \in Domains
  PROVE  LET after == Emptied(arrays, e) IN
         /\ after \in PoolSets /\ InReach(after) /\ after.base[e] = Null
         /\ after.size = arrays.size
         /\ \A d \in Domains \ {e} : after.base[d] = arrays.base[d]
<1> DEFINE after == Emptied(arrays, e)
<1>1. Null \in Pointers
  BY DEF Pointers
<1>2. /\ after \in PoolSets /\ after.base[e] = Null
      /\ after.size = arrays.size /\ after.num = arrays.num
      /\ \A d \in Domains \ {e} : after.base[d] = arrays.base[d]
  BY <1>1 DEF PoolSets, Emptied
<1> HIDE DEF after
<1>3. InReach(after)
  BY <1>2 DEF InReach
<1> QED
  BY <1>2, <1>3 DEF after

LEMMA FreePoolStep ==
  ASSUME SessionInv, phase = "closing", FreePool,
         UNCHANGED <<phase, scanActive, stack, call>>
  PROVE  SessionInv'
<1>1. PICK e \in First(pools) : DeviceFree(pools.base[e]) /\ pools' = Emptied(pools, e)
  BY DEF FreePool, Emptied
<1>2. /\ e \in Domains /\ pools.base[e] # Null
      /\ UNCHANGED <<scratch, scanPools, scanActive, stack, call>>
      /\ InReach(pools) /\ InReach(scanPools) /\ call = Idle
      /\ pools \in PoolSets /\ scanPools \in PoolSets
  BY ClosingIs DEF FreePool, First, SessionInv, TypesInv
<1>3. /\ pools' \in PoolSets /\ InReach(pools') /\ pools'.base[e] = Null
      /\ pools'.size = pools.size
      /\ \A d \in Domains \ {e} : pools'.base[d] = pools.base[d]
  BY <1>1, <1>2, EmptiedIs
<1>4. OtherPools' = OtherPools
  BY <1>2 DEF OtherPools, ScanFrame, Top
<1>5. /\ ScratchSlots /\ CurrentSlots /\ OtherSlots
      /\ ScratchSlots' /\ CurrentSlots' /\ OtherSlots'
      /\ \A d \in Domains : ~Moving(d) /\ ~Moving(d)'
  <2>1. \A d \in Domains : ~Moving(d) /\ ~Moving(d)'
    BY <1>2 DEF Moving, Idle
  <2> QED
    BY <2>1, SlotsHold, PTL
<1>6. /\ <<"current", e>> \in Slots
      /\ BaseOf[<<"current", e>>] = pools.base[e]
      /\ BaseOf'[<<"current", e>>] = Null
  BY <1>2, <1>3, <1>5, SlotsAre DEF CurrentSlots
<1>7. ASSUME NEW q \in Slots, q # <<"current", e>>
      PROVE  BaseOf'[q] = BaseOf[q] /\ SizeOf'[q] = SizeOf[q]
  <2>1. ASSUME NEW t \in Scratches, q = <<"scratch", t>>
        PROVE  BaseOf'[q] = BaseOf[q] /\ SizeOf'[q] = SizeOf[q]
    BY <1>2, <1>5, <2>1 DEF ScratchSlots
  <2>2. ASSUME NEW d \in Domains, q = <<"other", d>>
        PROVE  BaseOf'[q] = BaseOf[q] /\ SizeOf'[q] = SizeOf[q]
    BY <1>4, <1>5, <2>2 DEF OtherSlots
  <2>3. ASSUME NEW d \in Domains, q = <<"current", d>>
        PROVE  BaseOf'[q] = BaseOf[q] /\ SizeOf'[q] = SizeOf[q]
    BY <1>3, <1>5, <1>7, <2>3 DEF CurrentSlots
  <2> QED
    BY <2>1, <2>2, <2>3, SlotsAre
<1>8. /\ scratch' \in [Scratches -> [base : Pointers, size : Nat]]
      /\ scanPools' \in PoolSets /\ InReach(scanPools')
  BY <1>2 DEF SessionInv, TypesInv, InReach
<1> QED
  BY <1>1, <1>2, <1>3, <1>6, <1>7, <1>8, CleanupFrees

LEMMA FreeScanPoolStep ==
  ASSUME SessionInv, phase = "closing", FreeScanPool,
         UNCHANGED <<phase, scanActive, stack, call>>
  PROVE  SessionInv'
<1>1. PICK e \in First(scanPools) :
        DeviceFree(scanPools.base[e]) /\ scanPools' = Emptied(scanPools, e)
  BY DEF FreeScanPool, Emptied
<1>2. /\ e \in Domains /\ scanPools.base[e] # Null
      /\ UNCHANGED <<scratch, pools, scanActive, stack, call>>
      /\ InReach(pools) /\ InReach(scanPools) /\ call = Idle
      /\ pools \in PoolSets /\ scanPools \in PoolSets
      /\ scanActive = FALSE
  BY ClosingIs DEF FreeScanPool, First, SessionInv, TypesInv
<1>3. /\ scanPools' \in PoolSets /\ InReach(scanPools')
      /\ scanPools'.base[e] = Null /\ scanPools'.size = scanPools.size
      /\ \A d \in Domains \ {e} : scanPools'.base[d] = scanPools.base[d]
  BY <1>1, <1>2, EmptiedIs
<1>4. OtherPools = scanPools /\ OtherPools' = scanPools'
  BY <1>2 DEF OtherPools
<1>5. /\ ScratchSlots /\ CurrentSlots /\ OtherSlots
      /\ ScratchSlots' /\ CurrentSlots' /\ OtherSlots'
  BY SlotsHold, PTL
<1>6. /\ <<"other", e>> \in Slots
      /\ BaseOf[<<"other", e>>] = scanPools.base[e]
      /\ BaseOf'[<<"other", e>>] = Null
  BY <1>2, <1>3, <1>4, <1>5, SlotsAre DEF OtherSlots
<1>7. ASSUME NEW q \in Slots, q # <<"other", e>>
      PROVE  BaseOf'[q] = BaseOf[q] /\ SizeOf'[q] = SizeOf[q]
  <2>1. ASSUME NEW t \in Scratches, q = <<"scratch", t>>
        PROVE  BaseOf'[q] = BaseOf[q] /\ SizeOf'[q] = SizeOf[q]
    BY <1>2, <1>5, <2>1 DEF ScratchSlots
  <2>2. ASSUME NEW d \in Domains, q = <<"other", d>>
        PROVE  BaseOf'[q] = BaseOf[q] /\ SizeOf'[q] = SizeOf[q]
    BY <1>3, <1>4, <1>5, <1>7, <2>2 DEF OtherSlots
  <2>3. ASSUME NEW d \in Domains, q = <<"current", d>>
        PROVE  BaseOf'[q] = BaseOf[q] /\ SizeOf'[q] = SizeOf[q]
    BY <1>2, <1>5, <2>3 DEF CurrentSlots, Moving
  <2> QED
    BY <2>1, <2>2, <2>3, SlotsAre
<1>8. /\ scratch' \in [Scratches -> [base : Pointers, size : Nat]]
      /\ pools' \in PoolSets /\ InReach(pools')
  BY <1>2 DEF SessionInv, TypesInv, InReach
<1> QED
  BY <1>1, <1>2, <1>3, <1>6, <1>7, <1>8, CleanupFrees

LEMMA CleanupStepKeeps ==
  ASSUME SessionInv, CleanupStep
  PROVE  SessionInv' /\ UNCHANGED stack /\ stack = <<>>
<1>1. phase = "closing" /\ UNCHANGED <<scanActive, stack, call>>
  BY DEF CleanupStep
<1>2. CASE (FreeScratch \/ FreePool \/ FreeScanPool) /\ UNCHANGED phase
  BY <1>1, <1>2, FreeScratchStep, FreePoolStep, FreeScanPoolStep, ClosingIs
<1>3. CASE DestroyArena
  BY <1>1, <1>3, DestroyArenaStep, ClosingIs
<1> QED
  BY <1>2, <1>3 DEF CleanupStep

(***************************************************************************)
(* The invariant of a session.                                             *)
(***************************************************************************)
LEMMA SessionStarts == Init => SessionInv
<1> SUFFICES ASSUME Init PROVE SessionInv
  OBVIOUS
<1>1. /\ Arena!Init /\ direct = [a \in DirectAddrs |-> 0] /\ held = 0
      /\ pools = NoPools /\ scanPools = NoPools /\ scanActive = FALSE
      /\ scratch = [t \in Scratches |-> NoBuffer] /\ stack = <<>>
      /\ call = Idle /\ inflight = {} /\ phase = "new"
  BY DEF Init
<1>2. ArenaInv /\ direct \in [DirectAddrs -> Nat]
  BY <1>1, ArenaStarts
<1>3. \A q \in Blocks : BytesAt(q) = 0
  <2>1. \A o \in Arena!Offsets : live[o] = 0
    BY <1>1 DEF Arena!Init
  <2>2. \A a \in DirectAddrs : direct[a] = 0
    BY <1>1
  <2> QED
    BY <2>1, <2>2, BlocksAre DEF BytesAt, Blocks, Arena!kAlign
<1>4. Allocated = {}
  BY <1>2, <1>3, BytesAre DEF BytesSound
<1>5. MemoryInv
  <2>1. HaveBytes /\ \A a \in 0 .. Span - 1 : BytesMap[a] = 0
    BY <1>3, BlocksAre DEF HaveBytes, BytesMap
  <2>2. BytesBelow[Span] = 0
    BY <2>1, BytesBelowAdds, SumOfZeros, SpanIsNat DEF BytesSummed
  <2> QED
    BY <1>1, <1>2, <2>2 DEF MemoryInv, HeldIsOutstanding, Span
<1>6. TypesInv
  <2>1. NoBuffer \in [base : Pointers, size : Nat]
    BY DEF NoBuffer, Pointers
  <2>2. scratch \in [Scratches -> [base : Pointers, size : Nat]]
    BY <1>1, <2>1
  <2>3. stack \in Seq(Frames) /\ Len(stack) <= MaxDepth
    <3>1. stack \in Seq(Frames) /\ Len(stack) = 0
      BY <1>1, EmptySeq
    <3> QED
      BY <3>1, SessionAssumption
  <2> QED
    BY <1>1, <2>2, <2>3, NoPoolsTyped DEF TypesInv
<1>7. Top = 0 /\ OtherPools = NoPools /\ \A d \in Domains : ~Moving(d)
  BY <1>1 DEF Top, OtherPools, Moving, Idle
<1>8. CallInv /\ StackInv /\ ViewsLive /\ InFlightKnown
  BY <1>1, <1>7 DEF CallInv, StackInv, ViewsLive, InFlightKnown
<1>9. PoolsInv
  BY <1>1, <1>7, NoPoolsTyped DEF PoolsInv, InReach, Backed
<1>10. \A o \in Slots : BaseOf[o] = Null
  <2>1. ASSUME NEW t \in Scratches PROVE BaseOf[<<"scratch", t>>] = Null
    BY <1>1, SlotsHold DEF ScratchSlots, NoBuffer
  <2>2. ASSUME NEW d \in Domains
        PROVE  BaseOf[<<"current", d>>] = Null /\ BaseOf[<<"other", d>>] = Null
    BY <1>1, <1>7, NoPoolsTyped, SlotsHold DEF CurrentSlots, OtherSlots
  <2> QED
    BY <2>1, <2>2, SlotsAre
<1>11. OwnInv /\ ClosingInv
  BY <1>1, <1>4, <1>10 DEF OwnInv, Divided, ClosingInv
<1> QED
  BY <1>5, <1>6, <1>8, <1>9, <1>11 DEF SessionInv

LEMMA SessionStep == SessionInv /\ [Next]_vars => SessionInv'
<1> SUFFICES ASSUME SessionInv, [Next]_vars PROVE SessionInv'
  OBVIOUS
<1>1. CASE NoPoolInit
  BY <1>1, NoPoolInitStep
<1>2. ASSUME NEW size \in PoolSizes, PoolInit(size) PROVE SessionInv'
  BY <1>2, PoolInitStep
<1>3. ASSUME NEW d \in Domains, NEW size \in PoolSizes, GetPool(d, size)
      PROVE  SessionInv'
  BY <1>3, GetPoolCases, GivesPoolStep, GrowsPoolStep
<1>4. ASSUME NEW s \in Scratches, NEW size \in ScratchSizes, EnsureScratch(s, size)
      PROVE  SessionInv'
  BY <1>4, EnsureScratchStep
<1>5. CASE GrowFree
  BY <1>5, GrowFreeStep
<1>6. CASE GrowAlloc
  BY <1>6, GrowAllocStep
<1>7. CASE Compute
  BY <1>7, ComputeStep
<1>8. CASE ComputeDone
  BY <1>8, ComputeDoneStep
<1>9. CASE "scan" \in BodyKinds /\ (EnterScan \/ LeaveScan)
  BY <1>9, EnterScanStep, LeaveScanStep
<1>10. CASE "loop" \in BodyKinds /\ (EnterLoop \/ LeaveLoop)
  BY <1>10, EnterLoopStep, LeaveLoopStep
<1>11. CASE Iterate
  BY <1>11, IterateStep
<1>12. CASE Launch
  BY <1>12, LaunchStep
<1>13. CASE Retire
  BY <1>13, RetireStep
<1>14. CASE Cleanup
  BY <1>14, CleanupBegins
<1>15. CASE CleanupStep
  BY <1>15, CleanupStepKeeps
<1>16. CASE UNCHANGED vars
  BY <1>16, StutterStep
<1> QED
  BY <1>1, <1>2, <1>3, <1>4, <1>5, <1>6, <1>7, <1>8, <1>9, <1>10, <1>11,
     <1>12, <1>13, <1>14, <1>15, <1>16 DEF Next

LEMMA SessionInvariant == Spec => []SessionInv
BY SessionStarts, SessionStep, PTL DEF Spec

\* Type correctness of the session's memory, in every state.
THEOREM SessionTypes == Spec => []TypeOK
<1>1. SessionInv => TypeOK
  <2> SUFFICES ASSUME SessionInv PROVE TypeOK
    OBVIOUS
  <2>1. /\ MemoryInv /\ TypesInv /\ CallInv /\ InFlightKnown
    BY DEF SessionInv
  <2>2. Arena!TypeOK /\ direct \in [DirectAddrs -> Nat] /\ held \in Nat
    BY <2>1, ArenaTyped, HeldIsNat DEF MemoryInv
  <2>3. \A i \in 1 .. Top : /\ stack[i].fn \in {"main"} \cup BodyKinds
                            /\ stack[i].views \in [Domains -> Pointers \cup {Dangling}]
                            /\ stack[i].saved \in PoolSets
    <3>1. \A i \in 1 .. Top : stack[i] \in Frames
      BY <2>1, ElementOfSeq DEF TypesInv, Top
    <3> QED
      BY <3>1 DEF Frames
  <2>4. call.at \in {"idle", "free", "alloc"}
    BY <2>1 DEF CallInv, Idle, Calls
  <2>5. inflight \subseteq (Pointers \cup {Dangling}) \ {Null}
    BY <2>1, AllocatedAre, BlocksAre DEF InFlightKnown
  <2> QED
    BY <2>1, <2>2, <2>3, <2>4, <2>5 DEF TypeOK, TypesInv, Top
<1> QED
  BY <1>1, SessionInvariant, PTL

\* The arena's live-bytes statistic is the bytes that are allocated, however
\* often the arena is full and hipMalloc stands in for it.
THEOREM SessionHeldIsOutstanding == Spec => []HeldIsOutstanding
<1>1. SessionInv => HeldIsOutstanding
  BY DEF SessionInv, MemoryInv
<1> QED
  BY <1>1, SessionInvariant, PTL

\* The owners of the model are the slots that have a buffer.
LEMMA OwnersAre ==
  ASSUME SessionInv
  PROVE  /\ \A o \in Owners : /\ o \in Slots /\ BaseOf[o] # Null
                              /\ Owned(o).base = BaseOf[o]
                              /\ Owned(o).size = SizeOf[o]
         /\ \A o \in Slots : BaseOf[o] # Null => o \in Owners
<1>1. ScratchSlots /\ CurrentSlots /\ OtherSlots
  BY SlotsHold
<1>2. PoolArrays.current = pools /\ PoolArrays.other = OtherPools
  BY DEF PoolArrays, OtherPools
<1>3. InReach(pools) /\ InReach(OtherPools)
  BY DEF SessionInv, PoolsInv
<1>4. ASSUME NEW t \in Scratches
      PROVE  LET o == <<"scratch", t>> IN
             /\ Owned(o).base = BaseOf[o] /\ Owned(o).size = SizeOf[o]
             /\ o \in Owners <=> BaseOf[o] # Null
  BY <1>1 DEF ScratchSlots, Owned, Owners
<1>5. ASSUME NEW d \in Domains
      PROVE  LET o == <<"other", d>> IN
             /\ Owned(o).base = BaseOf[o] /\ Owned(o).size = SizeOf[o]
             /\ o \in Owners <=> BaseOf[o] # Null
  <2>1. OwnsPool("other", d) <=> OtherPools.base[d] # Null
    BY <1>2, <1>3 DEF OwnsPool, InReach
  <2>2. <<"other", d>> \in Owners <=> OwnsPool("other", d)
    BY DEF Owners
  <2>3. LET o == <<"other", d>> IN
        /\ Owned(o).base = OtherPools.base[d] /\ Owned(o).size = OtherPools.size[d]
    BY <1>2 DEF Owned
  <2> QED
    BY <1>1, <2>1, <2>2, <2>3 DEF OtherSlots
<1>6. ASSUME NEW d \in Domains
      PROVE  LET o == <<"current", d>> IN
             /\ o \in Owners <=> BaseOf[o] # Null
             /\ BaseOf[o] # Null => Owned(o).base = BaseOf[o]
             /\ Owned(o).size = SizeOf[o]
  <2>1. OwnsPool("current", d) <=> pools.base[d] # Null /\ ~Moving(d)
    BY <1>2, <1>3 DEF OwnsPool, InReach, Moving
  <2>2. <<"current", d>> \in Owners <=> OwnsPool("current", d)
    BY DEF Owners
  <2>3. LET o == <<"current", d>> IN
        /\ Owned(o).base = pools.base[d] /\ Owned(o).size = pools.size[d]
    BY <1>2 DEF Owned
  <2> QED
    BY <1>1, <2>1, <2>2, <2>3 DEF CurrentSlots
<1>7. \A o \in Owners : \/ \E t \in Scratches : o = <<"scratch", t>>
                        \/ \E d \in Domains : o = <<"current", d>> \/ o = <<"other", d>>
  BY DEF Owners
<1>8. ASSUME NEW o \in Owners
      PROVE  /\ o \in Slots /\ BaseOf[o] # Null
             /\ Owned(o).base = BaseOf[o] /\ Owned(o).size = SizeOf[o]
  <2>1. CASE \E t \in Scratches : o = <<"scratch", t>>
    BY <1>4, <2>1, SlotsAre
  <2>2. CASE \E d \in Domains : o = <<"other", d>>
    BY <1>5, <2>2, SlotsAre
  <2>3. CASE \E d \in Domains : o = <<"current", d>>
    BY <1>6, <2>3, SlotsAre
  <2> QED
    BY <1>7, <2>1, <2>2, <2>3
<1>9. ASSUME NEW o \in Slots, BaseOf[o] # Null PROVE o \in Owners
  BY <1>4, <1>5, <1>6, <1>9, SlotsAre
<1> QED
  BY <1>8, <1>9

\* Every allocated block belongs to exactly one slot, which records no more
\* than the block holds: nothing leaks when an allocation fails half way
\* through a growth or a Scan swaps the pools, and no two slots share.
THEOREM SessionSlotsOwnMemory == Spec => []SlotsOwnMemory
<1>1. SessionInv => SlotsOwnMemory
  <2> SUFFICES ASSUME SessionInv PROVE SlotsOwnMemory
    OBVIOUS
  <2>1. /\ \A p \in Allocated : \E o \in Slots : BaseOf[o] = p
        /\ \A o \in Slots : BaseOf[o] # Null =>
             BaseOf[o] \in Allocated /\ SizeOf[o] <= BytesMap[BaseOf[o]]
        /\ \A o, q \in Slots : BaseOf[o] = BaseOf[q] /\ BaseOf[o] # Null => o = q
    BY DEF SessionInv, OwnInv, Divided
  <2>2. /\ Null \notin Allocated
        /\ \A p \in Allocated : BytesMap[p] = BytesAt(p)
    BY AllocatedAre DEF SessionInv
  <2>3. Allocated \subseteq {Owned(o).base : o \in Owners}
    BY <2>1, <2>2, OwnersAre
  <2>4. {Owned(o).base : o \in Owners} \subseteq Allocated
    BY <2>1, OwnersAre
  <2>5. \A o, q \in Owners : Owned(o).base = Owned(q).base => o = q
    BY <2>1, OwnersAre
  <2>6. \A o \in Owners : Owned(o).size <= BytesAt(Owned(o).base)
    BY <2>1, <2>2, OwnersAre
  <2> QED
    BY <2>3, <2>4, <2>5, <2>6 DEF SlotsOwnMemory
<1> QED
  BY <1>1, SessionInvariant, PTL

\* When the arena is destroyed every block has been handed back, and the
\* statistic is at zero.
THEOREM SessionNothingLeft == Spec => []NothingLeft
<1>1. SessionInv => NothingLeft
  <2> SUFFICES ASSUME SessionInv, phase = "closed"
               PROVE  Allocated = {} /\ held = 0
    BY DEF NothingLeft
  <2>1. Allocated = {}
    <3>1. \A o \in Slots : BaseOf[o] = Null
      BY DEF SessionInv, ClosingInv
    <3>2. Null \notin Allocated /\ \A p \in Allocated : \E o \in Slots : BaseOf[o] = p
      BY AllocatedAre DEF SessionInv, OwnInv, Divided
    <3> QED
      BY <3>1, <3>2
  <2>2. BytesSound
    BY BytesAre DEF SessionInv, MemoryInv
  <2>3. HaveBytes /\ \A a \in 0 .. Span - 1 : BytesMap[a] = 0
    <3>1. \A p \in Blocks : BytesAt(p) = 0
      BY <2>1, <2>2 DEF BytesSound
    <3> QED
      BY <3>1, BlocksAre DEF HaveBytes, BytesMap
  <2>4. BytesBelow[Span] = 0
    BY <2>3, BytesBelowAdds, SumOfZeros, SpanIsNat DEF BytesSummed
  <2> QED
    BY <2>1, <2>4 DEF SessionInv, MemoryInv, HeldIsOutstanding, Span
<1> QED
  BY <1>1, SessionInvariant, PTL

(***************************************************************************)
(* What the functions running hold, whatever bodies run.                   *)
(***************************************************************************)
\* The array a function's pools are in: the others while it waits for a Scan.
Waits(i) == \E j \in 1 .. Top : i < j /\ stack[j].fn = "scan"
ArrayOf(i) == IF Waits(i) THEN "other" ELSE "current"

\* What a function was given is still in the slot it was given from, or was
\* given back.
ViewsHome ==
  \A i \in 1 .. Top, d \in Domains :
    stack[i].views[d] \in {Null, Dangling, BaseOf[<<ArrayOf(i), d>>]}

HomeInv == SessionInv /\ ViewsHome

LEMMA ArraySlots ==
  \A i \in 1 .. Top, d \in Domains : <<ArrayOf(i), d>> \in Slots
BY SlotsAre DEF ArrayOf

LEMMA OneSlot ==
  SessionInv =>
    \A o, q \in Slots : BaseOf[o] = BaseOf[q] /\ BaseOf[o] # Null => o = q
BY DEF SessionInv, OwnInv, Divided

\* The function that runs waits for nothing.
LEMMA TopRuns == SessionInv => ArrayOf(Top) = "current"
<1> SUFFICES ASSUME SessionInv PROVE ~Waits(Top)
  BY DEF ArrayOf
<1>1. Top \in Nat
  BY LenProperties DEF SessionInv, TypesInv, Top
<1> QED
  BY <1>1 DEF Waits

\* The same functions are running.
LEMMA ArraysStay ==
  ASSUME Top' = Top, \A i \in 1 .. Top : stack'[i].fn = stack[i].fn
  PROVE  \A i \in 1 .. Top : (ArrayOf(i))' = ArrayOf(i)
<1>1. ASSUME NEW i \in 1 .. Top PROVE (Waits(i))' <=> Waits(i)
  BY DEF Waits
<1> QED
  BY <1>1 DEF ArrayOf

\* No function is running: there is no view to speak of.
LEMMA HomeEmpty ==
  ASSUME stack' = <<>> PROVE ViewsHome'
<1>1. Top' = 0
  BY DEF Top
<1> QED
  BY <1>1 DEF ViewsHome

\* Views disappear at most, and the slots keep their buffers.
LEMMA HomeStays ==
  ASSUME ViewsHome, Top' = Top, \A o \in Slots : BaseOf'[o] = BaseOf[o],
         \A i \in 1 .. Top : stack'[i].fn = stack[i].fn,
         \A i \in 1 .. Top, d \in Domains :
            stack'[i].views[d] = Null \/ stack'[i].views[d] = stack[i].views[d]
  PROVE  ViewsHome'
<1>1. \A i \in 1 .. Top : (ArrayOf(i))' = ArrayOf(i)
  BY ArraysStay
<1>2. ASSUME NEW i \in 1 .. Top, NEW d \in Domains
      PROVE  stack'[i].views[d] \in {Null, Dangling, BaseOf'[<<(ArrayOf(i))', d>>]}
  <2>1. BaseOf'[<<(ArrayOf(i))', d>>] = BaseOf[<<ArrayOf(i), d>>]
    BY <1>1, ArraySlots
  <2> QED
    BY <2>1 DEF ViewsHome
<1> QED
  BY <1>2 DEF ViewsHome

LEMMA HomeCompute ==
  ASSUME Compute PROVE ViewsHome'
<1> DEFINE f == Frame("main", NoPools)
<1>1. \A d \in Domains : f.views[d] = Null
  BY FrameTyped, NoPoolsTyped
<1>2. stack' = <<f>>
  BY DEF Compute
<1> HIDE DEF f
<1>3. Top' = 1 /\ stack'[1] = f
  BY <1>2 DEF Top
<1> QED
  BY <1>1, <1>3 DEF ViewsHome

\* A function that starts holds nothing yet.
LEMMA Starts ==
  ASSUME SessionInv, NEW fn \in {"main"} \cup BodyKinds, NEW saved \in PoolSets,
         stack # <<>>, Top < MaxDepth, stack' = Append(stack, Frame(fn, saved))
  PROVE  /\ Top' = Top + 1 /\ Top \in Nat \ {0}
         /\ \A i \in 1 .. Top' : i \in 1 .. Top \/ i = Top'
         /\ \A i \in 1 .. Top : i < Top' /\ stack'[i] = stack[i]
         /\ stack'[Top'].fn = fn /\ \A d \in Domains : stack'[Top'].views[d] = Null
<1> DEFINE f == Frame(fn, saved)
<1>1. f \in Frames /\ f.fn = fn /\ \A d \in Domains : f.views[d] = Null
  BY FrameTyped
<1> HIDE DEF f
<1>2. TypesInv /\ stack' = Append(stack, f)
  BY DEF SessionInv, f
<1>3. /\ Top' = Top + 1 /\ stack'[Top'] = f /\ Top \in Nat
      /\ \A i \in 1 .. Top : stack'[i] = stack[i]
  BY <1>1, <1>2, Pushed
<1>4. Top # 0
  BY <1>2, EmptySeq DEF TypesInv, Top
<1>5. /\ \A i \in 1 .. Top' : i \in 1 .. Top \/ i = Top'
      /\ \A i \in 1 .. Top : i < Top'
  BY <1>3
<1>6. stack'[Top'].fn = fn /\ \A d \in Domains : stack'[Top'].views[d] = Null
  BY <1>1, <1>3
<1> QED
  BY <1>3, <1>4, <1>5, <1>6

LEMMA HomeEnterLoop ==
  ASSUME HomeInv, EnterLoop, "loop" \in BodyKinds PROVE ViewsHome'
<1>1. SessionInv /\ ViewsHome /\ \A o \in Slots : BaseOf'[o] = BaseOf[o]
  BY EnterLoopStep DEF HomeInv
<1>2. /\ Top' = Top + 1 /\ Top \in Nat \ {0}
      /\ \A i \in 1 .. Top' : i \in 1 .. Top \/ i = Top'
      /\ \A i \in 1 .. Top : i < Top' /\ stack'[i] = stack[i]
      /\ stack'[Top'].fn = "loop" /\ \A d \in Domains : stack'[Top'].views[d] = Null
  BY <1>1, Starts, NoPoolsTyped DEF EnterLoop, Running
<1>3. ASSUME NEW i \in 1 .. Top PROVE (ArrayOf(i))' = ArrayOf(i)
  <2>1. (Waits(i))' <=> Waits(i)
    BY <1>2 DEF Waits
  <2> QED
    BY <2>1 DEF ArrayOf
<1>4. ASSUME NEW i \in 1 .. Top, NEW d \in Domains
      PROVE  stack'[i].views[d] \in {Null, Dangling, BaseOf'[<<(ArrayOf(i))', d>>]}
  <2>1. BaseOf'[<<(ArrayOf(i))', d>>] = BaseOf[<<ArrayOf(i), d>>]
    BY <1>1, <1>3, ArraySlots
  <2> QED
    BY <1>1, <1>2, <2>1 DEF ViewsHome
<1> QED
  BY <1>2, <1>4 DEF ViewsHome

\* The callers of a Scan find their pools among the others.
LEMMA HomeEnterScan ==
  ASSUME HomeInv, EnterScan, "scan" \in BodyKinds PROVE ViewsHome'
<1>1. SessionInv /\ ViewsHome /\ \A o \in Slots : BaseOf'[o] = BaseOf[Swapped[o]]
  BY EnterScanStep DEF HomeInv
<1>2. /\ Top' = Top + 1 /\ Top \in Nat \ {0}
      /\ \A i \in 1 .. Top' : i \in 1 .. Top \/ i = Top'
      /\ \A i \in 1 .. Top : i < Top' /\ stack'[i] = stack[i]
      /\ stack'[Top'].fn = "scan" /\ \A d \in Domains : stack'[Top'].views[d] = Null
  BY <1>1, Starts DEF EnterScan, Running, SessionInv, TypesInv
<1>3. ASSUME NEW i \in 1 .. Top
      PROVE  ArrayOf(i) = "current" /\ (ArrayOf(i))' = "other"
  <2>1. ~Waits(i)
    BY <1>1 DEF EnterScan, SessionInv, StackInv, Waits
  <2>2. (Waits(i))'
    BY <1>2 DEF Waits
  <2> QED
    BY <2>1, <2>2 DEF ArrayOf
<1>4. ASSUME NEW i \in 1 .. Top, NEW d \in Domains
      PROVE  stack'[i].views[d] \in {Null, Dangling, BaseOf'[<<(ArrayOf(i))', d>>]}
  <2>1. BaseOf'[<<"other", d>>] = BaseOf[<<"current", d>>]
    BY <1>1, SwapIs, SlotsAre
  <2> QED
    BY <1>1, <1>2, <1>3, <2>1 DEF ViewsHome
<1> QED
  BY <1>2, <1>4 DEF ViewsHome

LEMMA HomeLeaveLoop ==
  ASSUME HomeInv, LeaveLoop PROVE ViewsHome'
<1>1. SessionInv /\ ViewsHome /\ \A o \in Slots : BaseOf'[o] = BaseOf[o]
  BY LeaveLoopStep DEF HomeInv
<1>2. /\ Top' = Top - 1 /\ Top \in Nat \ {0} /\ stack[Top].fn = "loop"
      /\ \A i \in 1 .. Top' : stack'[i] = stack[i]
  BY <1>1, Popped DEF LeaveLoop, Running, SessionInv
<1>3. ASSUME NEW i \in 1 .. Top' PROVE (ArrayOf(i))' = ArrayOf(i)
  <2>1. \A j \in 1 .. Top : j \in 1 .. Top' \/ j = Top
    BY <1>2
  <2>2. (Waits(i))' <=> Waits(i)
    BY <1>2, <2>1 DEF Waits
  <2> QED
    BY <2>2 DEF ArrayOf
<1>4. ASSUME NEW i \in 1 .. Top', NEW d \in Domains
      PROVE  stack'[i].views[d] \in {Null, Dangling, BaseOf'[<<(ArrayOf(i))', d>>]}
  <2>1. i \in 1 .. Top
    BY <1>2
  <2>2. BaseOf'[<<(ArrayOf(i))', d>>] = BaseOf[<<ArrayOf(i), d>>]
    BY <1>1, <1>3, <2>1, ArraySlots
  <2> QED
    BY <1>1, <1>2, <2>1, <2>2 DEF ViewsHome
<1> QED
  BY <1>4 DEF ViewsHome

\* ... and among the current ones again when it is over.
LEMMA HomeLeaveScan ==
  ASSUME HomeInv, LeaveScan PROVE ViewsHome'
<1>1. SessionInv /\ ViewsHome /\ \A o \in Slots : BaseOf'[o] = BaseOf[Swapped[o]]
  BY LeaveScanStep DEF HomeInv
<1>2. /\ Top' = Top - 1 /\ Top \in Nat \ {0} /\ stack[Top].fn = "scan"
      /\ \A i \in 1 .. Top' : stack'[i] = stack[i]
  BY <1>1, Popped DEF LeaveScan, Running, SessionInv
<1>3. /\ \A i \in 1 .. Top' : i \in 1 .. Top /\ i < Top
      /\ Top \in 1 .. Top
  BY <1>2
<1>4. ASSUME NEW i \in 1 .. Top'
      PROVE  ArrayOf(i) = "other" /\ (ArrayOf(i))' = "current"
  <2>1. Waits(i)
    BY <1>2, <1>3 DEF Waits
  <2>2. \A j \in 1 .. Top' : stack'[j].fn # "scan"
    BY <1>1, <1>2, <1>3 DEF SessionInv, StackInv
  <2>3. ~(Waits(i))'
    BY <2>2 DEF Waits
  <2> QED
    BY <2>1, <2>3 DEF ArrayOf
<1>5. ASSUME NEW i \in 1 .. Top', NEW d \in Domains
      PROVE  stack'[i].views[d] \in {Null, Dangling, BaseOf'[<<(ArrayOf(i))', d>>]}
  <2>1. BaseOf'[<<"current", d>>] = BaseOf[<<"other", d>>]
    BY <1>1, SwapIs, SlotsAre
  <2> QED
    BY <1>1, <1>2, <1>3, <1>4, <2>1 DEF ViewsHome
<1> QED
  BY <1>5 DEF ViewsHome

LEMMA HomeGetPool ==
  ASSUME HomeInv, NEW e \in Domains, NEW size \in PoolSizes, GetPool(e, size)
  PROVE  ViewsHome'
<1>1. SessionInv /\ ViewsHome
  BY DEF HomeInv
<1>2. CASE GivesPool(e)
  <2>1. /\ \A o \in Slots : BaseOf'[o] = BaseOf[o]
        /\ pools.base[e] = BaseOf[<<"current", e>>]
    BY <1>1, <1>2, GivesPoolStep
  <2>2. pools.base[e] \in Pointers /\ stack # <<>>
    BY <1>1, <1>2 DEF GivesPool, Running, SessionInv, TypesInv, PoolSets
  <2>3. /\ Top' = Top
        /\ \A i \in 1 .. Top :
             /\ stack'[i].fn = stack[i].fn
             /\ \A d \in Domains :
                  stack'[i].views[d] = IF i = Top /\ d = e THEN pools.base[e]
                                       ELSE stack[i].views[d]
    BY <1>1, <1>2, <2>2, ViewGiven DEF GivesPool, SessionInv
  <2>4. \A i \in 1 .. Top : (ArrayOf(i))' = ArrayOf(i)
    BY <2>3, ArraysStay
  <2>5. ASSUME NEW i \in 1 .. Top, NEW d \in Domains
        PROVE  stack'[i].views[d] \in {Null, Dangling, BaseOf'[<<(ArrayOf(i))', d>>]}
    <3>1. BaseOf'[<<(ArrayOf(i))', d>>] = BaseOf[<<ArrayOf(i), d>>]
      BY <2>1, <2>4, ArraySlots
    <3>2. CASE i = Top /\ d = e
      BY <1>1, <2>1, <2>3, <3>1, <3>2, TopRuns
    <3>3. CASE ~(i = Top /\ d = e)
      BY <1>1, <2>3, <3>1, <3>3 DEF ViewsHome
    <3> QED
      BY <3>2, <3>3
  <2> QED
    BY <2>3, <2>5 DEF ViewsHome
<1>3. CASE GrowsPool(e)
  <2>1. \A o \in Slots : BaseOf'[o] = BaseOf[o]
    BY <1>1, <1>3, GrowsPoolStep
  <2>2. UNCHANGED stack
    BY <1>3 DEF GrowsPool
  <2> QED
    BY <1>1, <2>1, <2>2, HomeStays DEF Top
<1> QED
  BY <1>1, <1>2, <1>3, GetPoolCases

\* The views of the buffer that goes say so; the others are of other slots.
LEMMA HomeGrowFree ==
  ASSUME HomeInv, GrowFree PROVE ViewsHome'
<1>1. SessionInv /\ ViewsHome /\ stack' = WithoutViewsOf(GrowBase)
  BY DEF GrowFree, GrowBase, HomeInv
<1>2. /\ BaseOf[GrowSlot] = GrowBase
      /\ \A q \in Slots \ {GrowSlot} : BaseOf'[q] = BaseOf[q]
  BY <1>1, GrowFreeStep
<1>3. /\ Top' = Top
      /\ \A i \in 1 .. Top :
           /\ stack'[i].fn = stack[i].fn
           /\ \A d \in Domains :
                stack'[i].views[d] = IF stack[i].views[d] = GrowBase THEN Dangling
                                     ELSE stack[i].views[d]
  BY <1>1, ViewsDropped DEF SessionInv
<1>4. \A i \in 1 .. Top : (ArrayOf(i))' = ArrayOf(i)
  BY <1>3, ArraysStay
<1>5. ASSUME NEW i \in 1 .. Top, NEW d \in Domains
      PROVE  stack'[i].views[d] \in {Null, Dangling, BaseOf'[<<(ArrayOf(i))', d>>]}
  <2>1. CASE stack[i].views[d] \in {GrowBase, Null, Dangling}
    BY <1>3, <2>1
  <2>2. CASE stack[i].views[d] \notin {GrowBase, Null, Dangling}
    <3>1. stack[i].views[d] = BaseOf[<<ArrayOf(i), d>>]
      BY <1>1, <2>2 DEF ViewsHome
    <3>2. <<ArrayOf(i), d>> \in Slots \ {GrowSlot}
      BY <1>2, <2>2, <3>1, ArraySlots
    <3>3. BaseOf'[<<(ArrayOf(i))', d>>] = BaseOf[<<ArrayOf(i), d>>]
      BY <1>2, <1>4, <3>2
    <3> QED
      BY <1>3, <2>2, <3>1, <3>3
  <2> QED
    BY <2>1, <2>2
<1> QED
  BY <1>3, <1>5 DEF ViewsHome

\* What a growth gives: the answer goes into a slot that had no buffer, so
\* that no function held it, and to the function that asked.
LEMMA GivenIs ==
  ASSUME SessionInv, GrowAlloc
  PROVE  /\ Top' = Top /\ BaseOf'[GrowSlot] \in Pointers
         /\ \A i \in 1 .. Top : stack'[i].fn = stack[i].fn
         /\ \/ UNCHANGED stack
            \/ /\ GrowSlot = <<"current", call.id>> /\ call.id \in Domains
               /\ stack # <<>>
               /\ stack' = [stack EXCEPT ![Top].views[call.id] = BaseOf'[GrowSlot]]
               /\ \A i \in 1 .. Top, d \in Domains :
                    stack'[i].views[d] = IF i = Top /\ d = call.id
                                         THEN BaseOf'[GrowSlot]
                                         ELSE stack[i].views[d]
<1>1. /\ SessionInv' /\ GrowSlot \in Slots
      /\ \/ call.kind = "scratch" /\ UNCHANGED stack
         \/ /\ call.kind = "pool"
            /\ stack' = [stack EXCEPT ![Top].views[call.id] = BaseOf'[GrowSlot]]
  BY GrowAllocStep
<1>2. BaseOf'[GrowSlot] \in Pointers
  <2>1. (MemoryInv => Allocated \subseteq Pointers)'
    BY AllocatedPoint, PTL
  <2>2. BaseOf'[GrowSlot] \in Allocated' \cup {Null}
    BY <1>1 DEF SessionInv, OwnInv, Divided, Slots
  <2> QED
    BY <1>1, <2>1, <2>2 DEF SessionInv, Pointers
<1>3. CASE UNCHANGED stack
  BY <1>2, <1>3 DEF Top
<1>4. CASE /\ call.kind = "pool"
           /\ stack' = [stack EXCEPT ![Top].views[call.id] = BaseOf'[GrowSlot]]
  <2>1. /\ stack # <<>> /\ call.id \in Domains /\ TypesInv
        /\ GrowSlot = <<"current", call.id>>
    BY <1>4, GrowingIs DEF GrowAlloc, GrowSlot, SessionInv
  <2>2. /\ Top' = Top
        /\ \A i \in 1 .. Top :
             /\ stack'[i].fn = stack[i].fn
             /\ \A d \in Domains :
                  stack'[i].views[d] = IF i = Top /\ d = call.id THEN BaseOf'[GrowSlot]
                                       ELSE stack[i].views[d]
    BY <1>2, <1>4, <2>1, ViewGiven
  <2> QED
    BY <1>2, <1>4, <2>1, <2>2
<1> QED
  BY <1>1, <1>3, <1>4

LEMMA HomeGrowAlloc ==
  ASSUME HomeInv, GrowAlloc PROVE ViewsHome'
<1>1. /\ SessionInv /\ ViewsHome /\ BaseOf[GrowSlot] = Null
      /\ \A q \in Slots \ {GrowSlot} : BaseOf'[q] = BaseOf[q]
  BY GrowAllocStep DEF HomeInv
<1>2. /\ Top' = Top
      /\ \A i \in 1 .. Top : stack'[i].fn = stack[i].fn
      /\ \/ UNCHANGED stack
         \/ /\ GrowSlot = <<"current", call.id>>
            /\ \A i \in 1 .. Top, d \in Domains :
                 stack'[i].views[d] = IF i = Top /\ d = call.id THEN BaseOf'[GrowSlot]
                                      ELSE stack[i].views[d]
  BY <1>1, GivenIs
<1>3. \A i \in 1 .. Top : (ArrayOf(i))' = ArrayOf(i)
  BY <1>2, ArraysStay
<1>4. ASSUME NEW i \in 1 .. Top, NEW d \in Domains
      PROVE  stack'[i].views[d] \in {Null, Dangling, BaseOf'[<<(ArrayOf(i))', d>>]}
  <2>1. CASE stack'[i].views[d] = stack[i].views[d]
    <3>1. stack[i].views[d] \in {Null, Dangling, BaseOf[<<ArrayOf(i), d>>]}
      BY <1>1 DEF ViewsHome
    <3>2. CASE <<ArrayOf(i), d>> = GrowSlot
      BY <1>1, <2>1, <3>1, <3>2
    <3>3. CASE <<ArrayOf(i), d>> # GrowSlot
      <4>1. BaseOf'[<<(ArrayOf(i))', d>>] = BaseOf[<<ArrayOf(i), d>>]
        BY <1>1, <1>3, <3>3, ArraySlots
      <4> QED
        BY <2>1, <3>1, <4>1
    <3> QED
      BY <3>2, <3>3
  <2>2. CASE /\ GrowSlot = <<"current", call.id>> /\ i = Top /\ d = call.id
             /\ stack'[i].views[d] = BaseOf'[GrowSlot]
    BY <1>1, <1>3, <2>2, TopRuns
  <2> QED
    BY <1>2, <2>1, <2>2
<1> QED
  BY <1>2, <1>4 DEF ViewsHome

LEMMA HomeNext == HomeInv /\ [Next]_vars => HomeInv'
<1> SUFFICES ASSUME HomeInv, [Next]_vars PROVE ViewsHome'
  BY SessionStep DEF HomeInv
<1>1. SessionInv /\ ViewsHome
  BY DEF HomeInv
<1>2. ASSUME UNCHANGED stack, \A o \in Slots : BaseOf'[o] = BaseOf[o]
      PROVE  ViewsHome'
  BY <1>1, <1>2, HomeStays DEF Top
<1>3. CASE NoPoolInit
  <2>1. stack' = <<>>
    BY <1>1, <1>3 DEF NoPoolInit, SessionInv, StackInv
  <2> QED
    BY <2>1, HomeEmpty
<1>4. ASSUME NEW size \in PoolSizes, PoolInit(size) PROVE ViewsHome'
  BY <1>1, <1>4, PoolInitStep, HomeEmpty
<1>5. ASSUME NEW d \in Domains, NEW size \in PoolSizes, GetPool(d, size)
      PROVE  ViewsHome'
  BY <1>5, HomeGetPool
<1>6. ASSUME NEW t \in Scratches, NEW size \in ScratchSizes, EnsureScratch(t, size)
      PROVE  ViewsHome'
  BY <1>1, <1>2, <1>6, EnsureScratchStep DEF EnsureScratch
<1>7. CASE GrowFree
  BY <1>7, HomeGrowFree
<1>8. CASE GrowAlloc
  BY <1>8, HomeGrowAlloc
<1>9. CASE Compute
  BY <1>9, HomeCompute
<1>10. CASE ComputeDone
  BY <1>10, HomeEmpty DEF ComputeDone
<1>11. CASE "scan" \in BodyKinds /\ (EnterScan \/ LeaveScan)
  BY <1>11, HomeEnterScan, HomeLeaveScan
<1>12. CASE "loop" \in BodyKinds /\ (EnterLoop \/ LeaveLoop)
  BY <1>12, HomeEnterLoop, HomeLeaveLoop
<1>13. CASE Iterate
  BY <1>1, <1>13, IterateStep, HomeStays
<1>14. CASE Launch
  BY <1>1, <1>2, <1>14, LaunchStep DEF Launch
<1>15. CASE Retire
  BY <1>1, <1>2, <1>15, RetireStep DEF Retire
<1>16. CASE Cleanup
  BY <1>16, HomeEmpty DEF Cleanup
<1>17. CASE CleanupStep
  BY <1>1, <1>17, CleanupStepKeeps, HomeEmpty
<1>18. CASE UNCHANGED vars
  BY <1>1, <1>2, <1>18, StutterStep DEF vars
<1> QED
  BY <1>3, <1>4, <1>5, <1>6, <1>7, <1>8, <1>9, <1>10, <1>11, <1>12, <1>13,
     <1>14, <1>15, <1>16, <1>17, <1>18 DEF Next

LEMMA HomeStarts == Init => HomeInv
<1>1. Init => Top = 0
  BY DEF Init, Top
<1> QED
  BY <1>1, SessionStarts DEF HomeInv, ViewsHome

LEMMA HomeInvariant == Spec => []HomeInv
BY HomeStarts, HomeNext, PTL DEF Spec

(***************************************************************************)
(* A Scan among functions of every kind.                                   *)
(***************************************************************************)
\* The frames below the one of the Scan wait for it, and the others do not.
LEMMA ScanFrameIs ==
  ASSUME SessionInv, scanActive
  PROVE  /\ ScanFrame \in 1 .. Top /\ stack[ScanFrame].fn = "scan"
         /\ \A i \in 1 .. ScanFrame - 1 :
              i \in 1 .. Top /\ i # Top /\ ArrayOf(i) = "other"
         /\ \A j \in ScanFrame .. Top : j \in 1 .. Top /\ ArrayOf(j) = "current"
<1>1. /\ \E i \in 1 .. Top : stack[i].fn = "scan"
      /\ \A i, j \in 1 .. Top : stack[i].fn = "scan" /\ stack[j].fn = "scan" => i = j
      /\ Top \in Nat
  BY LenProperties DEF SessionInv, StackInv, TypesInv, Top
<1>2. ScanFrame \in 1 .. Top /\ stack[ScanFrame].fn = "scan"
  BY <1>1 DEF ScanFrame
<1>3. ASSUME NEW i \in 1 .. ScanFrame - 1
      PROVE  i \in 1 .. Top /\ i # Top /\ ArrayOf(i) = "other"
  <2>1. i \in 1 .. Top /\ i # Top /\ i < ScanFrame
    BY <1>1, <1>2
  <2> QED
    BY <1>2, <2>1 DEF ArrayOf, Waits
<1>4. ASSUME NEW j \in ScanFrame .. Top
      PROVE  j \in 1 .. Top /\ ArrayOf(j) = "current"
  <2>1. j \in 1 .. Top /\ ~ j < ScanFrame
    BY <1>1, <1>2
  <2>2. ~Waits(j)
    BY <1>1, <1>2, <2>1 DEF Waits
  <2> QED
    BY <2>1, <2>2 DEF ArrayOf
<1> QED
  BY <1>2, <1>3, <1>4

\* The slots of both sides of a Scan have buffers of their own.
LEMMA HomeApart == HomeInv => ApartFromCallers
<1> SUFFICES ASSUME HomeInv, scanActive,
                    NEW i \in 1 .. ScanFrame - 1, NEW j \in ScanFrame .. Top,
                    NEW d \in Domains, NEW e \in Domains,
                    stack[i].views[d] = stack[j].views[e],
                    stack[i].views[d] \notin {Null, Dangling}
             PROVE  FALSE
  BY DEF ApartFromCallers
<1>1. SessionInv /\ ViewsHome
  BY DEF HomeInv
<1>2. /\ i \in 1 .. Top /\ ArrayOf(i) = "other"
      /\ j \in 1 .. Top /\ ArrayOf(j) = "current"
  BY <1>1, ScanFrameIs
<1>3. /\ stack[i].views[d] = BaseOf[<<"other", d>>]
      /\ stack[j].views[e] = BaseOf[<<"current", e>>]
  BY <1>1, <1>2 DEF ViewsHome
<1>4. <<"other", d>> = <<"current", e>>
  BY <1>1, <1>3, SlotsAre, OneSlot
<1> QED
  BY <1>4

\* A growth inside a Scan frees no buffer of those who wait for it.
LEMMA GrowFreeSpares ==
  ASSUME HomeInv, scanActive, GrowFree, NEW i \in 1 .. ScanFrame - 1
  PROVE  stack'[i].views = stack[i].views
<1>1. SessionInv /\ ViewsHome /\ stack' = WithoutViewsOf(GrowBase) /\ call.at = "free"
  BY DEF GrowFree, GrowBase, HomeInv
<1>2. BaseOf[GrowSlot] = GrowBase /\ GrowBase # Null /\ GrowSlot \in Slots
  BY <1>1, GrowFreeStep
<1>3. GrowBase # Dangling
  BY <1>1, <1>2, AllocatedAre DEF SessionInv, OwnInv, Divided
<1>4. i \in 1 .. Top /\ ArrayOf(i) = "other"
  BY <1>1, ScanFrameIs
<1>5. /\ stack' \in Seq(Frames) /\ Top' = Top
      /\ \A d \in Domains :
           stack'[i].views[d] = IF stack[i].views[d] = GrowBase THEN Dangling
                                ELSE stack[i].views[d]
  BY <1>1, <1>4, ViewsDropped DEF SessionInv
<1>6. ASSUME NEW d \in Domains PROVE stack'[i].views[d] = stack[i].views[d]
  <2> SUFFICES ASSUME stack[i].views[d] = GrowBase PROVE FALSE
    BY <1>5
  <2>1. BaseOf[<<"other", d>>] = GrowBase
    BY <1>1, <1>2, <1>3, <1>4 DEF ViewsHome
  <2>2. <<"other", d>> \in Slots
    BY SlotsAre
  <2>3. GrowSlot = <<"other", d>>
    BY <1>1, <1>2, <2>1, <2>2, OneSlot
  <2> QED
    BY <2>3 DEF GrowSlot
<1>7. stack[i] \in Frames /\ stack'[i] \in Frames
  <2>1. stack \in Seq(Frames) /\ i \in 1 .. Len(stack) /\ i \in 1 .. Len(stack')
    BY <1>1, <1>4, <1>5 DEF SessionInv, TypesInv, Top
  <2> QED
    BY <1>5, <2>1, ElementOfSeq
<1> QED
  BY <1>6, <1>7 DEF Frames

\* Whatever runs inside a Scan answers to the function on top.
LEMMA CallersKeep ==
  ASSUME HomeInv, [Next]_vars, scanActive, scanActive', NEW i \in 1 .. ScanFrame - 1
  PROVE  stack'[i].views = stack[i].views
<1>1. SessionInv
  BY DEF HomeInv
<1>2. /\ ScanFrame \in 1 .. Top /\ stack[ScanFrame].fn = "scan"
      /\ i \in 1 .. Top /\ i # Top
  BY <1>1, ScanFrameIs
<1>3. stack # <<>> /\ Top # 1
  <2>1. Top \in Nat /\ (stack = <<>> => Top = 0)
    BY <1>1, LenProperties DEF SessionInv, TypesInv, Top
  <2>2. i # 1 \/ Top # 1
    BY <1>2
  <2> QED
    BY <1>2, <2>1, <2>2
<1>4. CASE UNCHANGED stack
  BY <1>4
<1>5. CASE Compute \/ ComputeDone \/ NoPoolInit \/ Cleanup
  BY <1>1, <1>3, <1>5
  DEF Compute, ComputeDone, NoPoolInit, Cleanup, SessionInv, StackInv
<1>6. ASSUME NEW size \in PoolSizes, PoolInit(size) PROVE FALSE
  BY <1>1, <1>3, <1>6, PoolInitStep
<1>7. ASSUME NEW e \in Domains, NEW size \in PoolSizes, GetPool(e, size)
      PROVE  stack'[i].views = stack[i].views
  <2>1. CASE stack' = [stack EXCEPT ![Top].views[e] = pools.base[e]]
    BY <1>2, <2>1
  <2> QED
    BY <1>4, <1>7, <2>1 DEF GetPool
<1>8. ASSUME NEW t \in Scratches, NEW size \in ScratchSizes, EnsureScratch(t, size)
      PROVE  stack'[i].views = stack[i].views
  BY <1>4, <1>8 DEF EnsureScratch
<1>9. CASE GrowFree
  BY <1>9, GrowFreeSpares
<1>10. CASE GrowAlloc
  <2>1. CASE stack' = [stack EXCEPT ![Top].views[call.id] = BaseOf'[GrowSlot]]
    BY <1>2, <2>1
  <2> QED
    BY <1>1, <1>4, <1>10, <2>1, GivenIs
<1>11. CASE EnterScan \/ LeaveScan
  BY <1>11 DEF EnterScan, LeaveScan
<1>12. CASE EnterLoop /\ "loop" \in BodyKinds
  BY <1>1, <1>2, <1>12, Starts, NoPoolsTyped DEF EnterLoop, Running
<1>13. CASE LeaveLoop
  <2>1. /\ Top' = Top - 1 /\ Top \in Nat \ {0}
        /\ \A k \in 1 .. Top' : stack'[k] = stack[k]
    BY <1>1, <1>13, Popped DEF LeaveLoop, Running, SessionInv
  <2>2. i \in 1 .. Top'
    BY <1>2, <2>1
  <2> QED
    BY <2>1, <2>2
<1>14. CASE Iterate
  BY <1>1, <1>2, <1>14, IterateStep
<1>15. CASE Launch \/ Retire \/ CleanupStep \/ UNCHANGED vars
  BY <1>4, <1>15 DEF Launch, Retire, CleanupStep, vars
<1> QED
  BY <1>5, <1>6, <1>7, <1>8, <1>9, <1>10, <1>11, <1>12, <1>13, <1>14, <1>15 DEF Next

\* While a Scan body runs, with Loops around it and inside it, nothing is given
\* memory of the functions that wait for the Scan or frees it under them.
THEOREM SessionScanCapturesIntact == Spec => ScanCapturesIntact
<1>1. HomeInv /\ HomeInv' /\ [Next]_vars => [CallersIntact]_vars
  <2> SUFFICES ASSUME HomeInv, HomeInv', [Next]_vars, scanActive, scanActive'
               PROVE  /\ ApartFromCallers'
                      /\ \A i \in 1 .. ScanFrame - 1 : stack'[i].views = stack[i].views
    BY DEF CallersIntact
  <2>1. (HomeInv => ApartFromCallers)'
    BY HomeApart, PTL
  <2> QED
    BY <2>1, CallersKeep
<1> QED
  BY <1>1, HomeInvariant, PTL DEF Spec, ScanCapturesIntact

(***************************************************************************)
(* Sessions whose only bodies are those of Scan.                           *)
(***************************************************************************)
ScanBodiesOnly == BodyKinds \subseteq {"scan"}

\* Nothing dangles: a function asks for a pool before it holds a view of it, so
\* that a growth frees the view of none.
NoneDangling ==
  /\ \A i \in 1 .. Top, d \in Domains : stack[i].views[d] # Dangling
  /\ Dangling \notin inflight
TopBlank == call.at # "idle" /\ call.kind = "pool" => stack[Top].views[call.id] = Null
ScanOnly == HomeInv /\ NoneDangling /\ TopBlank

\* A Scan inside a Scan is refused, so at most two functions are running, and
\* the pools of the one that waits are the others.
LEMMA ScanDepth ==
  ASSUME SessionInv, ScanBodiesOnly
  PROVE  /\ Top \in 0 .. 2 /\ (scanActive <=> Top = 2)
         /\ stack[Top].fn = "scan" /\ Top # 0 => Top = 2
<1>1. /\ stack \in Seq(Frames) /\ Top = Len(stack) /\ Top \in Nat
      /\ \A i \in 1 .. Top : stack[i] \in Frames
  BY LenProperties, ElementOfSeq DEF SessionInv, TypesInv, Top
<1>2. \A i \in 1 .. Top : stack[i].fn = "main" \/ stack[i].fn = "scan"
  BY <1>1 DEF Frames, ScanBodiesOnly
<1>3. /\ \A i \in 1 .. Top : stack[i].fn = "main" <=> i = 1
      /\ scanActive <=> \E i \in 1 .. Top : stack[i].fn = "scan"
      /\ \A i, j \in 1 .. Top : stack[i].fn = "scan" /\ stack[j].fn = "scan" => i = j
  BY DEF SessionInv, StackInv
<1>4. \A i \in 1 .. Top : i = 1 \/ stack[i].fn = "scan"
  BY <1>2, <1>3
<1>5. ~ Top > 2
  <2> SUFFICES ASSUME Top > 2 PROVE FALSE
    OBVIOUS
  <2>1. 2 \in 1 .. Top /\ 3 \in 1 .. Top
    BY <1>1
  <2> QED
    BY <1>3, <1>4, <2>1
<1>6. Top = 2 => stack[2].fn = "scan" /\ 2 \in 1 .. Top
  BY <1>1, <1>4
<1>7. Top # 2 => \A i \in 1 .. Top : stack[i].fn # "scan"
  <2>1. Top # 2 => \A i \in 1 .. Top : i = 1
    BY <1>1, <1>5
  <2> QED
    BY <1>3, <2>1
<1> QED
  BY <1>1, <1>3, <1>5, <1>6, <1>7

\* The function on top has the current pools, the one that waits the others.
LEMMA ScanArrays ==
  ASSUME SessionInv, ScanBodiesOnly
  PROVE  \A i \in 1 .. Top : ArrayOf(i) = "current" <=> i = Top
<1>1. /\ Top \in 0 .. 2 /\ (scanActive <=> Top = 2)
      /\ \A i \in 1 .. Top : stack[i].fn = "main" <=> i = 1
      /\ \A i \in 1 .. Top : stack[i].fn \in {"main", "scan"}
  <2>1. \A i \in 1 .. Top : stack[i] \in Frames
    BY ElementOfSeq DEF SessionInv, TypesInv, Top
  <2> QED
    BY <2>1, ScanDepth DEF SessionInv, StackInv, Frames, ScanBodiesOnly
<1>2. ASSUME NEW i \in 1 .. Top PROVE Waits(i) <=> i # Top
  <2>1. CASE i = Top
    BY <1>1, <2>1 DEF Waits
  <2>2. CASE i # Top
    <3>1. i = 1 /\ 2 \in 1 .. Top /\ 1 < 2 /\ 2 # 1
      BY <1>1, <2>2
    <3>2. stack[2].fn = "scan"
      BY <1>1, <3>1
    <3> QED
      BY <2>2, <3>1, <3>2 DEF Waits
  <2> QED
    BY <2>1, <2>2
<1> QED
  BY <1>2 DEF ArrayOf

LEMMA DanglingApart == Dangling \notin Pointers
BY BlocksAre DEF Pointers, Blocks

\* No function is running.
LEMMA ScanEmpty ==
  ASSUME SessionInv', stack' = <<>>, NoneDangling, inflight' \subseteq inflight
  PROVE  NoneDangling' /\ TopBlank'
<1>1. call' = Idle /\ Top' = 0
  BY DEF SessionInv, CallInv, Top
<1> QED
  BY <1>1 DEF NoneDangling, TopBlank, Idle

\* A function starts, returns or forgets what it held.
LEMMA ScanIdles ==
  ASSUME NoneDangling, call' = Idle, inflight' \subseteq inflight,
         \A i \in 1 .. Top', d \in Domains :
            \/ stack'[i].views[d] = Null
            \/ i \in 1 .. Top /\ stack'[i].views[d] = stack[i].views[d]
  PROVE  NoneDangling' /\ TopBlank'
<1>1. Null # Dangling
  BY BlocksAre
<1> QED
  BY <1>1 DEF NoneDangling, TopBlank, Idle

LEMMA ScanStackKept ==
  ASSUME NoneDangling, TopBlank, UNCHANGED stack, inflight' \subseteq inflight,
         \/ UNCHANGED call
         \/ call'.kind = "scratch"
         \/ call'.kind = "pool" /\ stack[Top].views[call'.id] = Null
  PROVE  NoneDangling' /\ TopBlank'
<1>1. Top' = Top
  BY DEF Top
<1> QED
  BY <1>1 DEF NoneDangling, TopBlank

LEMMA ScanGetPool ==
  ASSUME ScanOnly, NEW e \in Domains, NEW size \in PoolSizes, GetPool(e, size)
  PROVE  NoneDangling' /\ TopBlank'
<1>1. SessionInv /\ NoneDangling /\ TopBlank
  BY DEF ScanOnly, HomeInv
<1>2. CASE GivesPool(e)
  <2>1. pools.base[e] \in Pointers /\ stack # <<>> /\ call' = Idle
    BY <1>1, <1>2 DEF GivesPool, Running, SessionInv, TypesInv, PoolSets
  <2>2. /\ Top' = Top
        /\ \A i \in 1 .. Top, d \in Domains :
             stack'[i].views[d] = IF i = Top /\ d = e THEN pools.base[e]
                                  ELSE stack[i].views[d]
    BY <1>1, <1>2, <2>1, ViewGiven DEF GivesPool, SessionInv
  <2>3. pools.base[e] # Dangling
    BY <2>1, DanglingApart
  <2> QED
    BY <1>1, <1>2, <2>1, <2>2, <2>3 DEF GivesPool, NoneDangling, TopBlank, Idle
<1>3. CASE GrowsPool(e)
  <2>1. /\ UNCHANGED stack /\ stack[Top].views[e] = Null
        /\ call'.kind = "pool" /\ call'.id = e /\ inflight' \subseteq inflight
    BY <1>3 DEF GrowsPool, Grow
  <2> QED
    BY <1>1, <2>1, ScanStackKept
<1> QED
  BY <1>1, <1>2, <1>3, GetPoolCases

\* The buffer that goes is in the slot the function on top asks for; it holds no
\* view of it, and the function that waits has pools of its own.
LEMMA ScanGrowFree ==
  ASSUME ScanBodiesOnly, ScanOnly, GrowFree
  PROVE  NoneDangling' /\ TopBlank'
<1>1. /\ SessionInv /\ ViewsHome /\ NoneDangling /\ TopBlank
      /\ call.at = "free" /\ stack' = WithoutViewsOf(GrowBase)
      /\ call' = [call EXCEPT !.at = "alloc"]
  BY DEF GrowFree, GrowBase, ScanOnly, HomeInv
<1>2. BaseOf[GrowSlot] = GrowBase /\ GrowBase # Null /\ GrowSlot \in Slots
  BY <1>1, GrowFreeStep
<1>3. call'.kind = call.kind /\ call'.id = call.id
  BY <1>1 DEF SessionInv, CallInv, Calls, Idle
<1>4. /\ Top' = Top
      /\ \A i \in 1 .. Top, d \in Domains :
           stack'[i].views[d] = IF stack[i].views[d] = GrowBase THEN Dangling
                                ELSE stack[i].views[d]
  BY <1>1, ViewsDropped DEF SessionInv
<1>5. ASSUME NEW i \in 1 .. Top, NEW d \in Domains
      PROVE  stack[i].views[d] # GrowBase
  <2> SUFFICES ASSUME stack[i].views[d] = GrowBase PROVE FALSE
    OBVIOUS
  <2>1. BaseOf[<<ArrayOf(i), d>>] = GrowBase /\ <<ArrayOf(i), d>> \in Slots
    BY <1>1, <1>2, ArraySlots DEF ViewsHome, NoneDangling
  <2>2. <<ArrayOf(i), d>> = GrowSlot
    BY <1>1, <1>2, <2>1, OneSlot
  <2>3. call.kind = "pool" /\ d = call.id /\ ArrayOf(i) = "current"
    BY <2>2 DEF GrowSlot, ArrayOf
  <2>4. i = Top
    BY <1>1, <2>3, ScanArrays
  <2> QED
    BY <1>1, <1>2, <2>3, <2>4 DEF TopBlank
<1>6. \A i \in 1 .. Top, d \in Domains : stack'[i].views[d] = stack[i].views[d]
  BY <1>4, <1>5
<1>7. inflight' \subseteq inflight
  BY DEF GrowFree, DeviceFree
<1>8. NoneDangling'
  BY <1>1, <1>4, <1>6, <1>7 DEF NoneDangling
<1>9. TopBlank'
  <2>1. ASSUME call.kind = "pool" PROVE stack'[Top].views[call.id] = Null
    <3>1. stack[Top].views[call.id] = Null
      BY <1>1, <2>1 DEF TopBlank
    <3>2. Top \in 1 .. Top /\ call.id \in Domains
      BY <1>1, <2>1, GrowingIs, EmptySeq DEF SessionInv, TypesInv, Top
    <3> QED
      BY <1>6, <3>1, <3>2
  <2> QED
    BY <1>3, <1>4, <2>1 DEF TopBlank
<1> QED
  BY <1>8, <1>9

LEMMA ScanGrowAlloc ==
  ASSUME ScanOnly, GrowAlloc
  PROVE  NoneDangling' /\ TopBlank'
<1>1. SessionInv /\ NoneDangling
  BY DEF ScanOnly, HomeInv
<1>2. call' = Idle /\ UNCHANGED inflight
  BY DEF GrowAlloc
<1>3. /\ Top' = Top /\ BaseOf'[GrowSlot] # Dangling
      /\ \/ UNCHANGED stack
         \/ \A i \in 1 .. Top, d \in Domains :
              stack'[i].views[d] = IF i = Top /\ d = call.id THEN BaseOf'[GrowSlot]
                                   ELSE stack[i].views[d]
  BY <1>1, GivenIs, DanglingApart
<1> QED
  BY <1>1, <1>2, <1>3 DEF NoneDangling, TopBlank, Idle

LEMMA ScanLaunch ==
  ASSUME ScanOnly, Launch
  PROVE  NoneDangling' /\ TopBlank'
<1>1. SessionInv /\ NoneDangling
  BY DEF ScanOnly, HomeInv
<1>2. PICK p \in Reachable : inflight' = inflight \cup {p}
  BY DEF Launch
<1>3. p # Dangling
  <2>1. \A t \in Scratches : scratch[t].base # Dangling
    BY <1>1, DanglingApart DEF SessionInv, TypesInv
  <2> QED
    BY <1>1, <2>1 DEF Reachable, NoneDangling
<1>4. UNCHANGED <<stack, call>> /\ call = Idle
  BY DEF Launch, Running
<1>5. Top' = Top
  BY <1>4 DEF Top
<1> QED
  BY <1>1, <1>2, <1>3, <1>4, <1>5 DEF NoneDangling, TopBlank, Idle

\* A function starts: a Scan body, or the main graph.
LEMMA ScanBegins ==
  ASSUME ScanOnly, Compute \/ (EnterScan /\ "scan" \in BodyKinds)
  PROVE  NoneDangling' /\ TopBlank'
<1>1. SessionInv /\ NoneDangling
  BY DEF ScanOnly, HomeInv
<1>2. call' = Idle /\ inflight' = inflight
  BY <1>1 DEF Compute, EnterScan, Running, SessionInv, CallInv
<1>3. CASE Compute
  <2> DEFINE f == Frame("main", NoPools)
  <2>1. \A d \in Domains : f.views[d] = Null
    BY FrameTyped, NoPoolsTyped
  <2>2. stack' = <<f>>
    BY <1>3 DEF Compute
  <2> HIDE DEF f
  <2>3. Top' = 1 /\ stack'[1] = f
    BY <2>2 DEF Top
  <2> QED
    BY <1>1, <1>2, <2>1, <2>3, ScanIdles
<1>4. CASE EnterScan /\ "scan" \in BodyKinds
  <2>1. /\ \A i \in 1 .. Top' : i \in 1 .. Top \/ i = Top'
        /\ \A i \in 1 .. Top : stack'[i] = stack[i]
        /\ \A d \in Domains : stack'[Top'].views[d] = Null
    BY <1>1, <1>4, Starts DEF EnterScan, Running, SessionInv, TypesInv
  <2> QED
    BY <1>1, <1>2, <2>1, ScanIdles
<1> QED
  BY <1>3, <1>4

LEMMA ScanEnds ==
  ASSUME ScanOnly, LeaveScan
  PROVE  NoneDangling' /\ TopBlank'
<1>1. SessionInv /\ NoneDangling
  BY DEF ScanOnly, HomeInv
<1>2. /\ Top' = Top - 1 /\ Top \in Nat \ {0}
      /\ \A i \in 1 .. Top' : stack'[i] = stack[i]
  BY <1>1, Popped DEF LeaveScan, Running, SessionInv
<1>3. \A i \in 1 .. Top' : i \in 1 .. Top
  BY <1>2
<1>4. call' = Idle /\ inflight' = inflight
  BY DEF LeaveScan, Running
<1> QED
  BY <1>1, <1>2, <1>3, <1>4, ScanIdles

LEMMA ScanStarts == Init => ScanOnly
<1> SUFFICES ASSUME Init PROVE ScanOnly
  OBVIOUS
<1>1. HomeInv /\ call = Idle /\ Top = 0 /\ inflight = {}
  BY HomeStarts DEF Init, Top
<1> QED
  BY <1>1 DEF ScanOnly, NoneDangling, TopBlank, Idle

LEMMA ScanNext ==
  ASSUME ScanBodiesOnly, ScanOnly, [Next]_vars
  PROVE  ScanOnly'
<1>1. HomeInv' /\ SessionInv /\ SessionInv' /\ NoneDangling /\ TopBlank
  BY HomeNext DEF ScanOnly, HomeInv
<1> SUFFICES NoneDangling' /\ TopBlank'
  BY <1>1 DEF ScanOnly
<1>2. CASE NoPoolInit
  <2>1. stack' = <<>> /\ inflight' = inflight
    BY <1>1, <1>2 DEF NoPoolInit, SessionInv, StackInv
  <2> QED
    BY <1>1, <2>1, ScanEmpty
<1>3. ASSUME NEW size \in PoolSizes, PoolInit(size)
      PROVE  NoneDangling' /\ TopBlank'
  <2>1. inflight' = inflight
    BY <1>3 DEF PoolInit
  <2> QED
    BY <1>1, <1>3, <2>1, PoolInitStep, ScanEmpty
<1>4. ASSUME NEW d \in Domains, NEW size \in PoolSizes, GetPool(d, size)
      PROVE  NoneDangling' /\ TopBlank'
  BY <1>4, ScanGetPool
<1>5. ASSUME NEW t \in Scratches, NEW size \in ScratchSizes, EnsureScratch(t, size)
      PROVE  NoneDangling' /\ TopBlank'
  <2>1. UNCHANGED stack /\ call'.kind = "scratch" /\ inflight' \subseteq inflight
    BY <1>5 DEF EnsureScratch, Grow
  <2> QED
    BY <1>1, <2>1, ScanStackKept
<1>6. CASE GrowFree
  BY <1>6, ScanGrowFree
<1>7. CASE GrowAlloc
  BY <1>7, ScanGrowAlloc
<1>8. CASE ComputeDone
  <2>1. stack' = <<>> /\ inflight' \subseteq inflight
    BY <1>8 DEF ComputeDone
  <2> QED
    BY <1>1, <2>1, ScanEmpty
<1>9. CASE Compute \/ ("scan" \in BodyKinds /\ (EnterScan \/ LeaveScan))
  BY <1>9, ScanBegins, ScanEnds
<1>10. ~ ("loop" \in BodyKinds)
  BY DEF ScanBodiesOnly
<1>11. CASE Iterate
  <2>1. /\ Top' = Top
        /\ \A i \in 1 .. Top, d \in Domains :
             stack'[i].views[d] = Null \/ stack'[i].views[d] = stack[i].views[d]
    BY <1>1, <1>11, IterateStep
  <2>2. call' = Idle /\ inflight' = inflight
    BY <1>11 DEF Iterate, Running
  <2> QED
    BY <1>1, <2>1, <2>2, ScanIdles
<1>12. CASE Launch
  BY <1>12, ScanLaunch
<1>13. CASE Retire \/ UNCHANGED vars
  <2>1. UNCHANGED <<stack, call>> /\ inflight' \subseteq inflight
    BY <1>13 DEF Retire, vars
  <2> QED
    BY <1>1, <2>1, ScanStackKept
<1>14. CASE Cleanup
  BY <1>1, <1>14, ScanEmpty DEF Cleanup
<1>15. CASE CleanupStep
  <2>1. inflight' \subseteq inflight
    BY <1>15 DEF CleanupStep, FreeScratch, FreePool, FreeScanPool, DestroyArena,
       DeviceFree
  <2> QED
    BY <1>1, <1>15, <2>1, CleanupStepKeeps, ScanEmpty
<1> QED
  BY <1>2, <1>3, <1>4, <1>5, <1>6, <1>7, <1>8, <1>9, <1>10, <1>11, <1>12, <1>13,
     <1>14, <1>15 DEF Next

LEMMA ScanInvariant ==
  ASSUME ScanBodiesOnly PROVE Spec => []ScanOnly
<1>1. Init => ScanOnly
  BY ScanStarts
<1>2. ScanOnly /\ [Next]_vars => ScanOnly'
  BY ScanNext
<1> QED
  BY <1>1, <1>2, PTL DEF Spec

\* With Scan bodies only: no kernel in flight refers to memory that was given
\* back, and none is launched on memory that was, whatever grows or is cleaned
\* up while the GPU runs.  (A Loop body leaves its caller a view of memory it
\* freed, on which the caller launches.)
THEOREM SessionInFlightLive ==
  ASSUME ScanBodiesOnly PROVE Spec => []InFlightLive
<1>1. ScanOnly => InFlightLive
  BY DEF ScanOnly, HomeInv, SessionInv, InFlightKnown, NoneDangling, InFlightLive
<1> QED
  BY <1>1, ScanInvariant, PTL

\* With Scan bodies only: the pool a running function was given is the pool of
\* its domain, the caller's pools being back when the Scan is over.  (A Loop
\* body shares its caller's pools and breaks this.)
THEOREM SessionViewsAreCurrent ==
  ASSUME ScanBodiesOnly PROVE Spec => []ViewsAreCurrent
<1>1. ScanOnly => ViewsAreCurrent
  <2> SUFFICES ASSUME ScanOnly, Running, NEW d \in Domains,
                      stack[Top].views[d] # Null
               PROVE  stack[Top].views[d] = pools.base[d]
    BY DEF ViewsAreCurrent
  <2>1. SessionInv /\ ViewsHome /\ NoneDangling
    BY DEF ScanOnly, HomeInv
  <2>2. Top \in 1 .. Top
    BY <2>1, EmptySeq DEF Running, SessionInv, TypesInv, Top
  <2>3. stack[Top].views[d] = BaseOf[<<"current", d>>]
    BY <2>1, <2>2, TopRuns DEF ViewsHome, NoneDangling
  <2>4. ~Moving(d)
    BY DEF Running, Moving, Idle
  <2> QED
    BY <2>3, <2>4, SlotsHold DEF CurrentSlots
<1> QED
  BY <1>1, ScanInvariant, PTL

\* With Scan bodies only: what the comment in run_scan demands.  No function
\* loses a buffer it was given while it waits or runs, and no two of the
\* buffers the running functions hold are the same.
THEOREM SessionCapturesIntact ==
  ASSUME ScanBodiesOnly PROVE Spec => []CapturesIntact
<1>1. ScanOnly => CapturesIntact
  <2> SUFFICES ASSUME ScanOnly, NEW i \in 1 .. Top, NEW d \in Domains
               PROVE  /\ stack[i].views[d] # Dangling
                      /\ stack[i].views[d] # Null =>
                           \A j \in 1 .. Top, e \in Domains :
                             stack[j].views[e] = stack[i].views[d] => i = j /\ d = e
    BY DEF CapturesIntact
  <2>1. SessionInv /\ ViewsHome /\ NoneDangling
    BY DEF ScanOnly, HomeInv
  <2>2. ASSUME stack[i].views[d] # Null, NEW j \in 1 .. Top, NEW e \in Domains,
               stack[j].views[e] = stack[i].views[d]
        PROVE  i = j /\ d = e
    <3>1. /\ stack[i].views[d] = BaseOf[<<ArrayOf(i), d>>]
          /\ stack[j].views[e] = BaseOf[<<ArrayOf(j), e>>]
      BY <2>1, <2>2 DEF ViewsHome, NoneDangling
    <3>2. <<ArrayOf(i), d>> = <<ArrayOf(j), e>>
      BY <2>1, <2>2, <3>1, ArraySlots, OneSlot
    <3>3. i = Top <=> j = Top
      BY <2>1, <3>2, ScanArrays
    <3>4. Top \in 0 .. 2
      BY <2>1, ScanDepth
    <3> QED
      BY <3>2, <3>3, <3>4
  <2> QED
    BY <2>1, <2>2 DEF NoneDangling
<1> QED
  BY <1>1, ScanInvariant, PTL
=============================================================================
