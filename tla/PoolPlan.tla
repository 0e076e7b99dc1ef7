------------------------------- MODULE PoolPlan -------------------------------
(***************************************************************************)
(* The compile-time memory plan of one function: hip-optimize-memrefs      *)
(* (lib/Dialect/Transforms/OptimizeMemRefs.cpp) folds dead allocations     *)
(* into earlier ones, then hip-pool-allocs (PoolAllocs.cpp) splits the     *)
(* rest into dominance domains, packs every domain and emits one           *)
(* hip.get_pool and a view per allocation.                                 *)
(*                                                                         *)
(* A function is a block of operations in which allocation i stands at     *)
(* index 2 * i; the odd indices between them are where buffers are used    *)
(* for the last time and where dynamic sizes are computed.  An allocation  *)
(* has a kind: its bytes when the shape is static (dim = Static), else     *)
(* the byte coefficient of one runtime dimension.  Several dynamic         *)
(* operands count as one dimension, their ordered list: the passes compare *)
(* such lists and multiply them, nothing else.  Element type and memory    *)
(* space are the same everywhere, which only permits more reuse.  The      *)
(* passes between the two add or hoist operations and keep lifetimes.      *)
(***************************************************************************)
EXTENDS Naturals, Sequences, FiniteSetsExt

CONSTANTS NumAllocs,   \* memref.alloc operations with a use
          Kinds,       \* their kinds, [dim : Dims \cup {Static}, bytes : Nat]
          Dims,        \* dynamic dimensions
          Static,      \* stands for "no dynamic dimension"
          Align,       \* the pass option alignment
          Factors      \* values a dimension takes at run time

ASSUME PlanAssumption ==
  /\ NumAllocs \in Nat /\ Align \in Nat \ {0} /\ Factors \subseteq Nat
  /\ Kinds \subseteq [dim : Dims \cup {Static}, bytes : Nat] /\ Static \notin Dims

Allocs == 1 .. NumAllocs
DefIndex(i) == 2 * i
Uses == {2 * i + 1 : i \in Allocs}

VARIABLES
  kind, lastUse, dimAt,   \* the function: kinds, last uses, where sizes are computed
  lifetimeOnly,           \* the pass option lifetime-only
  slot,                   \* OptimizeMemRefs: the buffer i was replaced by (itself: kept)
  slotLast,               \* ... and the last use of a kept buffer
  domains,                \* PoolAllocs: the domains, oldest first
  unit,                   \* byte offset (static) or unit offset (in its group)
  bin,                    \* lifetime bin in its small bucket, 0 elsewhere
  slab,                   \* slab of a group, named by the group's first allocation
  packed                  \* allocations with a place inside their domain

program == <<kind, lastUse, dimAt, lifetimeOnly>>
reuse == <<slot, slotLast>>
packing == <<unit, bin, slab, packed>>
vars == <<program, reuse, domains, packing>>

None == 0

Init ==
  /\ kind \in [Allocs -> Kinds]
  /\ lastUse \in {u \in [Allocs -> Uses] : \A i \in Allocs : DefIndex(i) < u[i]}
  /\ dimAt \in [Dims -> {0} \cup Uses]
  /\ \A i \in Allocs : kind[i].dim \in Dims => dimAt[kind[i].dim] < DefIndex(i)
  /\ lifetimeOnly \in BOOLEAN
  /\ slot = [i \in Allocs |-> None]
  /\ slotLast = [i \in Allocs |-> 0]
  /\ domains = <<>>
  /\ unit = [i \in Allocs |-> 0]
  /\ bin = [i \in Allocs |-> 0]
  /\ slab = [i \in Allocs |-> 0]
  /\ packed = {}

AlignUp(n) == ((n + Align - 1) \div Align) * Align

\* getStaticByteSize: 0 for a dynamic shape, and for an empty static one.
StaticByteSize(i) == IF kind[i].dim = Static THEN kind[i].bytes ELSE 0

(***************************************************************************)
(* hip-optimize-memrefs: one walk over the allocations in program order.   *)
(***************************************************************************)
Kept == {i \in Allocs : slot[i] = i}

CanReuse(s, i) ==
  \/ StaticByteSize(i) > 0 /\ StaticByteSize(s) >= StaticByteSize(i)
  \/ StaticByteSize(i) = 0 /\ StaticByteSize(s) = 0 /\ kind[s] = kind[i]

\* The slots that are dead when i is defined and fit it.
Reusable(i) == {s \in Kept : slotLast[s] < DefIndex(i) /\ CanReuse(s, i)}

\* The first of the reusable slots with the least waste.
BestSlot(i) ==
  CHOOSE s \in Reusable(i) : \A t \in Reusable(i) :
    LET Waste(r) == StaticByteSize(r) - StaticByteSize(i)
    IN Waste(s) < Waste(t) \/ (Waste(s) = Waste(t) /\ s <= t)

\* Slip: the last use of a reused slot stays that of its first buffer.
AssignSlotStale ==
  LET Walked == {i \in Allocs : slot[i] # None}
  IN /\ Walked # Allocs
     /\ LET i == Min(Allocs \ Walked)
            s == IF Reusable(i) = {} THEN i ELSE BestSlot(i)
        IN /\ slot' = [slot EXCEPT ![i] = s]
           /\ slotLast' = [slotLast EXCEPT ![s] = Max({slotLast[s], lastUse[s]})]
     /\ UNCHANGED <<program, domains, packing>>

AssignSlot ==
  LET Walked == {i \in Allocs : slot[i] # None}
  IN /\ Walked # Allocs
     /\ LET i == Min(Allocs \ Walked)
            s == IF Reusable(i) = {} THEN i ELSE BestSlot(i)
        IN /\ slot' = [slot EXCEPT ![i] = s]
           /\ slotLast' = [slotLast EXCEPT ![s] = lastUse[i]]
     /\ UNCHANGED <<program, domains, packing>>

(***************************************************************************)
(* hip-pool-allocs, phase 1.5: dominance domains.                          *)
(***************************************************************************)
\* The lifetimes phase 1 computes for what OptimizeMemRefs left.
LifetimesOverlap(i, j) == ~(slotLast[i] < DefIndex(j) \/ slotLast[j] < DefIndex(i))

RequiredAfter(S) == {dimAt[kind[i].dim] : i \in {j \in S : kind[j].dim # Static}}

\* findLatestLegalInsertionPoint succeeds: the latest operand definition is
\* strictly before the earliest allocation.
Feasible(S) == Max({0} \cup RequiredAfter(S)) < Min({DefIndex(i) : i \in S})

Partitioned == UNION {domains[d] : d \in DOMAIN domains}

\* Slip: the domains are searched oldest first.
AssignDomainOldest ==
  /\ \A i \in Allocs : slot[i] # None
  /\ Partitioned # Kept
  /\ LET i == Min(Kept \ Partitioned)
         Open == {d \in DOMAIN domains : Feasible(domains[d] \cup {i})}
     IN domains' = IF Open = {} THEN Append(domains, {i})
                   ELSE [domains EXCEPT ![Min(Open)] = @ \cup {i}]
  /\ UNCHANGED <<program, reuse, packing>>

\* Slip: a replaced allocation that was not erased is pooled again.
AssignDomainReplaced ==
  /\ \A i \in Allocs : slot[i] # None
  /\ Partitioned # Allocs
  /\ LET i == Min(Allocs \ Partitioned)
     IN domains' = Append(domains, {i})
  /\ UNCHANGED <<program, reuse, packing>>

AssignDomain ==
  /\ \A i \in Allocs : slot[i] # None
  /\ Partitioned # Kept
  /\ LET i == Min(Kept \ Partitioned)
         Open == {d \in DOMAIN domains : Feasible(domains[d] \cup {i})}
     IN domains' = IF Open = {} THEN Append(domains, {i})
                   ELSE [domains EXCEPT ![Max(Open)] = @ \cup {i}]
  /\ UNCHANGED <<program, reuse, packing>>

(***************************************************************************)
(* Phases 2 to 4, domain by domain: static allocations are packed largest  *)
(* first; dynamic ones form groups of one runtime factor, packed in units  *)
(* of that factor, and groups that are never alive together share a slab.  *)
(* Without lifetime-only, coefficients that are no multiple of the         *)
(* alignment go to buckets of equal byte size, with bins of disjoint       *)
(* lifetimes.                                                              *)
(***************************************************************************)
Statics(d) == {i \in domains[d] : StaticByteSize(i) > 0}
Dynamics(d) == domains[d] \ Statics(d)
Small(i) == ~lifetimeOnly /\ kind[i].bytes % Align # 0
Smalls(d) == {i \in Dynamics(d) : Small(i)}
Grouped(d) == Dynamics(d) \ Smalls(d)

\* The first allocation of i's factor class, and of the group it belongs to.
ClassOf(d, i) == Min({j \in Grouped(d) : kind[j].dim = kind[i].dim})
GroupOf(d, i) == IF lifetimeOnly THEN i ELSE ClassOf(d, i)
Groups(d) == {GroupOf(d, i) : i \in Grouped(d)}
Members(d, g) == {i \in Grouped(d) : GroupOf(d, i) = g}
BucketOf(d, i) == Min({j \in Smalls(d) : kind[j] = kind[i]})

Size(i) == AlignUp(kind[i].bytes)
End(i) == unit[i] + Size(i)

\* packGreedyBestFit for one item: the smallest gap below a placed allocation
\* that is alive at the same time, else behind all of them.  The offset where
\* a gap starts is the end of what lies below it.
BestFit(i, placed) ==
  LET Live == {j \in placed : LifetimesOverlap(i, j)}
      Floor(top) == AlignUp(Max({0} \cup {End(j) : j \in {k \in Live : unit[k] < top}}))
      Gaps == {top \in {unit[j] : j \in Live} : Floor(top) + Size(i) <= top}
      Tighter(t, u) == \/ t - Floor(t) < u - Floor(u)
                       \/ t - Floor(t) = u - Floor(u) /\ t <= u
  IN IF Gaps # {}
     THEN Floor(CHOOSE t \in Gaps : \A u \in Gaps : Tighter(t, u))
     ELSE AlignUp(Max({0} \cup {End(j) : j \in Live}))

Place(i, placed) ==
  /\ unit' = [unit EXCEPT ![i] = BestFit(i, placed)]
  /\ packed' = packed \cup {i}
  /\ UNCHANGED <<program, reuse, domains, bin, slab>>

Finished(d) == domains[d] \subseteq packed /\ \A g \in Groups(d) : slab[g] # 0
Planned == /\ \A i \in Allocs : slot[i] # None
           /\ Partitioned = Kept

\* The domain the pass is working on.
Current(d) == /\ Planned /\ d \in DOMAIN domains
              /\ ~Finished(d)
              /\ \A e \in 1 .. d - 1 : Finished(e)

\* llvm::sort is not stable: any of the largest static allocations comes next.
PackStatic(d) ==
  /\ Current(d)
  /\ \E i \in Statics(d) \ packed :
       /\ \A j \in Statics(d) \ packed : kind[j].bytes <= kind[i].bytes
       /\ Place(i, Statics(d) \cap packed)

\* The small buckets, in program order: the first bin without a conflict.
PackSmall(d) ==
  /\ Current(d) /\ Statics(d) \subseteq packed /\ ~(Smalls(d) \subseteq packed)
  /\ LET i == Min(Smalls(d) \ packed)
         Bin(b) == {j \in Smalls(d) \cap packed :
                      BucketOf(d, j) = BucketOf(d, i) /\ bin[j] = b}
         Fits(b) == \A j \in Bin(b) : ~LifetimesOverlap(i, j)
     IN bin' = [bin EXCEPT ![i] = Min({b \in 1 .. NumAllocs : Fits(b)})]
        /\ packed' = packed \cup {i}
  /\ UNCHANGED <<program, reuse, domains, unit, slab>>

\* The members of the groups, class by class, larger coefficients first.
PackGroup(d) ==
  /\ Current(d) /\ Statics(d) \cup Smalls(d) \subseteq packed
  /\ \E i \in Grouped(d) \ packed :
       /\ \A j \in Grouped(d) \ packed :
            \/ GroupOf(d, i) < GroupOf(d, j)
            \/ /\ GroupOf(d, i) = GroupOf(d, j)
               /\ \/ kind[i].bytes > kind[j].bytes
                  \/ kind[i].bytes = kind[j].bytes /\ i <= j
       /\ Place(i, Members(d, GroupOf(d, i)) \cap packed)

SpanUnits(d, g) ==
  Max({IF lifetimeOnly THEN kind[i].bytes ELSE End(i) : i \in Members(d, g)})

\* The order of result.groups: lifetime-only sorts it by span.
GroupBefore(d, g, h) ==
  \/ lifetimeOnly /\ SpanUnits(d, g) > SpanUnits(d, h)
  \/ /\ lifetimeOnly => SpanUnits(d, g) = SpanUnits(d, h)
     /\ \/ ClassOf(d, g) < ClassOf(d, h)
        \/ ClassOf(d, g) = ClassOf(d, h) /\ g <= h

GroupsDisjoint(d, g, h) ==
  \A i \in Members(d, g), j \in Members(d, h) : ~LifetimesOverlap(i, j)

AssignSlab(d) ==
  /\ Current(d) /\ domains[d] \subseteq packed
  /\ \E g \in {h \in Groups(d) : slab[h] = 0} :
       /\ \A h \in Groups(d) : slab[h] = 0 => GroupBefore(d, g, h)
       /\ LET Accepts(s) == \A h \in Groups(d) : slab[h] = s => GroupsDisjoint(d, g, h)
          IN slab' = [slab EXCEPT ![g] = Min({s \in 1 .. NumAllocs : Accepts(s)})]
  /\ UNCHANGED <<program, reuse, domains, unit, bin, packed>>

Done == Planned /\ \A d \in DOMAIN domains : Finished(d)

Next ==
  \/ AssignSlot
  \/ AssignDomain
  \/ \E d \in 1 .. NumAllocs :
       PackStatic(d) \/ PackSmall(d) \/ PackGroup(d) \/ AssignSlab(d)

Spec == Init /\ [][Next]_vars

(***************************************************************************)
(* Phase 5: what the emitted arithmetic yields when the dimensions have    *)
(* the values F.  The static allocations come first, then the slabs, then  *)
(* the small buckets.                                                      *)
(***************************************************************************)
Factor(i, F) == IF kind[i].dim = Static THEN 1 ELSE F[kind[i].dim]
Bytes(i, F) == kind[i].bytes * Factor(i, F)

StaticPoolSize(d) == Max({0} \cup {End(i) : i \in Statics(d)})

Slabs(d) == {slab[g] : g \in Groups(d)}
Buckets(d) == {BucketOf(d, i) : i \in Smalls(d)}
SlabMembers(d, s) == {g \in Groups(d) : slab[g] = s}

\* Slip: only the widest span decides whether the slab is rounded up.
SlabWidthByMaxSpan(d, s, F) ==
  LET M == SlabMembers(d, s)
      width == Max({SpanUnits(d, g) * Factor(g, F) : g \in M})
  IN IF Max({SpanUnits(d, g) : g \in M}) % Align # 0 THEN AlignUp(width) ELSE width

SlabWidth(d, s, F) ==
  LET M == SlabMembers(d, s)
      width == Max({SpanUnits(d, g) * Factor(g, F) : g \in M})
      commonFactor == \A g, h \in M : kind[g].dim = kind[h].dim
      needAlign == IF commonFactor
                   THEN Max({SpanUnits(d, g) : g \in M}) % Align # 0
                   ELSE \E g \in M : SpanUnits(d, g) % Align # 0
  IN IF needAlign THEN AlignUp(width) ELSE width

\* emitBucketSize.  A small coefficient is never a multiple of the alignment.
BinSize(b, F) == AlignUp(Bytes(b, F))
NumBins(d, b) == Max({bin[i] : i \in {j \in Smalls(d) : BucketOf(d, j) = b}})

\* w[1] + ... + w[n]
SumTo(w, n) ==
  LET Sum[k \in 0 .. NumAllocs] == IF k = 0 THEN 0 ELSE Sum[k - 1] + w[k]
  IN Sum[n]

SlabBase(d, s, F) ==
  LET widths == [t \in Allocs |-> IF t \in Slabs(d) THEN SlabWidth(d, t, F) ELSE 0]
  IN StaticPoolSize(d) + SumTo(widths, s - 1)

BucketBase(d, b, F) ==
  LET totals == [c \in Allocs |-> IF c \in Buckets(d)
                                  THEN BinSize(c, F) * NumBins(d, c) ELSE 0]
  IN SlabBase(d, NumAllocs + 1, F) + SumTo(totals, b - 1)

Offset(d, i, F) ==
  IF i \in Statics(d) THEN unit[i]
  ELSE IF i \in Smalls(d)
  THEN BucketBase(d, BucketOf(d, i), F) + (bin[i] - 1) * BinSize(i, F)
  ELSE SlabBase(d, slab[GroupOf(d, i)], F) + unit[i] * Factor(i, F)

\* The size operand of the domain's hip.get_pool.
PoolSize(d, F) == BucketBase(d, NumAllocs + 1, F)

DomainOf(i) == CHOOSE d \in DOMAIN domains : slot[i] \in domains[d]
-----------------------------------------------------------------------------
TypeOK ==
  /\ kind \in [Allocs -> Kinds] /\ lastUse \in [Allocs -> Uses]
  /\ dimAt \in [Dims -> {0} \cup Uses] /\ lifetimeOnly \in BOOLEAN
  /\ slot \in [Allocs -> Allocs \cup {None}] /\ slotLast \in [Allocs -> {0} \cup Uses]
  /\ DOMAIN domains \subseteq Allocs
  /\ \A d \in DOMAIN domains : domains[d] \in SUBSET Kept /\ domains[d] # {}
  /\ unit \in [Allocs -> Nat]
  /\ bin \in [Allocs -> 0 .. NumAllocs] /\ slab \in [Allocs -> 0 .. NumAllocs]
  /\ packed \in SUBSET Kept

\* Two buffers of the source function that are alive at the same time, however
\* they were folded, grouped and packed, lie in different pools or on disjoint
\* bytes, whatever the dynamic dimensions turn out to be.
LiveBuffersDisjoint ==
  Done => \A F \in [Dims -> Factors] : \A i, j \in Allocs :
    (i < j /\ DefIndex(j) <= lastUse[i]) =>
      LET d == DomainOf(i)
          a == Offset(d, slot[i], F)
          b == Offset(d, slot[j], F)
      IN \/ d # DomainOf(j)
         \/ a + Bytes(i, F) <= b
         \/ b + Bytes(j, F) <= a

\* Every buffer is aligned and lies inside the pool size its domain asks
\* hip.get_pool for, also when slabs share their width among groups with
\* different runtime factors.
WithinPool ==
  Done => \A F \in [Dims -> Factors] : \A i \in Allocs :
    LET d == DomainOf(i)
        a == Offset(d, slot[i], F)
    IN a % Align = 0 /\ a + Bytes(i, F) <= PoolSize(d, F)

\* Every domain has a place for its hip.get_pool, behind all of its size
\* operands and before all of its allocations, and domains follow each other in
\* the program: an allocation that fits any domain fits the newest one, so
\* searching the older ones (partitionByDominanceDomain) never finds more.
DomainsInOrder ==
  /\ \A d \in DOMAIN domains : Feasible(domains[d])
  /\ \A d, e \in DOMAIN domains : d < e =>
       \A i \in domains[d], j \in domains[e] : i < j
=============================================================================
