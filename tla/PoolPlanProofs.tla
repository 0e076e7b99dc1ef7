---------------------------- MODULE PoolPlanProofs ----------------------------
(***************************************************************************)
(* Proofs about the memory plan of a function, for every number of         *)
(* allocations, every kind, alignment and value of the dynamic dimensions, *)
(* with and without lifetime-only.                                         *)
(*                                                                         *)
(* PlanInv is inductive.  ReuseInv says what hip-optimize-memrefs has done *)
(* so far: a folded buffer fits its slot, and the tenants of a slot follow *)
(* each other.  DomainsInv says that the domains are runs of the program,  *)
(* PackInv that allocations which are alive together have different units  *)
(* or bins, and that groups in one slab never are alive together.          *)
(*                                                                         *)
(* When a domain is packed, the pool is shown to be a stack: the static    *)
(* allocations, the slabs, the buckets, each as wide as what lies in it.   *)
(* Units times a common factor are bytes, so what has different units has  *)
(* different bytes for every value of the factor.                          *)
(***************************************************************************)
EXTENDS PoolPlan, FiniteSetFacts, SequenceTheorems, TLAPS

(***************************************************************************)
(* Rounding up, multiples of the alignment, products.                      *)
(***************************************************************************)
Aligned(n) == n % Align = 0

LEMMA MulMono ==
  ASSUME NEW a \in Nat, NEW b \in Nat, NEW c \in Nat, a <= b
  PROVE  a * c <= b * c /\ a * c \in Nat /\ b * c \in Nat
OBVIOUS

LEMMA AlignedIff ==
  ASSUME NEW n \in Nat
  PROVE  Aligned(n) <=> \E k \in Nat : n = k * Align
<1>1. ASSUME Aligned(n) PROVE n = (n \div Align) * Align /\ n \div Align \in Nat
  BY <1>1, PlanAssumption DEF Aligned
<1>2. ASSUME NEW k \in Nat, n = k * Align PROVE Aligned(n)
  BY <1>2, PlanAssumption DEF Aligned
<1> QED
  BY <1>1, <1>2

LEMMA AlignedSum ==
  ASSUME NEW a \in Nat, NEW b \in Nat, Aligned(a), Aligned(b)
  PROVE  Aligned(a + b)
<1>1. PICK k \in Nat : a = k * Align
  BY AlignedIff
<1>2. PICK l \in Nat : b = l * Align
  BY AlignedIff
<1>3. a + b = (k + l) * Align
  BY <1>1, <1>2, PlanAssumption
<1> QED
  BY <1>3, AlignedIff

LEMMA AlignedProduct ==
  ASSUME NEW a \in Nat, NEW c \in Nat, Aligned(a)
  PROVE  Aligned(a * c) /\ Aligned(c * a)
<1>1. PICK k \in Nat : a = k * Align
  BY AlignedIff
<1>2. a * c = (k * c) * Align /\ c * a = (k * c) * Align /\ k * c \in Nat
  BY <1>1, PlanAssumption
<1> QED
  BY <1>2, AlignedIff

LEMMA AlignedZero == Aligned(0) /\ AlignUp(0) = 0
BY PlanAssumption DEF Aligned, AlignUp

LEMMA AlignUpIs ==
  ASSUME NEW n \in Nat
  PROVE  AlignUp(n) \in Nat /\ n <= AlignUp(n) /\ Aligned(AlignUp(n))
<1>1. AlignUp(n) \in Nat /\ n <= AlignUp(n)
  BY PlanAssumption DEF AlignUp
<1>2. Aligned(AlignUp(n))
  BY PlanAssumption DEF AlignUp, Aligned
<1> QED
  BY <1>1, <1>2

(***************************************************************************)
(* The largest of finitely many numbers, one per allocation.               *)
(***************************************************************************)
LEMMA AllocsFinite ==
  ASSUME NEW S \in SUBSET Allocs
  PROVE  IsFiniteSet(S) /\ S \in SUBSET Nat
<1>1. IsFiniteSet(Allocs)
  BY PlanAssumption, FS_Interval DEF Allocs
<1>2. IsFiniteSet(S)
  <2> HIDE DEF Allocs
  <2> QED
    BY <1>1, FS_Subset
<1>3. Allocs \subseteq Nat
  BY PlanAssumption DEF Allocs
<1> QED
  BY <1>2, <1>3

LEMMA MaxOf ==
  ASSUME NEW S \in SUBSET Allocs, S # {}, NEW f, \A i \in S : f[i] \in Nat
  PROVE  /\ Max({f[i] : i \in S}) \in Nat
         /\ \E i \in S : Max({f[i_1] : i_1 \in S}) = f[i]
         /\ \A i \in S : f[i] <= Max({f[i_1] : i_1 \in S})
<1> DEFINE T == {f[i] : i \in S}
<1>1. IsFiniteSet(T)
  BY AllocsFinite, FiniteImage
<1>2. T \in SUBSET Nat /\ T # {}
  OBVIOUS
<1>3. Max(T) \in T /\ \A x \in T : x <= Max(T)
  <2> HIDE DEF T
  <2> QED
    BY <1>1, <1>2, MaxOfNats
<1> QED
  BY <1>2, <1>3

LEMMA MaxOrZero ==
  ASSUME NEW S \in SUBSET Allocs, NEW f, \A i \in S : f[i] \in Nat
  PROVE  /\ Max({0} \cup {f[i] : i \in S}) \in Nat
         /\ \/ Max({0} \cup {f[i] : i \in S}) = 0
            \/ \E i \in S : Max({0} \cup {f[i_1] : i_1 \in S}) = f[i]
         /\ \A i \in S : f[i] <= Max({0} \cup {f[i_1] : i_1 \in S})
         /\ S = {} => Max({0} \cup {f[i] : i \in S}) = 0
<1> DEFINE T == {0} \cup {f[i] : i \in S}
<1>1. IsFiniteSet(T)
  <2>1. IsFiniteSet({f[i] : i \in S})
    BY AllocsFinite, FiniteImage
  <2> QED
    BY <2>1, FS_Singleton, FS_Union
<1>2. T \in SUBSET Nat /\ T # {}
  OBVIOUS
<1>3. Max(T) \in T /\ \A x \in T : x <= Max(T)
  <2> HIDE DEF T
  <2> QED
    BY <1>1, <1>2, MaxOfNats
<1> QED
  BY <1>2, <1>3

\* Fewer allocations than there are leave a number that none of them has.
LEMMA SpareNumber ==
  ASSUME NEW S \in SUBSET Allocs, S # Allocs, NEW f
  PROVE  \E n \in Allocs : \A i \in S : f[i] # n
<1> DEFINE T == {f[i] : i \in S}
           g == [i \in S |-> f[i]]
<1> SUFFICES ASSUME Allocs \subseteq T PROVE FALSE
  OBVIOUS
<1>1. IsFiniteSet(S) /\ IsFiniteSet(Allocs)
  BY AllocsFinite
<1>2. g \in Surjection(S, T)
  BY DEF Surjection
<1>3. IsFiniteSet(T) /\ Cardinality(T) <= Cardinality(S)
  <2> HIDE DEF T, g
  <2> QED
    BY <1>1, <1>2, FS_Surjection
<1>4. Cardinality(Allocs) <= Cardinality(T)
  <2> HIDE DEF T
  <2> QED
    BY <1>3, FS_Subset
<1>5. Cardinality(S) <= Cardinality(Allocs) /\ Cardinality(S) # Cardinality(Allocs)
  BY <1>1, FS_Subset
<1>6. /\ Cardinality(S) \in Nat /\ Cardinality(Allocs) \in Nat
      /\ Cardinality(T) \in Nat
  <2> HIDE DEF T
  <2> QED
    BY <1>1, <1>3, FS_CardinalityType
<1> QED
  BY <1>3, <1>4, <1>5, <1>6

(***************************************************************************)
(* The sums of the emitted arithmetic.                                     *)
(***************************************************************************)
LEMMA SumsUp ==
  ASSUME NEW w, \A i \in Allocs : w[i] \in Nat
  PROVE  /\ SumTo(w, 0) = 0
         /\ \A n \in 0 .. NumAllocs : SumTo(w, n) \in Nat
         /\ \A n \in Allocs : SumTo(w, n) = SumTo(w, n - 1) + w[n]
<1> DEFINE f == [a \in 0 .. NumAllocs - 1 |-> w[a + 1]]
           N == NumAllocs
<1>0. N \in Nat /\ Allocs = 1 .. N
  BY PlanAssumption DEF Allocs
<1>1. \A a \in 0 .. N - 1 : f[a] \in Nat /\ f[a] \in Int
  BY <1>0
<1>2. PICK g : Adds(g, f, N)
  <2> HIDE DEF f
  <2> QED
    BY <1>0, <1>1, SumExists
<1>3. \A n \in 0 .. N : g[n] \in Nat
  <2> HIDE DEF f
  <2> QED
    BY <1>0, <1>1, <1>2, SumIsInt
<1>4. g = [k \in 0 .. N |-> IF k = 0 THEN 0 ELSE g[k - 1] + w[k]]
  <2>1. \A k \in 0 .. N : k # 0 => f[k - 1] = w[k]
    BY <1>0
  <2> QED
    BY <1>2, <2>1 DEF Adds
<1> DEFINE Sum == CHOOSE s : s = [k \in 0 .. N |-> IF k = 0 THEN 0 ELSE s[k - 1] + w[k]]
<1>5. Sum = [k \in 0 .. N |-> IF k = 0 THEN 0 ELSE Sum[k - 1] + w[k]]
  BY <1>4
<1>6. \A n : SumTo(w, n) = Sum[n]
  BY DEF SumTo
<1>7. Adds(Sum, f, N)
  <2>1. \A k \in 0 .. N : k # 0 => f[k - 1] = w[k]
    BY <1>0
  <2> HIDE DEF Sum, f
  <2> QED
    BY <1>5, <2>1 DEF Adds
<1>8. \A n \in 0 .. N : Sum[n] \in Nat
  <2> HIDE DEF Sum, f
  <2> QED
    BY <1>0, <1>1, <1>7, SumIsInt
<1>9. Sum[0] = 0 /\ \A n \in 1 .. N : Sum[n] = Sum[n - 1] + w[n]
  <2> HIDE DEF Sum
  <2> QED
    BY <1>0, <1>5
<1> HIDE DEF Sum
<1> QED
  BY <1>0, <1>6, <1>8, <1>9

\* Longer sums are not smaller, and as aligned as what they add.
LEMMA SumsGrow ==
  ASSUME NEW w, \A i \in Allocs : w[i] \in Nat,
         NEW m \in 0 .. NumAllocs, NEW n \in 0 .. NumAllocs, m <= n
  PROVE  SumTo(w, m) <= SumTo(w, n)
<1> DEFINE Bad == {k \in m .. NumAllocs : ~(SumTo(w, m) <= SumTo(w, k))}
<1>0. /\ NumAllocs \in Nat /\ Allocs = 1 .. NumAllocs
      /\ \A k \in 0 .. NumAllocs : SumTo(w, k) \in Nat
      /\ \A k \in 1 .. NumAllocs : SumTo(w, k) = SumTo(w, k - 1) + w[k]
  BY SumsUp, PlanAssumption DEF Allocs
<1>1. Bad = {}
  <2> SUFFICES ASSUME Bad # {} PROVE FALSE
    OBVIOUS
  <2>0. Bad \in SUBSET Nat
    BY <1>0
  <2>1. PICK k \in Bad : \A j \in Bad : k <= j
    <3> HIDE DEF Bad
    <3> QED
      BY <2>0, LeastNat
  <2>2. k # m /\ k \in 1 .. NumAllocs
    BY <1>0, <2>1
  <2>3. k - 1 \in m .. NumAllocs /\ k - 1 \notin Bad
    BY <1>0, <2>1, <2>2
  <2>4. SumTo(w, m) <= SumTo(w, k - 1) /\ k - 1 \in 0 .. NumAllocs
    BY <2>3, <2>2, <1>0
  <2>5. SumTo(w, k) = SumTo(w, k - 1) + w[k] /\ w[k] \in Nat
    BY <1>0, <2>2
  <2>6. SumTo(w, m) \in Nat /\ SumTo(w, k - 1) \in Nat /\ SumTo(w, k) \in Nat
    BY <1>0, <2>2, <2>4
  <2>7. ~(SumTo(w, m) <= SumTo(w, k))
    BY <2>1
  <2> QED
    BY <2>4, <2>5, <2>6, <2>7
<1>2. n \in m .. NumAllocs
  BY <1>0
<1> QED
  BY <1>1, <1>2

LEMMA SumsAligned ==
  ASSUME NEW w, \A i \in Allocs : w[i] \in Nat /\ Aligned(w[i])
  PROVE  \A n \in 0 .. NumAllocs : Aligned(SumTo(w, n))
<1> DEFINE Bad == {k \in 0 .. NumAllocs : ~Aligned(SumTo(w, k))}
<1>0. /\ NumAllocs \in Nat /\ Allocs = 1 .. NumAllocs
      /\ SumTo(w, 0) = 0
      /\ \A k \in 0 .. NumAllocs : SumTo(w, k) \in Nat
      /\ \A k \in 1 .. NumAllocs : SumTo(w, k) = SumTo(w, k - 1) + w[k]
  BY SumsUp, PlanAssumption DEF Allocs
<1>1. Bad = {}
  <2> SUFFICES ASSUME Bad # {} PROVE FALSE
    OBVIOUS
  <2>0. Bad \in SUBSET Nat
    BY <1>0
  <2>1. PICK k \in Bad : \A j \in Bad : k <= j
    <3> HIDE DEF Bad
    <3> QED
      BY <2>0, LeastNat
  <2>2. k \in 1 .. NumAllocs
    BY <1>0, <2>1, AlignedZero
  <2>3. k - 1 \in 0 .. NumAllocs /\ k - 1 \notin Bad
    BY <1>0, <2>1, <2>2
  <2>4. Aligned(SumTo(w, k - 1) + w[k])
    BY <1>0, <2>2, <2>3, AlignedSum
  <2> QED
    BY <1>0, <2>1, <2>2, <2>4
<1> QED
  BY <1>1

(***************************************************************************)
(* The function that is planned, and its operators.                        *)
(***************************************************************************)
ProgramInv ==
  /\ kind \in [Allocs -> Kinds] /\ lastUse \in [Allocs -> Uses]
  /\ dimAt \in [Dims -> {0} \cup Uses] /\ lifetimeOnly \in BOOLEAN
  /\ \A i \in Allocs : DefIndex(i) < lastUse[i]
  /\ \A i \in Allocs : kind[i].dim \in Dims => dimAt[kind[i].dim] < DefIndex(i)

LEMMA AllocsAre == /\ NumAllocs \in Nat /\ Allocs \subseteq Nat \ {0}
                   /\ \A i \in Allocs : i <= NumAllocs /\ DefIndex(i) \in Nat \ {0}
                   /\ Uses \subseteq Nat
BY PlanAssumption DEF Allocs, DefIndex, Uses

LEMMA KindsAre ==
  ASSUME kind \in [Allocs -> Kinds], NEW i \in Allocs
  PROVE  /\ kind[i] \in Kinds /\ kind[i].bytes \in Nat /\ StaticByteSize(i) \in Nat
         /\ kind[i].dim = Static \/ kind[i].dim \in Dims
         /\ Size(i) \in Nat /\ kind[i].bytes <= Size(i) /\ Aligned(Size(i))
<1>1. /\ kind[i] \in Kinds /\ kind[i].bytes \in Nat
      /\ kind[i].dim = Static \/ kind[i].dim \in Dims
  BY PlanAssumption
<1> QED
  BY <1>1, AlignUpIs DEF Size, StaticByteSize

\* A domain has a place for its pool if every size of its allocations is
\* computed before any of the allocations.
LEMMA FeasibleMeans ==
  ASSUME ProgramInv, NEW S \in SUBSET Allocs, S # {}
  PROVE  Feasible(S) <=> \A i, j \in S : kind[j].dim # Static =>
                                           dimAt[kind[j].dim] < DefIndex(i)
<1> DEFINE D == {j \in S : kind[j].dim # Static}
           f == [j \in Allocs |-> dimAt[kind[j].dim]]
           L == {DefIndex(i) : i \in S}
           M == Max({0} \cup {f[j] : j \in D})
<1>1. \A j \in D : f[j] \in Nat /\ f[j] = dimAt[kind[j].dim]
  <2> SUFFICES ASSUME NEW j \in D PROVE dimAt[kind[j].dim] \in Nat
    OBVIOUS
  <2>1. kind[j].dim \in Dims
    BY KindsAre DEF ProgramInv
  <2>2. dimAt[kind[j].dim] \in {0} \cup Uses
    BY <2>1 DEF ProgramInv
  <2>3. {0} \cup Uses \subseteq Nat
    BY AllocsAre
  <2> QED
    BY <2>2, <2>3
<1>2. RequiredAfter(S) = {f[j] : j \in D}
  BY DEF RequiredAfter
<1>3. /\ M \in Nat /\ (M = 0 \/ \E j \in D : M = f[j])
      /\ \A j \in D : f[j] <= M
  <2>1. D \in SUBSET Allocs
    OBVIOUS
  <2>2. \A j \in D : f[j] \in Nat
    BY <1>1
  <2> HIDE DEF D, f
  <2>3. M \in Nat /\ \A j \in D : f[j] <= M
    BY <2>1, <2>2, MaxOrZero
  <2>4. M = 0 \/ \E j \in D : M = f[j]
    BY <2>1, <2>2, MaxOrZero
  <2> QED
    BY <2>3, <2>4
<1>4. Min(L) \in L /\ \A x \in L : Min(L) <= x
  <2>1. L \in SUBSET Nat /\ L # {}
    BY AllocsAre
  <2> HIDE DEF L
  <2> QED
    BY <2>1, MinOfNats
<1>5. PICK e \in S : Min(L) = DefIndex(e)
  BY <1>4
<1>6. \A i \in S : DefIndex(e) <= DefIndex(i)
  BY <1>4, <1>5
<1>7. Feasible(S) <=> M < DefIndex(e)
  BY <1>2, <1>5 DEF Feasible
<1>8. \A i \in S : DefIndex(i) \in Nat \ {0}
  BY AllocsAre
<1>9. M < DefIndex(e) <=> \A j \in D : f[j] < DefIndex(e)
  <2> HIDE DEF M, f, D
  <2> QED
    BY <1>1, <1>3, <1>8
<1>10. (\A j \in D : f[j] < DefIndex(e)) <=> \A i \in S, j \in D : f[j] < DefIndex(i)
  <2>1. D \subseteq S
    OBVIOUS
  <2> HIDE DEF M, f, D
  <2> QED
    BY <1>1, <1>6, <1>8
<1>11. (\A i \in S, j \in D : f[j] < DefIndex(i)) <=>
         \A i, j \in S : kind[j].dim # Static => dimAt[kind[j].dim] < DefIndex(i)
  BY <1>1
<1> QED
  BY <1>7, <1>9, <1>10, <1>11

\* What a slot that is taken over offers: the same factor, enough bytes, and a
\* last use that has passed.
Holds(k, l) == k.dim = l.dim /\ l.bytes <= k.bytes

LEMMA ReuseFits ==
  ASSUME kind \in [Allocs -> Kinds], NEW i \in Allocs, NEW s \in Allocs, CanReuse(s, i)
  PROVE  Holds(kind[s], kind[i])
<1>1. CASE StaticByteSize(i) > 0 /\ StaticByteSize(s) >= StaticByteSize(i)
  BY <1>1, KindsAre DEF StaticByteSize, Holds
<1>2. CASE kind[s] = kind[i]
  BY <1>2, KindsAre DEF Holds
<1> QED
  BY <1>1, <1>2 DEF CanReuse

LEMMA BestSlotIs ==
  ASSUME kind \in [Allocs -> Kinds], NEW i \in Allocs, Reusable(i) # {}
  PROVE  BestSlot(i) \in Reusable(i)
<1> DEFINE w == [r \in Allocs |-> StaticByteSize(r) - StaticByteSize(i)]
<1>1. Reusable(i) \subseteq Allocs /\ Reusable(i) \in SUBSET Nat
  BY AllocsAre DEF Reusable, Kept
<1>2. \A s \in Reusable(i) : w[s] \in Nat /\ w[s] = StaticByteSize(s) - StaticByteSize(i)
  <2> SUFFICES ASSUME NEW s \in Reusable(i) PROVE w[s] \in Nat
    BY <1>1
  <2>1. CanReuse(s, i) /\ s \in Allocs
    BY <1>1 DEF Reusable
  <2>2. StaticByteSize(s) \in Nat /\ StaticByteSize(i) \in Nat
    BY <2>1, KindsAre
  <2> QED
    BY <2>1, <2>2 DEF CanReuse
<1>3. PICK t \in Reusable(i) : \A u \in Reusable(i) : w[t] < w[u] \/ (w[t] = w[u] /\ t <= u)
  <2> HIDE DEF w
  <2> QED
    BY <1>1, <1>2, LeastWeight
<1>4. \E s \in Reusable(i) : \A u \in Reusable(i) :
        LET Waste(r) == StaticByteSize(r) - StaticByteSize(i)
        IN Waste(s) < Waste(u) \/ (Waste(s) = Waste(u) /\ s <= u)
  BY <1>2, <1>3
<1> QED
  BY <1>4 DEF BestSlot

(***************************************************************************)
(* Packing: the place chosen is free while the item is alive.              *)
(***************************************************************************)
\* i and j take different units.
Apart(i, j) == End(i) <= unit[j] \/ End(j) <= unit[i]

LEMMA BestFitIs ==
  ASSUME kind \in [Allocs -> Kinds], unit \in [Allocs -> Nat],
         NEW i \in Allocs, NEW placed \in SUBSET Allocs
  PROVE  /\ BestFit(i, placed) \in Nat /\ Aligned(BestFit(i, placed))
         /\ \A j \in placed : LifetimesOverlap(i, j) =>
              BestFit(i, placed) + Size(i) <= unit[j] \/ End(j) <= BestFit(i, placed)
         /\ placed = {} => BestFit(i, placed) = 0
<1> DEFINE Live == {j \in placed : LifetimesOverlap(i, j)}
           Below(top) == {k \in Live : unit[k] < top}
           Floor(top) == AlignUp(Max({0} \cup {End(j) : j \in Below(top)}))
           Gaps == {top \in {unit[j] : j \in Live} : Floor(top) + Size(i) <= top}
           Tighter(t, u) == \/ t - Floor(t) < u - Floor(u)
                            \/ t - Floor(t) = u - Floor(u) /\ t <= u
           Last == AlignUp(Max({0} \cup {End(j) : j \in Live}))
           best == CHOOSE t \in Gaps : \A u \in Gaps : Tighter(t, u)
<1>0. BestFit(i, placed) = IF Gaps # {} THEN Floor(best) ELSE Last
  BY DEF BestFit
<1> DEFINE ends == [j \in Allocs |-> End(j)]
<1>1. \A j \in Allocs : ends[j] \in Nat /\ ends[j] = End(j) /\ unit[j] \in Nat /\ Size(j) \in Nat
  BY KindsAre DEF End
<1>2. ASSUME NEW S \in SUBSET Allocs
      PROVE  LET M == Max({0} \cup {End(j) : j \in S})
             IN /\ AlignUp(M) \in Nat /\ Aligned(AlignUp(M))
                /\ \A j \in S : End(j) <= AlignUp(M)
                /\ S = {} => AlignUp(M) = 0
  <2> DEFINE M == Max({0} \cup {ends[j] : j \in S})
  <2>1. {End(j) : j \in S} = {ends[j] : j \in S}
    BY <1>1
  <2>2. M \in Nat /\ (\A j \in S : ends[j] <= M) /\ (S = {} => M = 0)
    <3> HIDE DEF ends
    <3> QED
      BY <1>1, MaxOrZero
  <2>3. AlignUp(M) \in Nat /\ Aligned(AlignUp(M)) /\ M <= AlignUp(M)
    <3> HIDE DEF M
    <3> QED
      BY <2>2, AlignUpIs
  <2>4. S = {} => AlignUp(M) = 0
    <3> HIDE DEF M
    <3> QED
      BY <2>2, AlignedZero
  <2>5. \A j \in S : End(j) <= AlignUp(M)
    <3> SUFFICES ASSUME NEW j \in S PROVE End(j) <= AlignUp(M)
      OBVIOUS
    <3>1. ends[j] = End(j) /\ ends[j] \in Nat /\ ends[j] <= M
      BY <1>1, <2>2
    <3> HIDE DEF M, ends
    <3> QED
      BY <2>2, <2>3, <3>1
  <2> QED
    BY <2>1, <2>3, <2>4, <2>5
<1>3. Live \in SUBSET Allocs /\ \A top : Below(top) \in SUBSET Allocs
  OBVIOUS
<1>4. \A top : /\ Floor(top) \in Nat /\ Aligned(Floor(top))
               /\ \A j \in Below(top) : End(j) <= Floor(top)
  <2> SUFFICES ASSUME NEW top
               PROVE  /\ Floor(top) \in Nat /\ Aligned(Floor(top))
                      /\ \A j \in Below(top) : End(j) <= Floor(top)
    OBVIOUS
  <2> HIDE DEF Below
  <2> QED
    BY <1>2, <1>3
<1>5. /\ Last \in Nat /\ Aligned(Last)
      /\ \A j \in Live : End(j) <= Last
      /\ Live = {} => Last = 0
  <2> HIDE DEF Live
  <2> QED
    BY <1>2, <1>3
<1>6. CASE Gaps = {}
  BY <1>0, <1>5, <1>6
<1>7. CASE Gaps # {}
  <2> DEFINE w == [t \in Gaps |-> t - Floor(t)]
  <2>1. Gaps \in SUBSET Nat
    BY <1>1
  <2>2. \A t \in Gaps : w[t] \in Nat /\ w[t] = t - Floor(t)
    <3> SUFFICES ASSUME NEW t \in Gaps PROVE t - Floor(t) \in Nat
      OBVIOUS
    <3>1. t \in Nat /\ Floor(t) \in Nat /\ Size(i) \in Nat /\ Floor(t) + Size(i) <= t
      BY <1>1, <1>4, <2>1
    <3> HIDE DEF Floor
    <3> QED
      BY <3>1
  <2>3. \E t \in Gaps : \A u \in Gaps : Tighter(t, u)
    <3>1. \E t \in Gaps : \A u \in Gaps : w[t] < w[u] \/ (w[t] = w[u] /\ t <= u)
      <4> HIDE DEF w, Gaps
      <4> QED
        BY <1>7, <2>1, <2>2, LeastWeight
    <3> HIDE DEF w, Gaps, Floor
    <3> QED
      BY <2>2, <3>1
  <2>4. best \in Gaps
    <3> HIDE DEF Tighter, Gaps
    <3> QED
      BY <2>3
  <2>5. PICK j0 \in Live : best = unit[j0] /\ Floor(best) + Size(i) <= best
    <3> HIDE DEF best, Floor
    <3> QED
      BY <2>4
  <2>6. BestFit(i, placed) = Floor(best)
    BY <1>0, <1>7
  <2> HIDE DEF best
  <2>7. ASSUME NEW j \in placed, LifetimesOverlap(i, j)
        PROVE  Floor(best) + Size(i) <= unit[j] \/ End(j) <= Floor(best)
    <3>1. CASE unit[j] < best
      <4>1. j \in Below(best)
        BY <2>7, <3>1
      <4> QED
        BY <1>4, <4>1
    <3>2. CASE ~(unit[j] < best)
      <4>1. unit[j] \in Nat /\ unit[j0] \in Nat /\ Size(i) \in Nat /\ Floor(best) \in Nat
        BY <1>1, <1>4, <2>5
      <4> HIDE DEF Floor
      <4> QED
        BY <2>5, <3>2, <4>1
    <3> QED
      BY <3>1, <3>2
  <2>8. placed # {}
    BY <1>7
  <2> QED
    BY <1>4, <2>6, <2>7, <2>8
<1> QED
  BY <1>6, <1>7

(***************************************************************************)
(* The inductive invariant.                                                *)
(***************************************************************************)
\* hip-optimize-memrefs: the walk has reached a point, every buffer before it
\* is folded into one that holds it, and the tenants of a slot follow each other.
ReuseInv ==
  /\ slot \in [Allocs -> Allocs \cup {None}] /\ slotLast \in [Allocs -> {0} \cup Uses]
  /\ \A i, j \in Allocs : i < j /\ slot[j] # None => slot[i] # None
  /\ \A i \in Allocs : slot[i] # None =>
       /\ slot[slot[i]] = slot[i] /\ slot[i] <= i /\ Holds(kind[slot[i]], kind[i])
       /\ lastUse[i] <= slotLast[slot[i]]
  /\ \A i, j \in Allocs :
       i < j /\ slot[i] # None /\ slot[i] = slot[j] => lastUse[i] < DefIndex(j)

AllWalked == \A i \in Allocs : slot[i] # None

\* The partition has reached a point too.
DomainsInv ==
  /\ domains \in Seq(SUBSET Allocs)
  /\ domains # <<>> => AllWalked
  /\ \A d \in DOMAIN domains : /\ domains[d] \subseteq Kept /\ domains[d] # {}
                               /\ \A i \in domains[d] : d <= i
  /\ DomainsInOrder
  /\ \A i \in Partitioned, j \in Kept \ Partitioned : i < j

\* Allocations whose units are measured from one base.
Alike(d, i, j) == \/ i \in Statics(d) /\ j \in Statics(d)
                  \/ i \in Grouped(d) /\ j \in Grouped(d) /\ GroupOf(d, i) = GroupOf(d, j)

\* What is alive at the same time has different units or different bins, and
\* groups in one slab never are.
Packing(d) ==
  /\ \A i \in Smalls(d) \cap packed : bin[i] # 0
  /\ \A i \in Grouped(d) \cap packed : lifetimeOnly => unit[i] = 0
  /\ \A i, j \in domains[d] \cap packed : i # j /\ LifetimesOverlap(i, j) =>
       /\ Alike(d, i, j) => Apart(i, j)
       /\ i \in Smalls(d) /\ j \in Smalls(d) /\ kind[i] = kind[j] => bin[i] # bin[j]
  /\ \A g, h \in Groups(d) :
       g # h /\ slab[g] = slab[h] /\ slab[g] # 0 => GroupsDisjoint(d, g, h)

PackInv ==
  /\ unit \in [Allocs -> Nat] /\ bin \in [Allocs -> 0 .. NumAllocs]
  /\ slab \in [Allocs -> 0 .. NumAllocs] /\ packed \in SUBSET Partitioned
  /\ ~Planned => packed = {} /\ \A i \in Allocs : slab[i] = 0
  /\ \A i \in Allocs : Aligned(unit[i])
  /\ \A d \in DOMAIN domains : Packing(d)

PlanInv == ProgramInv /\ ReuseInv /\ DomainsInv /\ PackInv

LEMMA InitHolds == Init => PlanInv
<1> SUFFICES ASSUME Init PROVE PlanInv
  OBVIOUS
<1>0. NumAllocs \in Nat /\ Allocs \subseteq Nat \ {0} /\ Aligned(0)
  BY AllocsAre, AlignedZero
<1>1. ProgramInv
  BY DEF Init, ProgramInv
<1>2. ReuseInv
  BY DEF Init, ReuseInv, None
<1>3. DomainsInv
  BY DEF Init, DomainsInv, DomainsInOrder, Partitioned
<1>4. PackInv
  BY <1>0 DEF Init, PackInv
<1> QED
  BY <1>1, <1>2, <1>3, <1>4 DEF PlanInv

\* One allocation is walked: it is kept, or it moves into a dead slot.
LEMMA AssignSlotReuses ==
  ASSUME PlanInv, AssignSlot
  PROVE  ReuseInv'
<1> DEFINE W == {i \in Allocs : slot[i] # None}
           first == Min(Allocs \ W)
           taken == IF Reusable(first) = {} THEN first ELSE BestSlot(first)
<1>1. /\ W # Allocs
      /\ slot' = [slot EXCEPT ![first] = taken]
      /\ slotLast' = [slotLast EXCEPT ![taken] = lastUse[first]]
      /\ kind' = kind /\ lastUse' = lastUse
  BY DEF AssignSlot, program
<1>2. first \in Allocs /\ slot[first] = None /\ \A i \in Allocs : slot[i] = None => first <= i
  <2>1. Allocs \ W \in SUBSET Nat /\ Allocs \ W # {}
    BY <1>1, AllocsAre
  <2>2. first \in Allocs \ W /\ \A i \in Allocs \ W : first <= i
    <3> HIDE DEF W
    <3> QED
      BY <2>1, MinOfNats
  <2> QED
    BY <2>2
<1>3. \/ taken = first
      \/ taken \in Allocs /\ slot[taken] = taken /\ slotLast[taken] < DefIndex(first) /\ Holds(kind[taken], kind[first])
  <2>1. CASE Reusable(first) = {}
    BY <2>1
  <2>2. CASE Reusable(first) # {}
    <3>1. taken \in Reusable(first)
      <4>1. kind \in [Allocs -> Kinds]
        BY DEF PlanInv, ProgramInv
      <4> HIDE DEF first
      <4> QED
        BY <1>2, <2>2, <4>1, BestSlotIs
    <3>2. taken \in Allocs /\ slot[taken] = taken /\ slotLast[taken] < DefIndex(first) /\ CanReuse(taken, first)
      <4> HIDE DEF first, taken
      <4> QED
        BY <3>1 DEF Reusable, Kept
    <3>3. Holds(kind[taken], kind[first])
      <4>1. kind \in [Allocs -> Kinds]
        BY DEF PlanInv, ProgramInv
      <4> HIDE DEF first, taken
      <4> QED
        BY <1>2, <3>2, <4>1, ReuseFits
    <3> QED
      BY <3>2, <3>3
  <2> QED
    BY <2>1, <2>2
<1> HIDE DEF first, taken, W
<1>names. PICK n \in Allocs, s \in Allocs : n = first /\ s = taken
  BY <1>2, <1>3
<1>step. /\ slot' = [slot EXCEPT ![n] = s]
         /\ slotLast' = [slotLast EXCEPT ![s] = lastUse[n]]
         /\ kind' = kind /\ lastUse' = lastUse
         /\ slot[n] = None /\ \A i \in Allocs : slot[i] = None => n <= i
         /\ s # n => /\ slot[s] = s /\ slotLast[s] < DefIndex(n)
                    /\ Holds(kind[s], kind[n])
  BY <1>1, <1>2, <1>3, <1>names
<1>4. /\ slot \in [Allocs -> Allocs \cup {None}] /\ slotLast \in [Allocs -> {0} \cup Uses]
      /\ lastUse \in [Allocs -> Uses] /\ kind \in [Allocs -> Kinds]
      /\ \A i \in Allocs : DefIndex(i) < lastUse[i]
  BY DEF PlanInv, ProgramInv, ReuseInv
<1>5. Allocs \subseteq Nat \ {0} /\ Uses \subseteq Nat
  BY AllocsAre
<1>6. s \in Allocs /\ s <= n /\ Holds(kind[s], kind[n]) /\ (s # n => slot[s] = s)
  <2>1. Holds(kind[n], kind[n])
    BY <1>step, <1>4, KindsAre DEF Holds
  <2>2. ASSUME s # n PROVE s <= n
    <3>1. s \in Allocs /\ slot[s] # None
      BY <1>step, <1>5, <2>2 DEF None
    <3>2. ~(n < s)
      BY <1>step, <3>1 DEF PlanInv, ReuseInv
    <3> QED
      BY <1>step, <1>5, <3>1, <3>2
  <2> QED
    BY <1>step, <1>5, <2>1, <2>2
<1>7. slot'[n] = s /\ s # None /\ \A i \in Allocs : i # n => slot'[i] = slot[i]
  BY <1>step, <1>4, <1>5, <1>6 DEF None
<1>8. /\ slotLast'[s] = lastUse[n]
      /\ \A i \in Allocs : i # s => slotLast'[i] = slotLast[i]
  BY <1>step, <1>4, <1>6
<1>9. slot'[s] = s
  BY <1>6, <1>7
<1>10. \A i \in Allocs : slot'[i] # None => i = n \/ (slot[i] # None /\ i < n)
  <2> SUFFICES ASSUME NEW i \in Allocs, slot'[i] # None, i # n
               PROVE  slot[i] # None /\ i < n
    OBVIOUS
  <2>1. slot[i] # None
    BY <1>7
  <2>2. ~(n < i)
    BY <1>step, <2>1 DEF PlanInv, ReuseInv
  <2> QED
    BY <1>step, <1>5, <2>1, <2>2
<1>11. ASSUME NEW i \in Allocs, slot[i] # None, i # n
       PROVE  /\ slot[i] \in Allocs /\ slot[slot[i]] = slot[i] /\ slot[i] # n
              /\ lastUse[i] <= slotLast[slot[i]]
              /\ slot[i] <= i /\ Holds(kind[slot[i]], kind[i])
  <2>1. /\ slot[i] \in Allocs /\ slot[slot[i]] = slot[i] /\ slot[i] <= i
        /\ Holds(kind[slot[i]], kind[i]) /\ lastUse[i] <= slotLast[slot[i]]
    BY <1>4, <1>11 DEF PlanInv, ReuseInv
  <2>2. slot[i] # n
    BY <1>step, <1>5, <2>1 DEF None
  <2> QED
    BY <2>1, <2>2
<1>12. slot' \in [Allocs -> Allocs \cup {None}] /\ slotLast' \in [Allocs -> {0} \cup Uses]
  BY <1>step, <1>4, <1>6
<1>13. ASSUME NEW i \in Allocs, NEW j \in Allocs, i < j, slot'[j] # None
       PROVE  slot'[i] # None
  <2>1. CASE i = n
    BY <1>7, <2>1
  <2>2. CASE i # n
    <3>1. CASE j = n
      BY <1>step, <1>5, <1>7, <1>13, <2>2, <3>1
    <3>2. CASE j # n
      <4>1. slot[j] # None
        BY <1>7, <1>13, <3>2
      <4>2. slot[i] # None
        BY <1>13, <4>1 DEF PlanInv, ReuseInv
      <4> QED
        BY <1>7, <2>2, <4>2
    <3> QED
      BY <3>1, <3>2
  <2> QED
    BY <2>1, <2>2
<1>14. ASSUME NEW i \in Allocs, slot'[i] # None
       PROVE  /\ slot'[slot'[i]] = slot'[i] /\ slot'[i] <= i /\ Holds(kind[slot'[i]], kind[i])
              /\ lastUse'[i] <= slotLast'[slot'[i]]
  <2>1. CASE i = n
    <3>1. slot'[i] = s /\ Holds(kind[s], kind[n])
      BY <1>step, <1>6, <1>7, <2>1 DEF Holds
    <3>2. lastUse[n] \in Nat
      BY <1>step, <1>4, <1>5
    <3>3. slot'[slot'[i]] = slot'[i] /\ slot'[i] <= i
      BY <1>6, <1>9, <2>1, <3>1
    <3>4. lastUse'[i] <= slotLast'[slot'[i]]
      BY <1>step, <1>8, <2>1, <3>1, <3>2
    <3>5. Holds(kind[slot'[i]], kind[i])
      BY <1>step, <1>6, <2>1, <3>1 DEF Holds
    <3> QED
      BY <3>3, <3>4, <3>5
  <2>2. CASE i # n
    <3>1. slot'[i] = slot[i] /\ slot[i] # None
      BY <1>7, <1>14, <2>2
    <3>2. /\ slot[i] \in Allocs /\ slot[slot[i]] = slot[i] /\ slot[i] # n
          /\ lastUse[i] <= slotLast[slot[i]] /\ slot[i] <= i /\ Holds(kind[slot[i]], kind[i])
      BY <1>11, <2>2, <3>1
    <3>3. slot'[slot'[i]] = slot'[i] /\ slot'[i] <= i /\ Holds(kind[slot'[i]], kind[i])
      BY <1>step, <1>7, <3>1, <3>2 DEF Holds
    <3>4. CASE slot[i] # s
      BY <1>step, <1>8, <3>1, <3>2, <3>3, <3>4
    <3>5. CASE slot[i] = s
      <4>1. slotLast[s] < DefIndex(n) /\ slotLast[s] \in Nat
        <5>1. {0} \cup Uses \subseteq Nat
          BY <1>5
        <5>2. slotLast[s] \in Nat
          BY <1>4, <1>6, <5>1
        <5> QED
          BY <1>step, <3>2, <3>5, <5>2
      <4>2. lastUse[i] \in Nat /\ lastUse[n] \in Nat /\ DefIndex(n) \in Nat
        BY <1>step, <1>4, <1>5, AllocsAre
      <4>3. DefIndex(n) < lastUse[n]
        BY <1>step, <1>4
      <4>4. lastUse[i] <= lastUse[n]
        BY <3>2, <3>5, <4>1, <4>2, <4>3
      <4> QED
        BY <1>step, <1>8, <3>1, <3>3, <3>5, <4>4
    <3> QED
      BY <3>4, <3>5
  <2> QED
    BY <2>1, <2>2
<1>15. ASSUME NEW i \in Allocs, NEW j \in Allocs, i < j, slot'[i] # None,
              slot'[i] = slot'[j]
       PROVE  lastUse'[i] < DefIndex(j)
  <2>1. slot'[j] # None
    BY <1>15
  <2>2. i # n /\ slot[i] # None /\ i < n
    <3>1. j = n \/ j < n
      BY <1>10, <2>1
    <3>2. i # n
      BY <1>step, <1>5, <1>15, <3>1
    <3> QED
      BY <1>10, <1>15, <3>2
  <2>3. CASE j # n
    BY <1>step, <1>7, <1>15, <2>2, <2>3 DEF PlanInv, ReuseInv
  <2>4. CASE j = n
    <3>1. slot[i] = s /\ slot[i] # n
      BY <1>7, <1>11, <1>15, <2>2, <2>4
    <3>2. slotLast[s] < DefIndex(n) /\ lastUse[i] <= slotLast[s]
      BY <1>step, <1>11, <2>2, <3>1
    <3>3. slotLast[s] \in Nat
      <4>1. {0} \cup Uses \subseteq Nat
        BY <1>5
      <4> QED
        BY <1>4, <1>6, <4>1
    <3>4. lastUse[i] \in Nat /\ DefIndex(n) \in Nat
      BY <1>step, <1>4, <1>5, AllocsAre
    <3> QED
      BY <1>step, <2>4, <3>2, <3>3, <3>4
  <2> QED
    BY <2>3, <2>4
<1>16. \A i \in Allocs : slot'[i] # None =>
         /\ slot'[slot'[i]] = slot'[i] /\ slot'[i] <= i
         /\ Holds(kind'[slot'[i]], kind'[i]) /\ lastUse'[i] <= slotLast'[slot'[i]]
  BY <1>step, <1>14
<1> QED
  BY <1>12, <1>13, <1>15, <1>16 DEF ReuseInv, Holds

LEMMA AssignSlotHolds ==
  ASSUME PlanInv, AssignSlot
  PROVE  PlanInv'
<1>1. domains = <<>> /\ domains' = domains /\ UNCHANGED <<program, packing>>
  <2>1. \E i \in Allocs : slot[i] = None
    BY DEF AssignSlot
  <2>2. domains = <<>>
    BY <2>1 DEF PlanInv, DomainsInv, AllWalked
  <2> QED
    BY <2>2 DEF AssignSlot
<1>2. packed = {} /\ \A i \in Allocs : slab[i] = 0
  <2>1. ~Planned
    BY DEF AssignSlot, Planned
  <2> QED
    BY <2>1 DEF PlanInv, PackInv
<1>3. ProgramInv'
  BY <1>1 DEF PlanInv, ProgramInv, program
<1>4. DomainsInv'
  BY <1>1 DEF DomainsInv, DomainsInOrder, Partitioned
<1>5. PackInv'
  BY <1>1, <1>2 DEF PlanInv, PackInv, packing
<1> QED
  BY <1>3, <1>4, <1>5, AssignSlotReuses DEF PlanInv

\* A group is named by one of the grouped allocations, with its members' factor.
DomainsTyped == domains \in Seq(SUBSET Allocs)
GroupsNamed ==
  \A d \in DOMAIN domains : \A i \in Grouped(d) :
    /\ GroupOf(d, i) \in Grouped(d) /\ kind[GroupOf(d, i)].dim = kind[i].dim
    /\ lifetimeOnly => GroupOf(d, i) = i

LEMMA DomainParts ==
  ASSUME DomainsTyped, NEW d \in DOMAIN domains
  PROVE  /\ domains[d] \in SUBSET Allocs /\ Statics(d) \in SUBSET Allocs
         /\ Smalls(d) \in SUBSET Allocs /\ Grouped(d) \in SUBSET Allocs
         /\ domains[d] = Statics(d) \cup Smalls(d) \cup Grouped(d)
         /\ Statics(d) \cap Smalls(d) = {} /\ Statics(d) \cap Grouped(d) = {}
         /\ Smalls(d) \cap Grouped(d) = {}
BY DEF DomainsTyped, Statics, Dynamics, Smalls, Grouped

LEMMA GroupsAreNamed == DomainsTyped => GroupsNamed
<1> SUFFICES ASSUME DomainsTyped, NEW d \in DOMAIN domains, NEW i \in Grouped(d)
             PROVE  /\ GroupOf(d, i) \in Grouped(d)
                    /\ kind[GroupOf(d, i)].dim = kind[i].dim
                    /\ lifetimeOnly => GroupOf(d, i) = i
  BY DEF GroupsNamed
<1> DEFINE C == {j \in Grouped(d) : kind[j].dim = kind[i].dim}
<1>1. C \in SUBSET Nat /\ C # {}
  BY DomainParts, AllocsAre
<1>2. Min(C) \in C
  <2> HIDE DEF C
  <2> QED
    BY <1>1, MinOfNats
<1>3. ClassOf(d, i) \in C
  BY <1>2 DEF ClassOf
<1> QED
  BY <1>3 DEF GroupOf

\* The next allocation joins the newest domain or opens one.
JoinsNewest(i, L, K) ==
  /\ L = Len(domains) /\ K = Len(domains') /\ domains' \in Seq(SUBSET Allocs)
  /\ K = L \/ K = L + 1
  /\ \A d \in 1 .. K : d # K => d \in 1 .. L /\ domains'[d] = domains[d]
  /\ K = L => L # 0 /\ domains'[K] = domains[L] \cup {i}
  /\ K = L + 1 => domains'[K] = {i}
  /\ Feasible(domains'[K])

LEMMA AssignDomainJoins ==
  ASSUME PlanInv, AssignDomain
  PROVE  \E i \in Kept \ Partitioned :
           /\ \A j \in Kept \ Partitioned : i <= j
           /\ \E L, K \in Nat : JoinsNewest(i, L, K)
<1> DEFINE first == Min(Kept \ Partitioned)
           Open == {d \in DOMAIN domains : Feasible(domains[d] \cup {first})}
           L == Len(domains)
<1>1. domains' = IF Open = {} THEN Append(domains, {first})
                 ELSE [domains EXCEPT ![Max(Open)] = @ \cup {first}]
  BY DEF AssignDomain
<1>2. first \in Kept \ Partitioned /\ \A j \in Kept \ Partitioned : first <= j
  <2>1. Kept \ Partitioned # {}
    <3>1. Partitioned \subseteq Kept
      BY DEF PlanInv, DomainsInv, Partitioned
    <3> QED
      BY <3>1 DEF AssignDomain
  <2>2. Kept \ Partitioned \in SUBSET Nat
    BY AllocsAre DEF Kept
  <2> QED
    BY <2>1, <2>2, MinOfNats
<1>3. PICK i \in Kept \ Partitioned : i = first
  BY <1>2
<1> HIDE DEF first
<1>4. i \in Allocs /\ ProgramInv /\ domains \in Seq(SUBSET Allocs)
  BY DEF PlanInv, Kept, DomainsInv
<1>5. DOMAIN domains = 1 .. L /\ L \in Nat
  BY <1>4
<1>6. ASSUME NEW d \in DOMAIN domains
      PROVE  /\ domains[d] \in SUBSET Allocs /\ domains[d] # {}
             /\ Feasible(domains[d]) /\ \A j \in domains[d] : j < i
  BY <1>4, <1>6 DEF PlanInv, DomainsInv, DomainsInOrder, Partitioned
<1>7. Feasible({i})
  <2>1. kind[i].dim # Static => dimAt[kind[i].dim] < DefIndex(i)
    BY <1>4, KindsAre DEF ProgramInv
  <2>2. {i} \in SUBSET Allocs /\ {i} # {}
    BY <1>4
  <2> QED
    BY <1>4, <2>1, <2>2, FeasibleMeans
<1>8. ASSUME Open # {}
      PROVE  Max(Open) = L /\ L # 0 /\ Feasible(domains[L] \cup {i})
  <2>1. PICK d \in DOMAIN domains : Feasible(domains[d] \cup {i})
    BY <1>3, <1>8
  <2>2. L \in DOMAIN domains /\ d <= L /\ L # 0
    BY <1>5, <2>1
  <2> DEFINE U == domains[d] \cup {i}
             V == domains[L] \cup {i}
  <2>3. /\ U \in SUBSET Allocs /\ U # {} /\ V \in SUBSET Allocs /\ V # {}
        /\ domains[L] \in SUBSET Allocs /\ domains[L] # {}
    BY <1>4, <1>6, <2>1, <2>2
  <2>4. \A a, b \in U : kind[b].dim # Static => dimAt[kind[b].dim] < DefIndex(a)
    <3> HIDE DEF U
    <3> QED
      BY <1>4, <2>1, <2>3, FeasibleMeans DEF U
  <2>5. \A a, b \in domains[L] : kind[b].dim # Static => dimAt[kind[b].dim] < DefIndex(a)
    BY <1>4, <1>6, <2>2, <2>3, FeasibleMeans
  <2>6. ASSUME NEW a \in V, NEW b \in V, kind[b].dim # Static
        PROVE  dimAt[kind[b].dim] < DefIndex(a)
    <3>1. dimAt[kind[b].dim] \in Nat
      <4>1. kind[b].dim \in Dims
        BY <1>4, <2>3, <2>6, KindsAre DEF ProgramInv
      <4>2. dimAt[kind[b].dim] \in {0} \cup Uses
        BY <1>4, <4>1 DEF ProgramInv
      <4>3. {0} \cup Uses \subseteq Nat
        BY AllocsAre
      <4> QED
        BY <4>2, <4>3
    <3>2. CASE a \in domains[L] /\ b \in domains[L]
      BY <2>5, <2>6, <3>2
    <3>3. CASE a = i /\ b = i
      BY <1>4, <2>4, <2>6, <3>3
    <3>4. CASE a = i /\ b \in domains[L]
      <4>1. b < i /\ b \in Allocs
        BY <1>6, <2>2, <2>3, <3>4
      <4>2. dimAt[kind[b].dim] < DefIndex(b)
        BY <2>5, <2>6, <3>4
      <4>3. DefIndex(b) < DefIndex(i) /\ DefIndex(i) \in Nat /\ DefIndex(b) \in Nat
        BY <1>4, <4>1, AllocsAre DEF DefIndex
      <4> QED
        BY <3>1, <3>4, <4>2, <4>3
    <3>5. CASE a \in domains[L] /\ b = i
      <4>1. PICK c \in domains[d] : c \in Allocs
        BY <1>6, <2>1
      <4>2. dimAt[kind[b].dim] < DefIndex(c)
        BY <2>4, <2>6, <3>5, <4>1
      <4>3. CASE d = L
        BY <2>4, <2>6, <3>5, <4>3
      <4>4. CASE d # L
        <5>1. c < a
          <6>1. d < L
            BY <1>5, <2>1, <2>2, <4>4
          <6> QED
            BY <2>1, <2>2, <3>5, <4>1, <6>1 DEF PlanInv, DomainsInv, DomainsInOrder
        <5>2. DefIndex(c) < DefIndex(a) /\ DefIndex(a) \in Nat /\ DefIndex(c) \in Nat
          <6>1. a \in Nat /\ c \in Nat
            <7>1. a \in Allocs
              BY <2>3, <3>5
            <7> QED
              BY <4>1, <7>1, AllocsAre
          <6> QED
            BY <5>1, <6>1 DEF DefIndex
        <5> QED
          BY <3>1, <4>2, <5>2
      <4> QED
        BY <4>3, <4>4
    <3> QED
      BY <3>2, <3>3, <3>4, <3>5
  <2>7. Feasible(V)
    <3> HIDE DEF V
    <3> QED
      BY <1>4, <2>3, <2>6, FeasibleMeans
  <2>8. Max(Open) \in Open /\ \A e \in Open : e <= Max(Open)
    <3>1. Open \in SUBSET DOMAIN domains
      OBVIOUS
    <3>2. IsFiniteSet(1 .. L)
      BY <1>5, FS_Interval
    <3>3. IsFiniteSet(Open) /\ Open \in SUBSET Nat
      <4> HIDE DEF Open
      <4>1. Open \in SUBSET (1 .. L)
        BY <1>5, <3>1
      <4>2. IsFiniteSet(Open)
        BY <3>2, <4>1, FS_Subset
      <4> QED
        BY <1>5, <4>1, <4>2
    <3> HIDE DEF Open
    <3> QED
      BY <1>8, <3>3, MaxOfNats
  <2>9. L \in Open
    BY <1>3, <2>2, <2>7
  <2>10. Max(Open) \in 1 .. L /\ L <= Max(Open)
    <3>1. Max(Open) \in DOMAIN domains
      BY <2>8
    <3> HIDE DEF Open
    <3> QED
      BY <1>5, <2>8, <2>9, <3>1
  <2>11. Max(Open) = L
    <3> HIDE DEF Open
    <3> QED
      BY <1>5, <2>10
  <2> QED
    BY <2>2, <2>7, <2>11
<1>9. CASE Open = {}
  <2>1. domains' = Append(domains, {i})
    BY <1>1, <1>3, <1>9
  <2>2. /\ Len(domains') = L + 1 /\ domains' \in Seq(SUBSET Allocs)
        /\ \A d \in 1 .. L : domains'[d] = domains[d]
        /\ domains'[L + 1] = {i}
    <3>1. {i} \in SUBSET Allocs
      BY <1>4
    <3> QED
      BY <1>4, <1>5, <2>1, <3>1
  <2>3. Feasible(domains'[L + 1])
    BY <1>7, <2>2
  <2>4. L + 1 \in Nat /\ L + 1 # L /\ \A d \in 1 .. L + 1 : d # L + 1 => d \in 1 .. L
    <3>1. PICK k \in Nat : k = L
      BY <1>5
    <3>2. k + 1 \in Nat /\ k + 1 # k /\ \A d \in 1 .. k + 1 : d # k + 1 => d \in 1 .. k
      OBVIOUS
    <3> QED
      BY <3>1, <3>2
  <2>5. JoinsNewest(i, L, L + 1)
    <3> HIDE DEF Open
    <3> QED
      BY <2>2, <2>3, <2>4 DEF JoinsNewest
  <2> QED
    BY <1>2, <1>3, <1>5, <2>4, <2>5
<1>10. CASE Open # {}
  <2>1. Max(Open) = L /\ L # 0 /\ Feasible(domains[L] \cup {i})
    BY <1>8, <1>10
  <2>2. domains' = [domains EXCEPT ![L] = domains[L] \cup {i}]
    <3> HIDE DEF Open
    <3> QED
      BY <1>1, <1>3, <1>10, <2>1
  <2>3. /\ Len(domains') = L /\ domains' \in Seq(SUBSET Allocs)
        /\ \A d \in 1 .. L : d # L => domains'[d] = domains[d]
        /\ domains'[L] = domains[L] \cup {i}
    <3>1. L \in 1 .. L /\ domains[L] \cup {i} \in SUBSET Allocs
      BY <1>4, <1>5, <1>6, <2>1
    <3>2. PICK e \in SUBSET Allocs : e = domains[L] \cup {i}
      BY <3>1
    <3> QED
      BY <1>4, <2>2, <3>1, <3>2, ExceptSeq
  <2>4. Feasible(domains'[L])
    BY <2>1, <2>3
  <2>5. JoinsNewest(i, L, L)
    <3> HIDE DEF Open
    <3>1. L # L + 1
      <4>1. \A k \in Nat : k # k + 1
        OBVIOUS
      <4> QED
        BY <1>5, <4>1
    <3> QED
      BY <2>1, <2>3, <2>4, <3>1 DEF JoinsNewest
  <2> QED
    BY <1>2, <1>3, <1>5, <2>5
<1> QED
  BY <1>9, <1>10

LEMMA AssignDomainHolds ==
  ASSUME PlanInv, AssignDomain
  PROVE  PlanInv'
<1>1. PICK i \in Kept \ Partitioned, L \in Nat, K \in Nat :
        (\A j \in Kept \ Partitioned : i <= j) /\ JoinsNewest(i, L, K)
  BY AssignDomainJoins
<1>2. UNCHANGED <<program, reuse, packing>> /\ AllWalked
  BY DEF AssignDomain, AllWalked
<1>3. i \in Allocs /\ i \in Nat /\ Kept \subseteq Allocs /\ Allocs \subseteq Nat
  BY AllocsAre DEF Kept
<1>4. DOMAIN domains = 1 .. L /\ DOMAIN domains' = 1 .. K
  BY <1>1 DEF PlanInv, DomainsInv, JoinsNewest
<1>5. \A d \in 1 .. L : /\ domains[d] \subseteq Kept /\ domains[d] # {}
                        /\ \A j \in domains[d] : d <= j /\ j < i
                        /\ Feasible(domains[d])
  BY <1>1, <1>4 DEF PlanInv, DomainsInv, DomainsInOrder, Partitioned
\* What a domain had before the step.
<1> DEFINE Old(d) == IF d \in 1 .. L THEN domains[d] ELSE {}
<1>6. \A d \in 1 .. K : domains'[d] = Old(d) \cup (IF d = K THEN {i} ELSE {})
  BY <1>1 DEF JoinsNewest
<1>7. \A d \in 1 .. L : d \in 1 .. K
  BY <1>1 DEF JoinsNewest
<1>8. K \in 1 .. K
  BY <1>1 DEF JoinsNewest
<1>9. Partitioned' = Partitioned \cup {i}
  <2>1. Partitioned = UNION {domains[d] : d \in 1 .. L}
    BY <1>4 DEF Partitioned
  <2>2. Partitioned' = UNION {domains'[d] : d \in 1 .. K}
    BY <1>4 DEF Partitioned
  <2>3. ASSUME NEW j \in Partitioned' PROVE j \in Partitioned \cup {i}
    BY <1>6, <2>1, <2>2
  <2>4. ASSUME NEW j \in Partitioned \cup {i} PROVE j \in Partitioned'
    BY <1>6, <1>7, <1>8, <2>1, <2>2
  <2> QED
    BY <2>3, <2>4
<1>10. Kept' = Kept /\ AllWalked'
  BY <1>2 DEF Kept, AllWalked, reuse
<1>11. ASSUME NEW d \in 1 .. K
       PROVE  /\ domains'[d] \subseteq Kept /\ domains'[d] # {}
              /\ \A j \in domains'[d] : d <= j
              /\ Feasible(domains'[d])
  <2>1. CASE d # K
    <3>1. d \in 1 .. L /\ domains'[d] = domains[d]
      BY <1>1, <2>1 DEF JoinsNewest
    <3> QED
      BY <1>5, <3>1
  <2>2. CASE d = K
    <3>1. Feasible(domains'[d])
      BY <1>1, <2>2 DEF JoinsNewest
    <3>2. d <= i
      <4>1. CASE L = 0
        BY <1>1, <1>3, <2>2, <4>1, AllocsAre DEF JoinsNewest
      <4>2. CASE L # 0
        <5>0. L \in 1 .. L
          BY <4>2
        <5>1. PICK j \in domains[L] : L <= j /\ j < i /\ j \in Nat
          BY <1>3, <1>5, <5>0
        <5> QED
          BY <1>1, <1>3, <2>2, <5>1 DEF JoinsNewest
      <4> QED
        BY <4>1, <4>2
    <3>3. CASE K = L
      BY <1>1, <1>5, <2>2, <3>1, <3>2, <3>3 DEF JoinsNewest
    <3>4. CASE K = L + 1
      BY <1>1, <2>2, <3>1, <3>2, <3>4 DEF JoinsNewest
    <3> QED
      BY <1>1, <3>3, <3>4 DEF JoinsNewest
  <2> QED
    BY <2>1, <2>2
<1>12. ASSUME NEW d \in 1 .. K, NEW e \in 1 .. K, d < e,
              NEW j \in domains'[d], NEW k \in domains'[e]
       PROVE  j < k
  <2>1. d # K /\ d \in 1 .. L /\ j \in domains[d] /\ j < i
    BY <1>1, <1>5, <1>12 DEF JoinsNewest
  <2>2. CASE k = i
    BY <2>1, <2>2
  <2>3. CASE k # i
    <3>1. k \in Old(e)
      BY <1>6, <2>3
    <3>2. e \in 1 .. L /\ k \in domains[e]
      BY <3>1
    <3> QED
      BY <1>4, <1>12, <2>1, <3>2 DEF PlanInv, DomainsInv, DomainsInOrder
  <2> QED
    BY <2>2, <2>3
<1>13. ASSUME NEW j \in Partitioned', NEW k \in Kept \ Partitioned'
       PROVE  j < k
  <2>1. k \in Kept \ Partitioned /\ k # i
    BY <1>9
  <2>2. i < k
    BY <1>1, <1>3, <2>1
  <2>3. CASE j = i
    BY <2>2, <2>3
  <2>4. CASE j # i
    BY <1>9, <2>1, <2>4 DEF PlanInv, DomainsInv
  <2> QED
    BY <2>3, <2>4
<1>14. DomainsInOrder'
  <2>1. \A d \in DOMAIN domains' : Feasible(domains[d])'
    <3> SUFFICES ASSUME NEW d \in 1 .. K PROVE Feasible(domains[d])'
      BY <1>4
    <3>1. Feasible(domains'[d])
      BY <1>11
    <3>2. kind' = kind /\ dimAt' = dimAt
      BY <1>2 DEF program
    <3> QED
      BY <3>1, <3>2 DEF Feasible, RequiredAfter, DefIndex
  <2>2. \A d, e \in DOMAIN domains' : d < e =>
          \A j \in domains'[d], k \in domains'[e] : j < k
    BY <1>4, <1>12
  <2> QED
    BY <2>1, <2>2 DEF DomainsInOrder
<1>15. DomainsInv'
  <2>1. domains' \in Seq(SUBSET Allocs)
    BY <1>1 DEF JoinsNewest
  <2>2. \A d \in DOMAIN domains' :
          /\ domains'[d] \subseteq Kept' /\ domains'[d] # {}
          /\ \A j \in domains'[d] : d <= j
    BY <1>4, <1>10, <1>11
  <2>3. \A j \in Partitioned', k \in Kept' \ Partitioned' : j < k
    BY <1>10, <1>13
  <2> QED
    BY <1>10, <1>14, <2>1, <2>2, <2>3 DEF DomainsInv
<1>16. PackInv'
  <2>1. packed = {} /\ \A j \in Allocs : slab[j] = 0
    <3>1. ~Planned
      BY DEF AssignDomain, Planned
    <3> QED
      BY <3>1 DEF PlanInv, PackInv
  <2>2. packed' = {} /\ \A j \in Allocs : slab'[j] = 0
    BY <1>2, <2>1 DEF packing
  <2>3. GroupsNamed'
    <3>1. DomainsTyped'
      BY <1>15 DEF DomainsInv, DomainsTyped
    <3> QED
      BY <3>1, GroupsAreNamed, PTL
  <2>4. \A d \in DOMAIN domains' : Groups(d)' \subseteq Allocs
    <3> SUFFICES ASSUME NEW d \in DOMAIN domains', NEW g \in Groups(d)' PROVE g \in Allocs
      OBVIOUS
    <3>1. PICK j \in Grouped(d)' : g = GroupOf(d, j)'
      BY DEF Groups
    <3>2. g \in Grouped(d)'
      BY <2>3, <3>1 DEF GroupsNamed
    <3>3. g \in domains'[d] /\ domains' \in Seq(SUBSET Allocs)
      BY <1>15, <3>2 DEF Grouped, Dynamics, DomainsInv
    <3> QED
      BY <3>3
  <2>5. \A d \in DOMAIN domains' : Packing(d)'
    BY <2>2, <2>4 DEF Packing
  <2>6. /\ unit' = unit /\ bin' = bin /\ slab' = slab
    BY <1>2 DEF packing
  <2> QED
    BY <2>2, <2>5, <2>6 DEF PlanInv, PackInv
<1>17. ProgramInv' /\ ReuseInv'
  BY <1>2 DEF PlanInv, ProgramInv, ReuseInv, program, reuse
<1> QED
  BY <1>15, <1>16, <1>17 DEF PlanInv

(***************************************************************************)
(* Packing steps leave the function, the reuse and the domains alone.      *)
(***************************************************************************)
LEMMA SamePlan ==
  ASSUME UNCHANGED <<program, reuse, domains>>
  PROVE  /\ Kept' = Kept /\ Partitioned' = Partitioned /\ (Planned' <=> Planned)
         /\ \A d : /\ Statics(d)' = Statics(d) /\ Smalls(d)' = Smalls(d)
                   /\ Grouped(d)' = Grouped(d) /\ Groups(d)' = Groups(d)
         /\ \A d, i : GroupOf(d, i)' = GroupOf(d, i)
         /\ \A i : Size(i)' = Size(i)
         /\ \A i, j : LifetimesOverlap(i, j)' <=> LifetimesOverlap(i, j)
<1>1. /\ kind' = kind /\ slot' = slot /\ slotLast' = slotLast
      /\ lifetimeOnly' = lifetimeOnly /\ domains' = domains
  BY DEF program, reuse
<1>2. Kept' = Kept /\ Partitioned' = Partitioned
  BY <1>1 DEF Kept, Partitioned
<1>3. Planned' <=> Planned
  BY <1>1, <1>2 DEF Planned
<1>4. \A i : Size(i)' = Size(i) /\ StaticByteSize(i)' = StaticByteSize(i)
  BY <1>1 DEF Size, AlignUp, StaticByteSize
<1>5. \A i : Small(i)' <=> Small(i)
  BY <1>1 DEF Small
<1>6. \A d : Statics(d)' = Statics(d)
  BY <1>1, <1>4 DEF Statics
<1>7. \A d : Dynamics(d)' = Dynamics(d)
  BY <1>1, <1>6 DEF Dynamics
<1>8. \A d : Smalls(d)' = Smalls(d)
  BY <1>5, <1>7 DEF Smalls
<1>9. \A d : Grouped(d)' = Grouped(d)
  BY <1>7, <1>8 DEF Grouped
<1>10. \A d, i : ClassOf(d, i)' = ClassOf(d, i)
  BY <1>1, <1>9 DEF ClassOf
<1>11. \A d, i : GroupOf(d, i)' = GroupOf(d, i)
  BY <1>1, <1>10 DEF GroupOf
<1>12. \A d : Groups(d)' = Groups(d)
  BY <1>9, <1>11 DEF Groups
<1>13. \A i, j : LifetimesOverlap(i, j)' <=> LifetimesOverlap(i, j)
  BY <1>1 DEF LifetimesOverlap, DefIndex
<1> QED
  BY <1>2, <1>3, <1>4, <1>6, <1>8, <1>9, <1>11, <1>12, <1>13

LEMMA SamePairs ==
  ASSUME UNCHANGED <<program, reuse, domains>>
  PROVE  /\ \A d, i, j : Alike(d, i, j)' <=> Alike(d, i, j)
         /\ \A d, g, h : GroupsDisjoint(d, g, h)' <=> GroupsDisjoint(d, g, h)
<1>1. \A d, i, j : Alike(d, i, j)' <=> Alike(d, i, j)
  BY SamePlan DEF Alike
<1>2. \A d, g : Members(d, g)' = Members(d, g)
  BY SamePlan DEF Members
<1>3. \A d, g, h : GroupsDisjoint(d, g, h)' <=> GroupsDisjoint(d, g, h)
  BY <1>2, SamePlan DEF GroupsDisjoint
<1> QED
  BY <1>1, <1>3

LEMMA SameInvs ==
  ASSUME PlanInv, UNCHANGED <<program, reuse, domains>>
  PROVE  ProgramInv' /\ ReuseInv' /\ DomainsInv'
<1>1. ProgramInv' /\ ReuseInv'
  BY DEF PlanInv, ProgramInv, ReuseInv, program, reuse
<1>2. DomainsInOrder'
  BY DEF PlanInv, DomainsInv, DomainsInOrder, Feasible, RequiredAfter, DefIndex,
         program
<1>3. DomainsInv'
  BY <1>2, SamePlan DEF PlanInv, DomainsInv, AllWalked, reuse
<1> QED
  BY <1>1, <1>3

\* An allocation belongs to one domain.
LEMMA OneDomain ==
  ASSUME PlanInv, NEW d \in DOMAIN domains, NEW e \in DOMAIN domains,
         NEW i \in domains[d], i \in domains[e]
  PROVE  d = e
<1>1. domains \in Seq(SUBSET Allocs)
  BY DEF PlanInv, DomainsInv
<1>2. d \in Nat /\ e \in Nat /\ i \in Nat
  <2>1. i \in Allocs
    BY <1>1
  <2> QED
    BY <1>1, <2>1, AllocsAre
<1> QED
  BY <1>2 DEF PlanInv, DomainsInv, DomainsInOrder

LEMMA OverlapSymmetric ==
  \A i, j : LifetimesOverlap(i, j) <=> LifetimesOverlap(j, i)
BY DEF LifetimesOverlap

\* packGreedyBestFit keeps what is alive at the same time apart.
LEMMA PlaceHolds ==
  ASSUME PlanInv, Planned, NEW d \in DOMAIN domains, NEW i \in domains[d] \ packed,
         i \notin Smalls(d), NEW placed \in SUBSET (domains[d] \cap packed),
         \A j \in domains[d] \cap packed : Alike(d, i, j) => j \in placed,
         i \in Grouped(d) /\ lifetimeOnly => placed = {},
         Place(i, placed)
  PROVE  PlanInv'
<1>1. UNCHANGED <<program, reuse, domains>> /\ bin' = bin /\ slab' = slab
  BY DEF Place
<1>2. /\ kind \in [Allocs -> Kinds] /\ unit \in [Allocs -> Nat]
      /\ domains \in Seq(SUBSET Allocs) /\ packed \in SUBSET Partitioned
  BY DEF PlanInv, ProgramInv, PackInv, DomainsInv
<1>3. i \in Allocs /\ domains[d] \in SUBSET Allocs /\ placed \in SUBSET Allocs
  BY <1>2
<1>4. PICK u \in Nat :
        /\ u = BestFit(i, placed) /\ Aligned(u)
        /\ \A j \in placed : LifetimesOverlap(i, j) => u + Size(i) <= unit[j] \/ End(j) <= u
        /\ placed = {} => u = 0
  BY <1>2, <1>3, BestFitIs
<1>5. unit' = [unit EXCEPT ![i] = u] /\ packed' = packed \cup {i}
  BY <1>4 DEF Place
<1>6. unit'[i] = u /\ unit' \in [Allocs -> Nat] /\ \A j \in Allocs : j # i => unit'[j] = unit[j]
  BY <1>2, <1>3, <1>5
<1>7. \A j \in Allocs : j # i => End(j)' = End(j)
  BY <1>1, <1>6, SamePlan DEF End
<1>8. End(i)' = u + Size(i)
  BY <1>1, <1>6, SamePlan DEF End
<1>9. ASSUME NEW e \in DOMAIN domains
      PROVE  Packing(e)'
  <2>1. Packing(e)
    BY DEF PlanInv, PackInv
  <2>2. domains[e] \in SUBSET Allocs /\ Smalls(e) \subseteq domains[e] /\ Grouped(e) \subseteq domains[e]
    BY <1>2, DomainParts DEF DomainsTyped
  <2>3. i \in domains[e] => e = d
    BY OneDomain
  <2>4. \A j \in Smalls(e) \cap packed' : bin'[j] # 0
    BY <1>1, <1>5, <2>1, <2>2, <2>3 DEF Packing
  <2>5. \A j \in Grouped(e) \cap packed' : lifetimeOnly => unit'[j] = 0
    <3> SUFFICES ASSUME NEW j \in Grouped(e) \cap packed', lifetimeOnly
                 PROVE  unit'[j] = 0
      OBVIOUS
    <3>1. CASE j = i
      BY <1>4, <1>6, <2>2, <2>3, <3>1
    <3>2. CASE j # i
      BY <1>5, <1>6, <2>1, <2>2, <3>2 DEF Packing
    <3> QED
      BY <3>1, <3>2
  <2>6. ASSUME NEW j \in domains[e] \cap packed', NEW k \in domains[e] \cap packed',
               j # k, LifetimesOverlap(j, k)
        PROVE  /\ Alike(e, j, k) => Apart(j, k)'
               /\ j \in Smalls(e) /\ k \in Smalls(e) /\ kind[j] = kind[k] => bin'[j] # bin'[k]
    <3>1. CASE j # i /\ k # i
      <4>1. j \in packed /\ k \in packed /\ j \in Allocs /\ k \in Allocs
        BY <1>5, <2>2, <3>1
      <4>2. /\ Alike(e, j, k) => Apart(j, k)
            /\ j \in Smalls(e) /\ k \in Smalls(e) /\ kind[j] = kind[k] => bin[j] # bin[k]
        BY <2>1, <2>6, <4>1 DEF Packing
      <4>3. Apart(j, k)' <=> Apart(j, k)
        BY <1>6, <1>7, <3>1, <4>1 DEF Apart
      <4> QED
        BY <1>1, <4>2, <4>3
    <3>2. ASSUME NEW l \in domains[e] \cap packed, LifetimesOverlap(i, l),
                 i \in domains[e], Alike(e, i, l) \/ Alike(e, l, i)
          PROVE  u + Size(i) <= unit'[l] \/ End(l)' <= u
      <4>1. e = d /\ Alike(d, i, l)
        BY <2>3, <3>2 DEF Alike
      <4>2. l \in placed /\ l # i /\ l \in Allocs
        BY <1>3, <3>2, <4>1
      <4> QED
        BY <1>4, <1>6, <1>7, <3>2, <4>2
    <3>3. CASE j = i
      <4>1. k \in packed /\ i \in domains[e] /\ e = d
        BY <1>5, <2>3, <2>6, <3>3
      <4>2. Alike(e, j, k) => Apart(j, k)'
        BY <1>6, <1>8, <2>6, <3>2, <3>3, <4>1 DEF Apart
      <4> QED
        BY <3>3, <4>1, <4>2
    <3>4. CASE k = i
      <4>1. j \in packed /\ i \in domains[e] /\ e = d /\ LifetimesOverlap(i, j)
        BY <1>5, <2>3, <2>6, <3>4, OverlapSymmetric
      <4>2. Alike(e, j, k) => Apart(j, k)'
        BY <1>6, <1>8, <2>6, <3>2, <3>4, <4>1 DEF Apart
      <4> QED
        BY <3>4, <4>1, <4>2
    <3> QED
      BY <3>1, <3>3, <3>4
  <2>7. \A g, h \in Groups(e) :
          g # h /\ slab'[g] = slab'[h] /\ slab'[g] # 0 => GroupsDisjoint(e, g, h)
    BY <1>1, <2>1 DEF Packing
  <2>8. kind' = kind /\ lifetimeOnly' = lifetimeOnly /\ domains' = domains
    BY <1>1 DEF program
  <2>9. /\ Smalls(e)' = Smalls(e) /\ Grouped(e)' = Grouped(e) /\ Groups(e)' = Groups(e)
        /\ \A j, k : LifetimesOverlap(j, k)' <=> LifetimesOverlap(j, k)
        /\ \A j, k : Alike(e, j, k)' <=> Alike(e, j, k)
        /\ \A g, h : GroupsDisjoint(e, g, h)' <=> GroupsDisjoint(e, g, h)
    BY <1>1, SamePlan, SamePairs
  <2>10. \A j, k \in domains'[e] \cap packed' : j # k /\ LifetimesOverlap(j, k)' =>
           /\ Alike(e, j, k)' => Apart(j, k)'
           /\ j \in Smalls(e)' /\ k \in Smalls(e)' /\ kind'[j] = kind'[k] => bin'[j] # bin'[k]
    BY <2>6, <2>8, <2>9
  <2>11. \A j \in Grouped(e)' \cap packed' : lifetimeOnly' => unit'[j] = 0
    BY <2>5, <2>8, <2>9
  <2>12. \A j \in Smalls(e)' \cap packed' : bin'[j] # 0
    BY <2>4, <2>9
  <2>13. \A g, h \in Groups(e)' :
           g # h /\ slab'[g] = slab'[h] /\ slab'[g] # 0 => GroupsDisjoint(e, g, h)'
    BY <2>7, <2>9
  <2> QED
    BY <2>10, <2>11, <2>12, <2>13 DEF Packing
<1>10. \A j \in Allocs : Aligned(unit'[j])
  BY <1>4, <1>6 DEF PlanInv, PackInv
<1>11. packed' \in SUBSET Partitioned'
  <2>1. i \in Partitioned
    BY DEF Partitioned
  <2> QED
    BY <1>1, <1>2, <1>5, <2>1, SamePlan
<1>12. PackInv'
  <2>1. /\ bin \in [Allocs -> 0 .. NumAllocs] /\ slab \in [Allocs -> 0 .. NumAllocs]
    BY DEF PlanInv, PackInv
  <2>2. Planned' /\ domains' = domains
    BY <1>1, SamePlan
  <2>3. (\A j \in Allocs : Aligned(unit[j]))'
    BY <1>10 DEF Aligned
  <2> QED
    BY <1>1, <1>6, <1>9, <1>11, <2>1, <2>2, <2>3 DEF PackInv
<1> QED
  BY <1>1, <1>12, SameInvs DEF PlanInv

LEMMA PackStaticHolds ==
  ASSUME PlanInv, NEW d \in 1 .. NumAllocs, PackStatic(d)
  PROVE  PlanInv'
<1>1. Planned /\ d \in DOMAIN domains
  BY DEF PackStatic, Current
<1>2. PICK i \in Statics(d) \ packed : Place(i, Statics(d) \cap packed)
  BY DEF PackStatic
<1>3. DomainsTyped
  BY DEF PlanInv, DomainsInv, DomainsTyped
<1>4. i \in domains[d] \ packed /\ i \notin Smalls(d) /\ i \notin Grouped(d)
  BY <1>1, <1>3, DomainParts
<1>5. Statics(d) \cap packed \in SUBSET (domains[d] \cap packed)
  BY <1>1, <1>3, DomainParts
<1>6. \A j \in domains[d] \cap packed : Alike(d, i, j) => j \in Statics(d) \cap packed
  BY <1>4 DEF Alike
<1> QED
  BY <1>1, <1>2, <1>4, <1>5, <1>6, PlaceHolds

LEMMA PackGroupHolds ==
  ASSUME PlanInv, NEW d \in 1 .. NumAllocs, PackGroup(d)
  PROVE  PlanInv'
<1>1. Planned /\ d \in DOMAIN domains
  BY DEF PackGroup, Current
<1>2. PICK i \in Grouped(d) \ packed : Place(i, Members(d, GroupOf(d, i)) \cap packed)
  BY DEF PackGroup
<1> DEFINE placed == Members(d, GroupOf(d, i)) \cap packed
<1>3. DomainsTyped /\ GroupsNamed
  BY GroupsAreNamed DEF PlanInv, DomainsInv, DomainsTyped
<1>4. i \in domains[d] \ packed /\ i \notin Smalls(d) /\ i \notin Statics(d)
  BY <1>1, <1>3, DomainParts
<1>5. placed \in SUBSET (domains[d] \cap packed)
  BY <1>1, <1>3, DomainParts DEF Members
<1>6. \A j \in domains[d] \cap packed : Alike(d, i, j) => j \in placed
  BY <1>4 DEF Alike, Members
<1>7. lifetimeOnly => placed = {}
  BY <1>1, <1>2, <1>3 DEF GroupsNamed, Members
<1> HIDE DEF placed
<1> QED
  BY <1>1, <1>2, <1>4, <1>5, <1>6, <1>7, PlaceHolds DEF placed

\* A small allocation goes to the first bin without a conflict; with fewer
\* neighbours than bins there is one.
LEMMA PackSmallHolds ==
  ASSUME PlanInv, NEW d \in 1 .. NumAllocs, PackSmall(d)
  PROVE  PlanInv'
<1> DEFINE first == Min(Smalls(d) \ packed)
<1>1. /\ Planned /\ d \in DOMAIN domains /\ ~(Smalls(d) \subseteq packed)
      /\ UNCHANGED <<program, reuse, domains>> /\ unit' = unit /\ slab' = slab
      /\ packed' = packed \cup {first}
  BY DEF PackSmall, Current
<1>2. DomainsTyped
  BY DEF PlanInv, DomainsInv, DomainsTyped
<1>3. first \in Smalls(d) \ packed
  <2>1. Smalls(d) \ packed # {} /\ Smalls(d) \ packed \in SUBSET Nat
    BY <1>1, <1>2, DomainParts, AllocsAre
  <2> QED
    BY <2>1, MinOfNats
<1>4. PICK i \in Smalls(d) \ packed : i = first
  BY <1>3
<1> HIDE DEF first
<1> DEFINE Bin(b) == {j \in Smalls(d) \cap packed :
                        BucketOf(d, j) = BucketOf(d, i) /\ bin[j] = b}
           Fits(b) == \A j \in Bin(b) : ~LifetimesOverlap(i, j)
           Free == {b \in 1 .. NumAllocs : Fits(b)}
<1>5. bin' = [bin EXCEPT ![i] = Min(Free)]
  BY <1>4 DEF PackSmall, first
<1>6. /\ i \in Allocs /\ i \in domains[d] /\ i \notin packed
      /\ domains[d] \in SUBSET Allocs /\ Smalls(d) \in SUBSET Allocs
      /\ i \in Partitioned
      /\ bin \in [Allocs -> 0 .. NumAllocs]
  BY <1>1, <1>2, <1>4, DomainParts DEF PlanInv, PackInv, Partitioned
<1>7. Min(Free) \in Free
  <2>1. PICK b \in Allocs : \A j \in Smalls(d) \cap packed : bin[j] # b
    <3>1. Smalls(d) \cap packed \in SUBSET Allocs /\ Smalls(d) \cap packed # Allocs
      BY <1>6
    <3> QED
      BY <3>1, SpareNumber
  <2>2. b \in Free
    BY <2>1 DEF Allocs
  <2>3. Free \in SUBSET Nat
    BY PlanAssumption
  <2> HIDE DEF Free
  <2> QED
    BY <2>2, <2>3, MinOfNats
<1>8. PICK b \in 1 .. NumAllocs : b = Min(Free) /\ Fits(b)
  BY <1>7
<1> HIDE DEF Free
<1>9. /\ bin'[i] = b /\ bin' \in [Allocs -> 0 .. NumAllocs] /\ b # 0
      /\ \A j \in Allocs : j # i => bin'[j] = bin[j]
  <2>1. b \in 0 .. NumAllocs /\ b # 0
    BY PlanAssumption
  <2> QED
    BY <1>5, <1>6, <1>8, <2>1
<1>10. ASSUME NEW j \in Smalls(d) \cap packed, LifetimesOverlap(i, j), kind[i] = kind[j]
       PROVE  bin'[j] # b
  <2>1. BucketOf(d, i) = BucketOf(d, j)
    BY <1>10 DEF BucketOf
  <2>2. j \notin Bin(b)
    BY <1>8, <1>10
  <2>3. bin[j] # b
    BY <1>10, <2>1, <2>2
  <2> QED
    BY <1>6, <1>9, <1>10, <2>3
<1>11. ASSUME NEW e \in DOMAIN domains
       PROVE  Packing(e)'
  <2>1. Packing(e)
    BY DEF PlanInv, PackInv
  <2>2. /\ domains[e] \in SUBSET Allocs /\ Smalls(e) \subseteq domains[e]
        /\ Grouped(e) \subseteq domains[e]
    BY <1>2, DomainParts
  <2>3. i \in domains[e] => e = d
    BY <1>1, <1>6, OneDomain
  <2>4. \A j \in Smalls(e) \cap packed' : bin'[j] # 0
    BY <1>1, <1>4, <1>9, <2>1, <2>2 DEF Packing
  <2>5. \A j \in Grouped(e) \cap packed' : lifetimeOnly => unit'[j] = 0
    <3>1. i \notin Grouped(e)
      BY <1>1, <1>2, <1>4, <2>2, <2>3, DomainParts
    <3> QED
      BY <1>1, <1>4, <2>1, <3>1 DEF Packing
  <2>6. ASSUME NEW j \in domains[e] \cap packed', NEW k \in domains[e] \cap packed',
               j # k, LifetimesOverlap(j, k)
        PROVE  /\ Alike(e, j, k) => Apart(j, k)
               /\ j \in Smalls(e) /\ k \in Smalls(e) /\ kind[j] = kind[k] => bin'[j] # bin'[k]
    <3>1. CASE j # i /\ k # i
      <4>1. j \in packed /\ k \in packed /\ j \in Allocs /\ k \in Allocs
        BY <1>1, <1>4, <2>2, <3>1
      <4> QED
        BY <1>9, <2>1, <2>6, <3>1, <4>1 DEF Packing
    <3>2. ASSUME e = d PROVE ~Alike(e, i, j) /\ ~Alike(e, i, k) /\ ~Alike(e, j, i)
      BY <1>1, <1>2, <1>4, <3>2, DomainParts DEF Alike
    <3>3. CASE j = i
      <4>1. k \in packed /\ e = d
        BY <1>1, <1>4, <2>3, <2>6, <3>3
      <4> QED
        BY <1>9, <1>10, <2>6, <3>2, <3>3, <4>1
    <3>4. CASE k = i
      <4>1. j \in packed /\ e = d /\ LifetimesOverlap(i, j)
        BY <1>1, <1>4, <2>3, <2>6, <3>4, OverlapSymmetric
      <4> QED
        BY <1>9, <1>10, <2>6, <3>2, <3>4, <4>1
    <3> QED
      BY <3>1, <3>3, <3>4
  <2>7. \A g, h \in Groups(e) :
          g # h /\ slab'[g] = slab'[h] /\ slab'[g] # 0 => GroupsDisjoint(e, g, h)
    BY <1>1, <2>1 DEF Packing
  <2>8. kind' = kind /\ lifetimeOnly' = lifetimeOnly /\ domains' = domains
    BY <1>1 DEF program
  <2>9. /\ Smalls(e)' = Smalls(e) /\ Grouped(e)' = Grouped(e) /\ Groups(e)' = Groups(e)
        /\ \A j, k : LifetimesOverlap(j, k)' <=> LifetimesOverlap(j, k)
        /\ \A j, k : Alike(e, j, k)' <=> Alike(e, j, k)
        /\ \A g, h : GroupsDisjoint(e, g, h)' <=> GroupsDisjoint(e, g, h)
        /\ \A j : Size(j)' = Size(j)
    BY <1>1, SamePlan, SamePairs
  <2>10. \A j, k : Apart(j, k)' <=> Apart(j, k)
    BY <1>1, <2>9 DEF Apart, End
  <2>11. \A j, k \in domains'[e] \cap packed' : j # k /\ LifetimesOverlap(j, k)' =>
           /\ Alike(e, j, k)' => Apart(j, k)'
           /\ j \in Smalls(e)' /\ k \in Smalls(e)' /\ kind'[j] = kind'[k] => bin'[j] # bin'[k]
    BY <2>6, <2>8, <2>9, <2>10
  <2>12. \A j \in Grouped(e)' \cap packed' : lifetimeOnly' => unit'[j] = 0
    BY <2>5, <2>8, <2>9
  <2>13. \A j \in Smalls(e)' \cap packed' : bin'[j] # 0
    BY <2>4, <2>9
  <2>14. \A g, h \in Groups(e)' :
           g # h /\ slab'[g] = slab'[h] /\ slab'[g] # 0 => GroupsDisjoint(e, g, h)'
    BY <2>7, <2>9
  <2> QED
    BY <2>11, <2>12, <2>13, <2>14 DEF Packing
<1>12. PackInv'
  <2>1. unit \in [Allocs -> Nat] /\ slab \in [Allocs -> 0 .. NumAllocs]
    BY DEF PlanInv, PackInv
  <2>2. Planned' /\ domains' = domains
    BY <1>1, SamePlan
  <2>3. (\A j \in Allocs : Aligned(unit[j]))'
    BY <1>1 DEF Aligned, PlanInv, PackInv
  <2>4. packed' \in SUBSET Partitioned'
    BY <1>1, <1>4, <1>6, SamePlan DEF PlanInv, PackInv
  <2> QED
    BY <1>1, <1>9, <1>11, <2>1, <2>2, <2>3, <2>4 DEF PackInv
<1> QED
  BY <1>1, <1>12, SameInvs DEF PlanInv

\* A group shares a slab only with groups it is never alive with.
LEMMA AssignSlabHolds ==
  ASSUME PlanInv, NEW d \in 1 .. NumAllocs, AssignSlab(d)
  PROVE  PlanInv'
<1>1. /\ Planned /\ d \in DOMAIN domains
      /\ UNCHANGED <<program, reuse, domains>> /\ unit' = unit /\ bin' = bin
      /\ packed' = packed
  BY DEF AssignSlab, Current
<1>2. DomainsTyped /\ GroupsNamed
  BY GroupsAreNamed DEF PlanInv, DomainsInv, DomainsTyped
<1> DEFINE Accepts(g, s) == \A h \in Groups(d) : slab[h] = s => GroupsDisjoint(d, g, h)
           Free(g) == {s \in 1 .. NumAllocs : Accepts(g, s)}
<1>3. PICK g \in Groups(d) : slab[g] = 0 /\ slab' = [slab EXCEPT ![g] = Min(Free(g))]
  BY DEF AssignSlab
<1>4. ASSUME NEW e \in DOMAIN domains
      PROVE  Groups(e) \subseteq Grouped(e) /\ Grouped(e) \subseteq domains[e]
             /\ Groups(e) \in SUBSET Allocs
  <2>1. Groups(e) \subseteq Grouped(e)
    BY <1>2 DEF Groups, GroupsNamed
  <2> QED
    BY <1>2, <2>1, DomainParts
<1>5. g \in Allocs /\ g \in domains[d] /\ slab \in [Allocs -> 0 .. NumAllocs]
  BY <1>1, <1>4 DEF PlanInv, PackInv
<1>6. Min(Free(g)) \in Free(g)
  <2>1. PICK s \in Allocs : \A h \in Groups(d) \ {g} : slab[h] # s
    <3>1. Groups(d) \ {g} \in SUBSET Allocs /\ Groups(d) \ {g} # Allocs
      BY <1>1, <1>4, <1>5
    <3> QED
      BY <3>1, SpareNumber
  <2>2. s \in 1 .. NumAllocs /\ s # 0
    BY <2>1, AllocsAre DEF Allocs
  <2>3. s \in Free(g)
    BY <1>3, <2>1, <2>2
  <2>4. Free(g) \in SUBSET Nat
    BY PlanAssumption
  <2> HIDE DEF Free
  <2> QED
    BY <2>3, <2>4, MinOfNats
<1>7. PICK s \in 1 .. NumAllocs : s = Min(Free(g)) /\ Accepts(g, s)
  BY <1>6
<1> HIDE DEF Free
<1>8. /\ slab'[g] = s /\ slab' \in [Allocs -> 0 .. NumAllocs] /\ s # 0
      /\ \A h \in Allocs : h # g => slab'[h] = slab[h]
  <2>1. s \in 0 .. NumAllocs /\ s # 0
    BY PlanAssumption
  <2> QED
    BY <1>3, <1>5, <1>7, <2>1
<1>9. \A e, h, k : GroupsDisjoint(e, h, k) <=> GroupsDisjoint(e, k, h)
  BY OverlapSymmetric DEF GroupsDisjoint
<1>10. ASSUME NEW e \in DOMAIN domains
       PROVE  Packing(e)'
  <2>1. Packing(e)
    BY DEF PlanInv, PackInv
  <2>2. g \in domains[e] => e = d
    BY <1>1, <1>5, OneDomain
  <2>3. ASSUME NEW h \in Groups(e), NEW k \in Groups(e), h # k,
               slab'[h] = slab'[k], slab'[h] # 0
        PROVE  GroupsDisjoint(e, h, k)
    <3>1. h \in Allocs /\ k \in Allocs /\ h \in domains[e] /\ k \in domains[e]
      BY <1>4
    <3>2. CASE h # g /\ k # g
      BY <1>8, <2>1, <2>3, <3>1, <3>2 DEF Packing
    <3>3. CASE h = g
      <4>1. e = d /\ slab[k] = s
        BY <1>8, <2>2, <2>3, <3>1, <3>3
      <4> QED
        BY <1>7, <3>3, <4>1
    <3>4. CASE k = g
      <4>1. e = d /\ slab[h] = s
        BY <1>8, <2>2, <2>3, <3>1, <3>4
      <4> QED
        BY <1>7, <1>9, <3>4, <4>1
    <3> QED
      BY <3>2, <3>3, <3>4
  <2>4. kind' = kind /\ lifetimeOnly' = lifetimeOnly /\ domains' = domains
    BY <1>1 DEF program
  <2>5. /\ Smalls(e)' = Smalls(e) /\ Grouped(e)' = Grouped(e) /\ Groups(e)' = Groups(e)
        /\ \A j, k : LifetimesOverlap(j, k)' <=> LifetimesOverlap(j, k)
        /\ \A j, k : Alike(e, j, k)' <=> Alike(e, j, k)
        /\ \A h, k : GroupsDisjoint(e, h, k)' <=> GroupsDisjoint(e, h, k)
        /\ \A j : Size(j)' = Size(j)
    BY <1>1, SamePlan, SamePairs
  <2>6. \A j, k : Apart(j, k)' <=> Apart(j, k)
    BY <1>1, <2>5 DEF Apart, End
  <2>7. \A h, k \in Groups(e)' :
          h # k /\ slab'[h] = slab'[k] /\ slab'[h] # 0 => GroupsDisjoint(e, h, k)'
    BY <2>3, <2>5
  <2>8. \A j, k \in domains'[e] \cap packed' : j # k /\ LifetimesOverlap(j, k)' =>
           /\ Alike(e, j, k)' => Apart(j, k)'
           /\ j \in Smalls(e)' /\ k \in Smalls(e)' /\ kind'[j] = kind'[k] => bin'[j] # bin'[k]
    BY <1>1, <2>1, <2>4, <2>5, <2>6 DEF Packing
  <2>9. \A j \in Grouped(e)' \cap packed' : lifetimeOnly' => unit'[j] = 0
    BY <1>1, <2>1, <2>4, <2>5 DEF Packing
  <2>10. \A j \in Smalls(e)' \cap packed' : bin'[j] # 0
    BY <1>1, <2>1, <2>5 DEF Packing
  <2> QED
    BY <2>7, <2>8, <2>9, <2>10 DEF Packing
<1>11. PackInv'
  <2>1. unit \in [Allocs -> Nat] /\ bin \in [Allocs -> 0 .. NumAllocs]
    BY DEF PlanInv, PackInv
  <2>2. Planned' /\ domains' = domains
    BY <1>1, SamePlan
  <2>3. (\A j \in Allocs : Aligned(unit[j]))'
    BY <1>1 DEF Aligned, PlanInv, PackInv
  <2>4. packed' \in SUBSET Partitioned'
    BY <1>1, SamePlan DEF PlanInv, PackInv
  <2> QED
    BY <1>1, <1>8, <1>10, <2>1, <2>2, <2>3, <2>4 DEF PackInv
<1> QED
  BY <1>1, <1>11, SameInvs DEF PlanInv

LEMMA NextHolds == PlanInv /\ [Next]_vars => PlanInv'
<1> SUFFICES ASSUME PlanInv, [Next]_vars PROVE PlanInv'
  OBVIOUS
<1>1. CASE UNCHANGED vars
  <2>1. UNCHANGED <<program, reuse, domains>> /\ UNCHANGED packing
    BY <1>1 DEF vars
  <2>2. PackInv'
    <3>1. \A d \in DOMAIN domains : Packing(d)' <=> Packing(d)
      <4> SUFFICES ASSUME NEW d \in DOMAIN domains PROVE Packing(d)' <=> Packing(d)
        OBVIOUS
      <4>1. kind' = kind /\ lifetimeOnly' = lifetimeOnly /\ domains' = domains
        BY <2>1 DEF program
      <4>2. unit' = unit /\ bin' = bin /\ slab' = slab /\ packed' = packed
        BY <2>1 DEF packing
      <4>3. /\ Smalls(d)' = Smalls(d) /\ Grouped(d)' = Grouped(d) /\ Groups(d)' = Groups(d)
            /\ \A j, k : LifetimesOverlap(j, k)' <=> LifetimesOverlap(j, k)
            /\ \A j, k : Alike(d, j, k)' <=> Alike(d, j, k)
            /\ \A h, k : GroupsDisjoint(d, h, k)' <=> GroupsDisjoint(d, h, k)
            /\ \A j : Size(j)' = Size(j)
        BY <2>1, SamePlan, SamePairs
      <4>4. \A j, k : Apart(j, k)' <=> Apart(j, k)
        BY <4>2, <4>3 DEF Apart, End
      <4> QED
        BY <4>1, <4>2, <4>3, <4>4 DEF Packing
    <3>2. (Planned' <=> Planned) /\ Partitioned' = Partitioned
      BY <2>1, SamePlan
    <3>3. unit' = unit /\ bin' = bin /\ slab' = slab /\ packed' = packed /\ domains' = domains
      BY <2>1 DEF packing
    <3> QED
      BY <3>1, <3>2, <3>3 DEF PlanInv, PackInv, Aligned
  <2> QED
    BY <2>1, <2>2, SameInvs DEF PlanInv
<1>2. CASE AssignSlot
  BY <1>2, AssignSlotHolds
<1>3. CASE AssignDomain
  BY <1>3, AssignDomainHolds
<1>4. ASSUME NEW d \in 1 .. NumAllocs,
             PackStatic(d) \/ PackSmall(d) \/ PackGroup(d) \/ AssignSlab(d)
      PROVE  PlanInv'
  BY <1>4, PackStaticHolds, PackSmallHolds, PackGroupHolds, AssignSlabHolds
<1> QED
  BY <1>1, <1>2, <1>3, <1>4 DEF Next

LEMMA PlanInvariant == Spec => []PlanInv
BY InitHolds, NextHolds, PTL DEF Spec

(***************************************************************************)
(* The emitted arithmetic, for dimensions F, once a domain is packed.      *)
(***************************************************************************)
Emitted(d) ==
  /\ PlanInv /\ d \in DOMAIN domains /\ domains[d] \subseteq packed
  /\ \A g \in Groups(d) : slab[g] # 0

LEMMA FactorIs ==
  ASSUME PlanInv, NEW F \in [Dims -> Factors], NEW i \in Allocs
  PROVE  /\ Factor(i, F) \in Nat /\ Bytes(i, F) \in Nat /\ kind[i].bytes \in Nat
         /\ Bytes(i, F) = kind[i].bytes * Factor(i, F)
         /\ \A j \in Allocs : kind[j].dim = kind[i].dim => Factor(j, F) = Factor(i, F)
<1>1. kind[i].bytes \in Nat /\ (kind[i].dim = Static \/ kind[i].dim \in Dims)
  BY KindsAre DEF PlanInv, ProgramInv
<1>2. Factor(i, F) \in Nat
  BY <1>1, PlanAssumption DEF Factor
<1>3. kind[i].bytes * Factor(i, F) \in Nat
  BY <1>1, <1>2
<1> QED
  BY <1>1, <1>2, <1>3 DEF Bytes, Factor

LEMMA EndIs ==
  ASSUME PlanInv, NEW i \in Allocs
  PROVE  /\ End(i) \in Nat /\ Aligned(End(i)) /\ unit[i] \in Nat /\ Aligned(unit[i])
         /\ kind[i].bytes \in Nat /\ unit[i] + kind[i].bytes <= End(i)
<1>1. /\ kind[i].bytes \in Nat /\ Size(i) \in Nat /\ kind[i].bytes <= Size(i)
      /\ Aligned(Size(i)) /\ unit[i] \in Nat /\ Aligned(unit[i])
  BY KindsAre DEF PlanInv, ProgramInv, PackInv
<1>2. Aligned(unit[i] + Size(i))
  BY <1>1, AlignedSum
<1> QED
  BY <1>1, <1>2 DEF End

LEMMA StaticPoolIs ==
  ASSUME PlanInv, NEW d \in DOMAIN domains
  PROVE  /\ StaticPoolSize(d) \in Nat /\ Aligned(StaticPoolSize(d))
         /\ \A i \in Statics(d) : End(i) <= StaticPoolSize(d)
<1> DEFINE ends == [i \in Allocs |-> End(i)]
           M == Max({0} \cup {ends[i] : i \in Statics(d)})
<1>1. Statics(d) \in SUBSET Allocs
  BY DomainParts DEF PlanInv, DomainsInv, DomainsTyped
<1>2. \A i \in Statics(d) : ends[i] = End(i) /\ ends[i] \in Nat /\ Aligned(ends[i])
  BY <1>1, EndIs
<1>3. StaticPoolSize(d) = M
  <2>1. {End(i) : i \in Statics(d)} = {ends[i] : i \in Statics(d)}
    BY <1>2
  <2> QED
    BY <2>1 DEF StaticPoolSize
<1>4. \A i \in Statics(d) : ends[i] \in Nat
  BY <1>2
<1> HIDE DEF ends
<1>5. M \in Nat /\ \A i \in Statics(d) : ends[i] <= M
  BY <1>1, <1>4, MaxOrZero
<1>6. M = 0 \/ \E i \in Statics(d) : M = ends[i]
  BY <1>1, <1>4, MaxOrZero
<1>7. Aligned(M)
  <2> HIDE DEF M
  <2> QED
    BY <1>2, <1>6, AlignedZero
<1> HIDE DEF M
<1> QED
  BY <1>2, <1>3, <1>5, <1>7

\* A group reaches as far as its members.
LEMMA SpanIs ==
  ASSUME NEW d, Emitted(d), NEW g \in Groups(d)
  PROVE  /\ SpanUnits(d, g) \in Nat
         /\ \A i \in Members(d, g) : /\ unit[i] + kind[i].bytes <= SpanUnits(d, g)
                                     /\ kind[i].dim = kind[g].dim /\ i \in Allocs
<1> DEFINE f == [i \in Allocs |-> IF lifetimeOnly THEN kind[i].bytes ELSE End(i)]
           M == Max({f[i] : i \in Members(d, g)})
<1>0. PlanInv /\ d \in DOMAIN domains /\ DomainsTyped /\ GroupsNamed
  BY GroupsAreNamed DEF Emitted, PlanInv, DomainsInv, DomainsTyped
<1>1. Members(d, g) \in SUBSET Allocs /\ Members(d, g) \subseteq Grouped(d)
  BY <1>0, DomainParts DEF Members
<1>2. Members(d, g) # {}
  BY DEF Groups, Members
<1>3. \A i \in Members(d, g) :
        f[i] \in Nat /\ f[i] = IF lifetimeOnly THEN kind[i].bytes ELSE End(i)
  BY <1>0, <1>1, EndIs
<1>4. SpanUnits(d, g) = M
  <2>1. {IF lifetimeOnly THEN kind[i].bytes ELSE End(i) : i \in Members(d, g)}
          = {f[i] : i \in Members(d, g)}
    <3> HIDE DEF f
    <3> QED
      BY <1>3
  <2> QED
    BY <2>1 DEF SpanUnits
<1>5. \A i \in Members(d, g) : f[i] \in Nat
  BY <1>3
<1>6. M \in Nat /\ \A i \in Members(d, g) : f[i] <= M
  <2> HIDE DEF f
  <2> QED
    BY <1>1, <1>2, <1>5, MaxOf
<1>7. ASSUME NEW i \in Members(d, g)
      PROVE  unit[i] + kind[i].bytes <= f[i] /\ kind[i].dim = kind[g].dim /\ i \in Allocs
  <2>1. i \in Allocs /\ i \in Grouped(d) /\ GroupOf(d, i) = g /\ i \in domains[d]
    BY <1>0, <1>1, DomainParts DEF Members
  <2>2. kind[i].dim = kind[g].dim
    BY <1>0, <2>1 DEF GroupsNamed
  <2>3. unit[i] + kind[i].bytes <= End(i) /\ kind[i].bytes \in Nat
    BY <1>0, <2>1, EndIs
  <2>4. lifetimeOnly => unit[i] = 0
    BY <1>0, <2>1 DEF Emitted, PlanInv, PackInv, Packing
  <2> QED
    BY <1>3, <2>1, <2>2, <2>3, <2>4
<1>8. ASSUME NEW i \in Members(d, g)
      PROVE  unit[i] + kind[i].bytes <= M
  <2>1. unit[i] \in Nat /\ kind[i].bytes \in Nat
    BY <1>0, <1>1, EndIs
  <2>2. f[i] \in Nat /\ f[i] <= M /\ unit[i] + kind[i].bytes <= f[i]
    BY <1>5, <1>6, <1>7
  <2> HIDE DEF M, f
  <2> QED
    BY <1>6, <2>1, <2>2
<1> QED
  BY <1>4, <1>6, <1>7, <1>8

\* A slab is as wide as any of its groups, and aligned although the widest
\* one is known at run time only.
LEMMA SlabWidthIs ==
  ASSUME NEW d, Emitted(d), NEW F \in [Dims -> Factors], NEW s \in Slabs(d)
  PROVE  /\ SlabWidth(d, s, F) \in Nat /\ Aligned(SlabWidth(d, s, F))
         /\ \A g \in SlabMembers(d, s) : SpanUnits(d, g) * Factor(g, F) <= SlabWidth(d, s, F)
<1> DEFINE M == SlabMembers(d, s)
           f == [g \in Allocs |-> SpanUnits(d, g) * Factor(g, F)]
           h == [g \in Allocs |-> SpanUnits(d, g)]
           width == Max({f[g] : g \in M})
           span == Max({h[g] : g \in M})
           common == \A g, k \in M : kind[g].dim = kind[k].dim
           needAlign == IF common THEN span % Align # 0
                        ELSE \E g \in M : SpanUnits(d, g) % Align # 0
<1>0. PlanInv /\ d \in DOMAIN domains /\ DomainsTyped /\ GroupsNamed
  BY GroupsAreNamed DEF Emitted, PlanInv, DomainsInv, DomainsTyped
<1>1. M # {} /\ M \subseteq Groups(d) /\ M \in SUBSET Allocs
  <2>1. M # {} /\ M \subseteq Groups(d)
    BY DEF Slabs, SlabMembers
  <2>2. Groups(d) \subseteq Grouped(d)
    BY <1>0 DEF Groups, GroupsNamed
  <2> QED
    BY <1>0, <2>1, <2>2, DomainParts
<1>2. \A g \in M : /\ SpanUnits(d, g) \in Nat /\ Factor(g, F) \in Nat
                   /\ h[g] = SpanUnits(d, g) /\ f[g] = SpanUnits(d, g) * Factor(g, F)
  BY <1>0, <1>1, SpanIs, FactorIs
<1>3. \A g \in M : h[g] \in Nat /\ f[g] \in Nat
  <2> SUFFICES ASSUME NEW g \in M PROVE h[g] \in Nat /\ f[g] \in Nat
    OBVIOUS
  <2>1. PICK a \in Nat, b \in Nat : a = SpanUnits(d, g) /\ b = Factor(g, F)
    BY <1>2
  <2>2. a * b \in Nat
    OBVIOUS
  <2>3. f[g] = a * b /\ h[g] = a
    BY <1>2, <2>1
  <2> HIDE DEF f, h
  <2> QED
    BY <2>2, <2>3
<1>4. SlabWidth(d, s, F) = IF needAlign THEN AlignUp(width) ELSE width
  <2>1. {SpanUnits(d, g) * Factor(g, F) : g \in M} = {f[g] : g \in M}
    BY <1>1
  <2>2. {SpanUnits(d, g) : g \in M} = {h[g] : g \in M}
    BY <1>1
  <2> QED
    BY <2>1, <2>2 DEF SlabWidth
<1> HIDE DEF f, h, M
<1>5. width \in Nat /\ \A g \in M : f[g] <= width
  BY <1>1, <1>3, MaxOf
<1>6. PICK g1 \in M : width = f[g1]
  BY <1>1, <1>3, MaxOf
<1>7. span \in Nat /\ \A g \in M : h[g] <= span
  BY <1>1, <1>3, MaxOf
<1>8. PICK g2 \in M : span = h[g2]
  BY <1>1, <1>3, MaxOf
<1> HIDE DEF width, span
<1>9. CASE needAlign
  <2>1. AlignUp(width) \in Nat /\ width <= AlignUp(width) /\ Aligned(AlignUp(width))
    BY <1>5, AlignUpIs
  <2>2. \A g \in M : f[g] <= AlignUp(width)
    BY <1>3, <1>5, <2>1
  <2> QED
    BY <1>2, <1>4, <1>9, <2>1, <2>2 DEF M
<1>10. CASE ~needAlign
  <2>1. Aligned(width)
    <3>1. CASE ~common
      <4>1. Aligned(SpanUnits(d, g1))
        BY <1>10, <3>1 DEF Aligned
      <4>2. Aligned(SpanUnits(d, g1) * Factor(g1, F))
        BY <1>2, <4>1, AlignedProduct
      <4> QED
        BY <1>2, <1>6, <4>2
    <3>2. CASE common
      <4>1. Aligned(span)
        BY <1>10, <3>2 DEF Aligned
      <4>2. PICK c \in Nat : c = Factor(g1, F) /\ c = Factor(g2, F)
        <5>1. kind[g1].dim = kind[g2].dim /\ g1 \in Allocs /\ g2 \in Allocs
          BY <1>1, <3>2
        <5> QED
          BY <1>0, <5>1, FactorIs
      <4>3. f[g1] = h[g1] * c /\ f[g2] = h[g2] * c
        BY <1>2, <4>2
      <4>4. h[g1] <= h[g2] /\ f[g2] <= f[g1]
        BY <1>5, <1>6, <1>7, <1>8
      <4>5. h[g1] * c <= h[g2] * c /\ h[g1] * c \in Nat /\ h[g2] * c \in Nat
        BY <1>3, <4>2, <4>4, MulMono
      <4>6. width = h[g2] * c
        BY <1>6, <4>3, <4>4, <4>5
      <4>7. Aligned(h[g2] * c)
        BY <1>3, <1>8, <4>1, <4>2, AlignedProduct
      <4> QED
        BY <4>6, <4>7
    <3> QED
      BY <3>1, <3>2
  <2> QED
    BY <1>2, <1>4, <1>5, <1>10, <2>1 DEF M
<1> QED
  BY <1>9, <1>10

\* Where a part of a sum starts, and that the later ones start behind its end.
LEMMA Stacked ==
  ASSUME NEW w, \A i \in Allocs : w[i] \in Nat /\ Aligned(w[i])
  PROVE  /\ \A s \in 1 .. NumAllocs + 1 :
              SumTo(w, s - 1) \in Nat /\ Aligned(SumTo(w, s - 1))
         /\ \A s \in Allocs, t \in 1 .. NumAllocs + 1 :
              s < t => SumTo(w, s - 1) + w[s] <= SumTo(w, t - 1)
<1>0. NumAllocs \in Nat /\ Allocs = 1 .. NumAllocs
  BY PlanAssumption DEF Allocs
<1>1. \A s \in 1 .. NumAllocs + 1 : s - 1 \in 0 .. NumAllocs
  BY <1>0
<1>2. ASSUME NEW s \in Allocs, NEW t \in 1 .. NumAllocs + 1, s < t
      PROVE  SumTo(w, s - 1) + w[s] <= SumTo(w, t - 1)
  <2>1. s \in 0 .. NumAllocs /\ t - 1 \in 0 .. NumAllocs /\ s <= t - 1
    BY <1>0, <1>2
  <2>2. SumTo(w, s) <= SumTo(w, t - 1)
    BY <2>1, SumsGrow
  <2> QED
    BY <2>2, SumsUp
<1> QED
  BY <1>1, <1>2, SumsUp, SumsAligned

LEMMA SlabsStacked ==
  ASSUME NEW d, Emitted(d), NEW F \in [Dims -> Factors]
  PROVE  /\ \A s \in 1 .. NumAllocs + 1 :
              /\ SlabBase(d, s, F) \in Nat /\ Aligned(SlabBase(d, s, F))
              /\ StaticPoolSize(d) <= SlabBase(d, s, F)
         /\ \A s \in Slabs(d) \cap Allocs, t \in 1 .. NumAllocs + 1 :
              s < t => SlabBase(d, s, F) + SlabWidth(d, s, F) <= SlabBase(d, t, F)
<1> DEFINE w == [t \in Allocs |-> IF t \in Slabs(d) THEN SlabWidth(d, t, F) ELSE 0]
<1>1. \A t \in Allocs : w[t] \in Nat /\ Aligned(w[t])
  BY SlabWidthIs, AlignedZero
<1>2. \A t \in Slabs(d) \cap Allocs : w[t] = SlabWidth(d, t, F)
  OBVIOUS
<1>3. \A s : SlabBase(d, s, F) = StaticPoolSize(d) + SumTo(w, s - 1)
  BY DEF SlabBase
<1>4. StaticPoolSize(d) \in Nat /\ Aligned(StaticPoolSize(d))
  BY StaticPoolIs DEF Emitted
<1> HIDE DEF w
<1>5. ASSUME NEW s \in 1 .. NumAllocs + 1
      PROVE  /\ SlabBase(d, s, F) \in Nat /\ Aligned(SlabBase(d, s, F))
             /\ StaticPoolSize(d) <= SlabBase(d, s, F)
  <2>1. SumTo(w, s - 1) \in Nat /\ Aligned(SumTo(w, s - 1))
    BY <1>1, Stacked
  <2>2. Aligned(StaticPoolSize(d) + SumTo(w, s - 1))
    BY <1>4, <2>1, AlignedSum
  <2> QED
    BY <1>3, <1>4, <2>1, <2>2
<1>6. ASSUME NEW s \in Slabs(d) \cap Allocs, NEW t \in 1 .. NumAllocs + 1, s < t
      PROVE  SlabBase(d, s, F) + SlabWidth(d, s, F) <= SlabBase(d, t, F)
  <2>1. SumTo(w, s - 1) + w[s] <= SumTo(w, t - 1)
    BY <1>1, <1>6, Stacked
  <2>2. SumTo(w, s - 1) \in Nat /\ SumTo(w, t - 1) \in Nat
    <3>1. s \in 1 .. NumAllocs + 1
      BY PlanAssumption DEF Allocs
    <3> QED
      BY <1>1, <3>1, Stacked
  <2>3. w[s] = SlabWidth(d, s, F) /\ w[s] \in Nat
    BY <1>1, <1>2
  <2> QED
    BY <1>3, <1>4, <2>1, <2>2, <2>3
<1> QED
  BY <1>5, <1>6

\* A bucket is named by an allocation of its kind, and its bins hold it.
LEMMA BucketIs ==
  ASSUME NEW d, Emitted(d), NEW i \in Smalls(d)
  PROVE  /\ BucketOf(d, i) \in Buckets(d) /\ BucketOf(d, i) \in Allocs
         /\ kind[BucketOf(d, i)] = kind[i]
         /\ NumBins(d, BucketOf(d, i)) \in Nat
         /\ bin[i] \in 1 .. NumBins(d, BucketOf(d, i))
<1> DEFINE C == {j \in Smalls(d) : kind[j] = kind[i]}
           b == BucketOf(d, i)
           B == {j \in Smalls(d) : BucketOf(d, j) = b}
<1>0. /\ PlanInv /\ d \in DOMAIN domains /\ Smalls(d) \in SUBSET Allocs
      /\ bin \in [Allocs -> 0 .. NumAllocs] /\ Smalls(d) \subseteq domains[d]
  BY DomainParts DEF Emitted, PlanInv, DomainsInv, DomainsTyped, PackInv
<1>1. b \in C
  <2>1. C \in SUBSET Nat /\ C # {}
    BY <1>0, AllocsAre
  <2>2. Min(C) \in C
    <3> HIDE DEF C
    <3> QED
      BY <2>1, MinOfNats
  <2> QED
    BY <2>2 DEF BucketOf
<1>2. /\ Max({bin[j] : j \in B}) \in Nat
      /\ \A j \in B : bin[j] <= Max({bin[k] : k \in B})
  <2>1. B \in SUBSET Allocs /\ B # {} /\ \A j \in B : bin[j] \in Nat
    BY <1>0, PlanAssumption
  <2> HIDE DEF B
  <2> QED
    BY <2>1, MaxOf
<1>3. NumBins(d, b) \in Nat /\ bin[i] <= NumBins(d, b)
  BY <1>2 DEF NumBins
<1>4. bin[i] # 0 /\ bin[i] \in Nat
  <2>1. i \in packed
    BY <1>0 DEF Emitted
  <2> QED
    BY <1>0, <2>1, PlanAssumption DEF PlanInv, PackInv, Packing
<1>5. bin[i] \in 1 .. NumBins(d, b)
  <2> HIDE DEF b
  <2> QED
    BY <1>3, <1>4
<1> QED
  BY <1>0, <1>1, <1>3, <1>5 DEF Buckets

LEMMA BinSizeIs ==
  ASSUME PlanInv, NEW F \in [Dims -> Factors], NEW i \in Allocs
  PROVE  /\ BinSize(i, F) \in Nat /\ Aligned(BinSize(i, F)) /\ Bytes(i, F) <= BinSize(i, F)
         /\ \A j \in Allocs : kind[j] = kind[i] => BinSize(j, F) = BinSize(i, F)
<1>1. Bytes(i, F) \in Nat
  BY FactorIs
<1>2. \A j \in Allocs : kind[j] = kind[i] => Bytes(j, F) = Bytes(i, F)
  BY DEF Bytes, Factor
<1> QED
  BY <1>1, <1>2, AlignUpIs DEF BinSize

LEMMA BucketsStacked ==
  ASSUME NEW d, Emitted(d), NEW F \in [Dims -> Factors]
  PROVE  /\ \A b \in 1 .. NumAllocs + 1 :
              /\ BucketBase(d, b, F) \in Nat /\ Aligned(BucketBase(d, b, F))
              /\ SlabBase(d, NumAllocs + 1, F) <= BucketBase(d, b, F)
         /\ \A b \in Buckets(d), t \in 1 .. NumAllocs + 1 :
              b < t => BucketBase(d, b, F) + BinSize(b, F) * NumBins(d, b)
                         <= BucketBase(d, t, F)
<1> DEFINE w == [c \in Allocs |-> IF c \in Buckets(d)
                                  THEN BinSize(c, F) * NumBins(d, c) ELSE 0]
           base == SlabBase(d, NumAllocs + 1, F)
<1>0. PlanInv /\ Buckets(d) \subseteq Allocs
  BY BucketIs DEF Buckets, Emitted
<1>1. \A c \in Allocs : w[c] \in Nat /\ Aligned(w[c])
  <2> SUFFICES ASSUME NEW c \in Allocs PROVE w[c] \in Nat /\ Aligned(w[c])
    OBVIOUS
  <2>1. CASE c \in Buckets(d)
    <3>1. PICK n \in Nat : n = NumBins(d, c)
      BY <2>1, BucketIs DEF Buckets
    <3>2. PICK z \in Nat : z = BinSize(c, F) /\ Aligned(z)
      BY <1>0, BinSizeIs
    <3>3. z * n \in Nat /\ Aligned(z * n)
      BY <3>2, AlignedProduct
    <3> QED
      BY <2>1, <3>1, <3>2, <3>3
  <2>2. CASE c \notin Buckets(d)
    BY <2>2, AlignedZero
  <2> QED
    BY <2>1, <2>2
<1>2. \A c \in Buckets(d) : w[c] = BinSize(c, F) * NumBins(d, c)
  BY <1>0
<1>3. \A b : BucketBase(d, b, F) = base + SumTo(w, b - 1)
  BY DEF BucketBase
<1>4. base \in Nat /\ Aligned(base)
  <2>1. NumAllocs + 1 \in 1 .. NumAllocs + 1
    BY PlanAssumption
  <2> QED
    BY <2>1, SlabsStacked
<1> HIDE DEF w, base
<1>5. ASSUME NEW b \in 1 .. NumAllocs + 1
      PROVE  /\ BucketBase(d, b, F) \in Nat /\ Aligned(BucketBase(d, b, F))
             /\ base <= BucketBase(d, b, F)
  <2>1. SumTo(w, b - 1) \in Nat /\ Aligned(SumTo(w, b - 1))
    BY <1>1, Stacked
  <2>2. Aligned(base + SumTo(w, b - 1))
    BY <1>4, <2>1, AlignedSum
  <2> QED
    BY <1>3, <1>4, <2>1, <2>2
<1>6. ASSUME NEW b \in Buckets(d), NEW t \in 1 .. NumAllocs + 1, b < t
      PROVE  BucketBase(d, b, F) + BinSize(b, F) * NumBins(d, b) <= BucketBase(d, t, F)
  <2>0. b \in Allocs
    BY <1>0
  <2>1. SumTo(w, b - 1) + w[b] <= SumTo(w, t - 1)
    BY <1>1, <1>6, <2>0, Stacked
  <2>2. SumTo(w, b - 1) \in Nat /\ SumTo(w, t - 1) \in Nat
    <3>1. b \in 1 .. NumAllocs + 1
      BY <2>0, PlanAssumption DEF Allocs
    <3> QED
      BY <1>1, <3>1, Stacked
  <2>3. w[b] = BinSize(b, F) * NumBins(d, b) /\ w[b] \in Nat
    BY <1>1, <1>2, <2>0
  <2>4. /\ BucketBase(d, b, F) = base + SumTo(w, b - 1)
        /\ BucketBase(d, t, F) = base + SumTo(w, t - 1)
    BY <1>3
  <2>5. base + SumTo(w, b - 1) + w[b] <= base + SumTo(w, t - 1)
    BY <1>4, <2>1, <2>2, <2>3
  <2> QED
    BY <2>3, <2>4, <2>5
<1> QED
  BY <1>5, <1>6 DEF base

(***************************************************************************)
(* Where the three kinds of allocations lie in the pool of their domain.   *)
(***************************************************************************)
LEMMA StaticPlace ==
  ASSUME NEW d, Emitted(d), NEW F \in [Dims -> Factors], NEW i \in Statics(d)
  PROVE  /\ Offset(d, i, F) = unit[i] /\ unit[i] \in Nat /\ Aligned(unit[i])
         /\ Bytes(i, F) \in Nat /\ unit[i] + Bytes(i, F) <= End(i)
         /\ End(i) \in Nat /\ End(i) <= StaticPoolSize(d)
<1>0. PlanInv /\ d \in DOMAIN domains /\ i \in Allocs
  BY DomainParts DEF Emitted, PlanInv, DomainsInv, DomainsTyped
<1>1. kind[i].dim = Static /\ kind[i].bytes \in Nat
  BY <1>0, KindsAre DEF PlanInv, ProgramInv, Statics, StaticByteSize
<1>2. Bytes(i, F) = kind[i].bytes
  BY <1>1 DEF Bytes, Factor
<1> QED
  BY <1>0, <1>1, <1>2, EndIs, StaticPoolIs DEF Offset

LEMMA GroupedPlace ==
  ASSUME NEW d, Emitted(d), NEW F \in [Dims -> Factors], NEW i \in Grouped(d),
         NEW s, s = slab[GroupOf(d, i)]
  PROVE  /\ GroupOf(d, i) \in Groups(d) /\ i \in Members(d, GroupOf(d, i))
         /\ s \in Slabs(d) \cap Allocs
         /\ Offset(d, i, F) = SlabBase(d, s, F) + unit[i] * Factor(i, F)
         /\ Offset(d, i, F) \in Nat /\ Aligned(Offset(d, i, F))
         /\ SlabBase(d, s, F) \in Nat /\ SlabWidth(d, s, F) \in Nat /\ Bytes(i, F) \in Nat
         /\ SlabBase(d, s, F) <= Offset(d, i, F)
         /\ Offset(d, i, F) + Bytes(i, F) <= SlabBase(d, s, F) + SlabWidth(d, s, F)
<1> DEFINE g == GroupOf(d, i)
<1>0. /\ PlanInv /\ d \in DOMAIN domains /\ i \in Allocs /\ DomainsTyped /\ GroupsNamed
      /\ Grouped(d) \subseteq Allocs /\ i \notin Statics(d) /\ i \notin Smalls(d)
  BY DomainParts, GroupsAreNamed DEF Emitted, PlanInv, DomainsInv, DomainsTyped
<1>1. g \in Groups(d) /\ i \in Members(d, g) /\ g \in Allocs
  BY <1>0 DEF Groups, Members, GroupsNamed
<1>2. s \in Slabs(d) /\ s \in Allocs /\ g \in SlabMembers(d, s)
  <2>1. slab[g] \in 0 .. NumAllocs /\ slab[g] # 0
    BY <1>1 DEF Emitted, PlanInv, PackInv
  <2>2. s \in Allocs
    BY <2>1, PlanAssumption DEF Allocs
  <2> QED
    BY <1>1, <2>2 DEF Slabs, SlabMembers
<1>3. PICK B \in Nat : B = SlabBase(d, s, F) /\ Aligned(B)
  <2>1. s \in 1 .. NumAllocs + 1
    BY <1>2, PlanAssumption DEF Allocs
  <2> QED
    BY <2>1, SlabsStacked
<1>4. PICK W \in Nat : W = SlabWidth(d, s, F) /\ SpanUnits(d, g) * Factor(g, F) <= W
  BY <1>2, SlabWidthIs
<1>5. PICK c \in Nat : c = Factor(i, F) /\ c = Factor(g, F)
  BY <1>0, <1>1, SpanIs, FactorIs
<1>6. PICK u \in Nat, n \in Nat : u = unit[i] /\ n = kind[i].bytes /\ Aligned(u)
  BY <1>0, EndIs
<1>7. PICK span \in Nat : span = SpanUnits(d, g) /\ u + n <= span
  BY <1>1, <1>6, SpanIs
<1>8. Offset(d, i, F) = B + u * c /\ Bytes(i, F) = n * c
  BY <1>0, <1>3, <1>5, <1>6 DEF Offset, Bytes
<1>9. u * c \in Nat /\ n * c \in Nat /\ Aligned(u * c)
  BY <1>6, AlignedProduct
<1>10. u * c + n * c <= span * c /\ span * c \in Nat
  <2>1. (u + n) * c <= span * c /\ span * c \in Nat
    BY <1>7, MulMono
  <2>2. (u + n) * c = u * c + n * c
    OBVIOUS
  <2> QED
    BY <2>1, <2>2
<1>11. span * c <= W
  BY <1>4, <1>5, <1>7
<1>12. Aligned(B + u * c)
  BY <1>3, <1>9, AlignedSum
<1>13. B + u * c \in Nat /\ B <= B + u * c /\ B + u * c + n * c <= B + W
  <2>1. PICK x \in Nat, y \in Nat, z \in Nat : x = u * c /\ y = n * c /\ z = span * c
    BY <1>9, <1>10
  <2>2. B + x \in Nat /\ B <= B + x /\ B + x + y <= B + W
    BY <1>10, <1>11, <2>1
  <2> QED
    BY <2>1, <2>2
<1>14. Offset(d, i, F) = SlabBase(d, s, F) + unit[i] * Factor(i, F)
  BY <1>3, <1>5, <1>6, <1>8
<1> QED
  BY <1>1, <1>2, <1>3, <1>4, <1>8, <1>9, <1>12, <1>13, <1>14

LEMMA SmallPlace ==
  ASSUME NEW d, Emitted(d), NEW F \in [Dims -> Factors], NEW i \in Smalls(d),
         NEW b, b = BucketOf(d, i)
  PROVE  /\ b \in Buckets(d) \cap Allocs /\ kind[b] = kind[i] /\ bin[i] \in Nat \ {0}
         /\ Offset(d, i, F) = BucketBase(d, b, F) + (bin[i] - 1) * BinSize(b, F)
         /\ Offset(d, i, F) \in Nat /\ Aligned(Offset(d, i, F))
         /\ BucketBase(d, b, F) \in Nat /\ BinSize(b, F) \in Nat
         /\ BinSize(b, F) * NumBins(d, b) \in Nat
         /\ Bytes(i, F) \in Nat /\ Bytes(i, F) <= BinSize(b, F)
         /\ BucketBase(d, b, F) <= Offset(d, i, F)
         /\ Offset(d, i, F) + Bytes(i, F) <= BucketBase(d, b, F) + BinSize(b, F) * NumBins(d, b)
<1>0. /\ PlanInv /\ d \in DOMAIN domains /\ i \in Allocs /\ i \notin Statics(d)
  BY DomainParts DEF Emitted, PlanInv, DomainsInv, DomainsTyped
<1>1. b \in Buckets(d) /\ b \in Allocs /\ kind[b] = kind[i]
  BY BucketIs
<1>2. PICK n \in Nat : n = NumBins(d, b)
  BY BucketIs
<1>3. PICK k \in Nat : k + 1 = bin[i] /\ k + 1 <= n /\ k = bin[i] - 1
  <2>1. bin[i] \in 1 .. n
    BY <1>2, BucketIs
  <2> QED
    BY <2>1
<1>4. PICK z \in Nat : z = BinSize(b, F) /\ z = BinSize(i, F) /\ Aligned(z) /\ Bytes(i, F) <= z
  BY <1>0, <1>1, BinSizeIs
<1>5. PICK B \in Nat : B = BucketBase(d, b, F) /\ Aligned(B)
  <2>1. b \in 1 .. NumAllocs + 1
    BY <1>1, PlanAssumption DEF Allocs
  <2> QED
    BY <2>1, BucketsStacked
<1>6. PICK y \in Nat : y = Bytes(i, F)
  BY <1>0, FactorIs
<1>7. Offset(d, i, F) = B + k * z
  BY <1>0, <1>3, <1>4, <1>5 DEF Offset
<1>8. k * z \in Nat /\ Aligned(k * z)
  BY <1>4, AlignedProduct
<1>9. k * z + z <= z * n /\ z * n \in Nat
  <2>1. (k + 1) * z <= n * z /\ n * z \in Nat
    BY <1>3, MulMono
  <2>2. (k + 1) * z = k * z + z /\ n * z = z * n
    OBVIOUS
  <2> QED
    BY <2>1, <2>2
<1>10. Aligned(B + k * z)
  BY <1>5, <1>8, AlignedSum
<1>11. B + k * z \in Nat /\ B <= B + k * z /\ B + k * z + y <= B + z * n
  <2>1. PICK x \in Nat, v \in Nat : x = k * z /\ v = z * n
    BY <1>8, <1>9
  <2>2. B + x \in Nat /\ B <= B + x /\ B + x + y <= B + v
    BY <1>4, <1>6, <1>9, <2>1
  <2> QED
    BY <2>1, <2>2
<1>12. bin[i] \in Nat \ {0}
  BY <1>3
<1>13. Offset(d, i, F) = BucketBase(d, b, F) + (bin[i] - 1) * BinSize(b, F)
  BY <1>3, <1>4, <1>5, <1>7
<1> QED
  BY <1>1, <1>2, <1>4, <1>5, <1>6, <1>7, <1>9, <1>10, <1>11, <1>12, <1>13

\* Static allocations, slabs and buckets follow each other in the pool.
LEMMA Layers ==
  ASSUME NEW d, Emitted(d), NEW F \in [Dims -> Factors], NEW i \in domains[d]
  PROVE  LET top == SlabBase(d, NumAllocs + 1, F)
             a == Offset(d, i, F)
         IN /\ i \in Statics(d) \/ i \in Grouped(d) \/ i \in Smalls(d)
            /\ a \in Nat /\ Aligned(a) /\ Bytes(i, F) \in Nat
            /\ StaticPoolSize(d) \in Nat /\ top \in Nat /\ PoolSize(d, F) \in Nat
            /\ StaticPoolSize(d) <= top /\ top <= PoolSize(d, F)
            /\ i \in Statics(d) => a + Bytes(i, F) <= StaticPoolSize(d)
            /\ i \in Grouped(d) => StaticPoolSize(d) <= a /\ a + Bytes(i, F) <= top
            /\ i \in Smalls(d) => top <= a /\ a + Bytes(i, F) <= PoolSize(d, F)
<1> DEFINE top == SlabBase(d, NumAllocs + 1, F)
           a == Offset(d, i, F)
           size == PoolSize(d, F)
<1>0. /\ PlanInv /\ d \in DOMAIN domains
      /\ i \in Statics(d) \/ i \in Grouped(d) \/ i \in Smalls(d)
  BY DomainParts DEF Emitted, PlanInv, DomainsInv, DomainsTyped
<1>1. /\ NumAllocs + 1 \in 1 .. NumAllocs + 1
      /\ \A s \in Allocs : s < NumAllocs + 1 /\ s \in 1 .. NumAllocs + 1
  BY PlanAssumption DEF Allocs
<1>2. /\ StaticPoolSize(d) \in Nat /\ top \in Nat /\ size \in Nat
      /\ StaticPoolSize(d) <= top /\ top <= size
  BY <1>0, <1>1, StaticPoolIs, SlabsStacked, BucketsStacked DEF PoolSize
<1>3. CASE i \in Statics(d)
  <2>1. /\ a \in Nat /\ Aligned(a) /\ Bytes(i, F) \in Nat
        /\ a + Bytes(i, F) <= StaticPoolSize(d)
    <3>1. PICK u \in Nat, e \in Nat, y \in Nat :
            /\ u = Offset(d, i, F) /\ Aligned(u) /\ y = Bytes(i, F) /\ u + y <= e
            /\ e <= StaticPoolSize(d)
      BY <1>3, StaticPlace
    <3> QED
      BY <1>2, <3>1
  <2>2. i \notin Grouped(d) /\ i \notin Smalls(d)
    BY <1>0, <1>3, DomainParts DEF PlanInv, DomainsInv, DomainsTyped
  <2> QED
    BY <1>2, <1>3, <2>1, <2>2
<1>4. CASE i \in Grouped(d)
  <2>1. PICK s : s = slab[GroupOf(d, i)]
    OBVIOUS
  <2>2. PICK B \in Nat, W \in Nat : B = SlabBase(d, s, F) /\ W = SlabWidth(d, s, F)
    BY <1>4, <2>1, GroupedPlace
  <2>3. /\ a \in Nat /\ Aligned(a) /\ Bytes(i, F) \in Nat
        /\ B <= a /\ a + Bytes(i, F) <= B + W /\ s \in Slabs(d) \cap Allocs
    BY <1>4, <2>1, <2>2, GroupedPlace
  <2>4. StaticPoolSize(d) <= B
    BY <1>1, <2>2, <2>3, SlabsStacked
  <2>5. B + W <= top
    BY <1>1, <2>2, <2>3, SlabsStacked
  <2>6. i \notin Statics(d) /\ i \notin Smalls(d)
    BY <1>0, <1>4, DomainParts DEF PlanInv, DomainsInv, DomainsTyped
  <2>7. StaticPoolSize(d) <= a /\ a + Bytes(i, F) <= top
    <3> HIDE DEF a, top
    <3> QED
      BY <1>2, <2>3, <2>4, <2>5
  <2> QED
    BY <1>2, <1>4, <2>3, <2>6, <2>7
<1>5. CASE i \in Smalls(d)
  <2>1. PICK b : b = BucketOf(d, i)
    OBVIOUS
  <2>2. PICK B \in Nat, W \in Nat : /\ B = BucketBase(d, b, F)
                                    /\ W = BinSize(b, F) * NumBins(d, b)
    BY <1>5, <2>1, SmallPlace
  <2>3. /\ a \in Nat /\ Aligned(a) /\ Bytes(i, F) \in Nat
        /\ B <= a /\ a + Bytes(i, F) <= B + W /\ b \in Buckets(d) \cap Allocs
    BY <1>5, <2>1, <2>2, SmallPlace
  <2>4. top <= B
    BY <1>1, <2>2, <2>3, BucketsStacked
  <2>5. B + W <= size
    BY <1>1, <2>2, <2>3, BucketsStacked DEF PoolSize
  <2>6. i \notin Statics(d) /\ i \notin Grouped(d)
    BY <1>0, <1>5, DomainParts DEF PlanInv, DomainsInv, DomainsTyped
  <2>7. top <= a /\ a + Bytes(i, F) <= size
    <3> HIDE DEF a, top, size
    <3> QED
      BY <1>2, <2>3, <2>4, <2>5
  <2> QED
    BY <1>2, <1>5, <2>3, <2>6, <2>7
<1> QED
  BY <1>0, <1>3, <1>4, <1>5

\* One group: disjoint units are disjoint bytes.
LEMMA ApartBytes ==
  ASSUME NEW d, Emitted(d), NEW F \in [Dims -> Factors],
         NEW i \in Grouped(d), NEW j \in Grouped(d), GroupOf(d, i) = GroupOf(d, j),
         End(i) <= unit[j]
  PROVE  Offset(d, i, F) + Bytes(i, F) <= Offset(d, j, F)
<1> DEFINE g == GroupOf(d, i)
<1>0. PlanInv /\ d \in DOMAIN domains /\ i \in Allocs /\ j \in Allocs
  BY DomainParts DEF Emitted, PlanInv, DomainsInv, DomainsTyped
<1>1. PICK B \in Nat : /\ B = SlabBase(d, slab[g], F)
                       /\ Offset(d, i, F) = B + unit[i] * Factor(i, F)
                       /\ Offset(d, j, F) = B + unit[j] * Factor(j, F)
  BY GroupedPlace
<1>2. PICK c \in Nat : c = Factor(i, F) /\ c = Factor(j, F)
  <2>1. kind[i].dim = kind[g].dim /\ kind[j].dim = kind[g].dim
    BY SpanIs, GroupedPlace
  <2> QED
    BY <1>0, <2>1, FactorIs
<1>3. PICK u \in Nat, v \in Nat, n \in Nat :
        u = unit[i] /\ v = unit[j] /\ n = kind[i].bytes /\ u + n <= v
  <2>1. End(i) \in Nat /\ unit[i] \in Nat /\ unit[j] \in Nat /\ kind[i].bytes \in Nat
    BY <1>0, EndIs
  <2>2. unit[i] + kind[i].bytes <= End(i)
    BY <1>0, EndIs
  <2> QED
    BY <2>1, <2>2
<1>4. u * c + n * c <= v * c
  <2>1. (u + n) * c <= v * c
    BY <1>3, MulMono
  <2>2. (u + n) * c = u * c + n * c
    OBVIOUS
  <2> QED
    BY <2>1, <2>2
<1>5. PICK x \in Nat, y \in Nat, z \in Nat : x = u * c /\ y = n * c /\ z = v * c
  OBVIOUS
<1>6. Bytes(i, F) = y /\ Offset(d, i, F) = B + x /\ Offset(d, j, F) = B + z
  BY <1>1, <1>2, <1>3, <1>5 DEF Bytes
<1> QED
  BY <1>4, <1>5, <1>6

\* Nothing of one lies where the other is.
Disjoint(d, i, j, F) == \/ Offset(d, i, F) + Bytes(i, F) <= Offset(d, j, F)
                        \/ Offset(d, j, F) + Bytes(j, F) <= Offset(d, i, F)

LEMMA DisjointLayers ==
  ASSUME NEW d, Emitted(d), NEW F \in [Dims -> Factors],
         NEW i \in domains[d], NEW j \in domains[d],
         \/ i \in Statics(d) /\ j \in Grouped(d) \cup Smalls(d)
         \/ i \in Grouped(d) /\ j \in Smalls(d)
  PROVE  Disjoint(d, i, j, F)
<1>1. PICK a \in Nat, x \in Nat, b \in Nat, p \in Nat, top \in Nat :
        /\ a = Offset(d, i, F) /\ x = Bytes(i, F) /\ b = Offset(d, j, F)
        /\ p = StaticPoolSize(d) /\ top = SlabBase(d, NumAllocs + 1, F) /\ p <= top
  BY Layers
<1>2. /\ i \in Statics(d) => a + x <= p
      /\ i \in Grouped(d) => a + x <= top
      /\ j \in Grouped(d) => p <= b
      /\ j \in Smalls(d) => top <= b
  BY <1>1, Layers
<1>3. a + x <= b
  BY <1>1, <1>2
<1> QED
  BY <1>1, <1>3 DEF Disjoint

\* Two slabs, or one slab and one group: groups that share a slab are never
\* alive together.
LEMMA DisjointGroups ==
  ASSUME NEW d, Emitted(d), NEW F \in [Dims -> Factors],
         NEW i \in Grouped(d), NEW j \in Grouped(d), i # j, LifetimesOverlap(i, j)
  PROVE  Disjoint(d, i, j, F)
<1>0. /\ PlanInv /\ d \in DOMAIN domains /\ Packing(d)
      /\ i \in domains[d] \cap packed /\ j \in domains[d] \cap packed
  BY DomainParts DEF Emitted, PlanInv, DomainsInv, DomainsTyped, PackInv
<1>1. CASE GroupOf(d, i) = GroupOf(d, j)
  <2>1. Apart(i, j)
    BY <1>0, <1>1 DEF Packing, Alike
  <2>2. CASE End(i) <= unit[j]
    BY <1>1, <2>2, ApartBytes DEF Disjoint
  <2>3. CASE End(j) <= unit[i]
    BY <1>1, <2>3, ApartBytes DEF Disjoint
  <2> QED
    BY <2>1, <2>2, <2>3 DEF Apart
<1>2. CASE GroupOf(d, i) # GroupOf(d, j)
  <2>0. PICK s, t : s = slab[GroupOf(d, i)] /\ t = slab[GroupOf(d, j)]
    OBVIOUS
  <2>1. s # t
    <3> SUFFICES ASSUME s = t PROVE FALSE
      OBVIOUS
    <3>1. /\ GroupOf(d, i) \in Groups(d) /\ GroupOf(d, j) \in Groups(d)
          /\ i \in Members(d, GroupOf(d, i)) /\ j \in Members(d, GroupOf(d, j))
      BY GroupedPlace
    <3>2. slab[GroupOf(d, i)] # 0
      BY <3>1 DEF Emitted
    <3>3. GroupsDisjoint(d, GroupOf(d, i), GroupOf(d, j))
      BY <1>0, <1>2, <2>0, <3>1, <3>2 DEF Packing
    <3> QED
      BY <3>1, <3>3 DEF GroupsDisjoint
  <2>2. PICK a \in Nat, x \in Nat, A \in Nat, V \in Nat :
          /\ a = Offset(d, i, F) /\ x = Bytes(i, F)
          /\ A = SlabBase(d, s, F) /\ V = SlabWidth(d, s, F)
          /\ A <= a /\ a + x <= A + V
    BY <2>0, GroupedPlace
  <2>3. PICK b \in Nat, y \in Nat, B \in Nat, W \in Nat :
          /\ b = Offset(d, j, F) /\ y = Bytes(j, F)
          /\ B = SlabBase(d, t, F) /\ W = SlabWidth(d, t, F)
          /\ B <= b /\ b + y <= B + W
    BY <2>0, GroupedPlace
  <2>4. s \in Slabs(d) \cap Allocs /\ t \in Slabs(d) \cap Allocs
    BY <2>0, GroupedPlace
  <2>5. /\ s \in Nat /\ t \in Nat
        /\ s \in 1 .. NumAllocs + 1 /\ t \in 1 .. NumAllocs + 1
    BY <2>4, PlanAssumption DEF Allocs
  <2>6. CASE s < t
    <3>1. A + V <= B
      BY <2>2, <2>3, <2>4, <2>5, <2>6, SlabsStacked
    <3>2. a + x <= b
      BY <2>2, <2>3, <3>1
    <3> QED
      BY <2>2, <2>3, <3>2 DEF Disjoint
  <2>7. CASE t < s
    <3>1. B + W <= A
      BY <2>2, <2>3, <2>4, <2>5, <2>7, SlabsStacked
    <3>2. b + y <= a
      BY <2>2, <2>3, <3>1
    <3> QED
      BY <2>2, <2>3, <3>2 DEF Disjoint
  <2> QED
    BY <2>1, <2>5, <2>6, <2>7
<1> QED
  BY <1>1, <1>2

\* One bucket: a lower bin ends before a higher one starts.
LEMMA BinsStacked ==
  ASSUME NEW d, Emitted(d), NEW F \in [Dims -> Factors],
         NEW i \in Smalls(d), NEW j \in Smalls(d), BucketOf(d, i) = BucketOf(d, j),
         bin[i] < bin[j]
  PROVE  Offset(d, i, F) + Bytes(i, F) <= Offset(d, j, F)
<1> DEFINE b == BucketOf(d, i)
<1>1. PICK B \in Nat, z \in Nat, y \in Nat :
        /\ B = BucketBase(d, b, F) /\ z = BinSize(b, F) /\ y = Bytes(i, F) /\ y <= z
        /\ Offset(d, i, F) = B + (bin[i] - 1) * z
        /\ Offset(d, j, F) = B + (bin[j] - 1) * z
  BY SmallPlace
<1>2. PICK k \in Nat, l \in Nat : k = bin[i] - 1 /\ l = bin[j] - 1 /\ k + 1 <= l
  <2>1. bin[i] \in Nat \ {0} /\ bin[j] \in Nat \ {0}
    BY SmallPlace
  <2>2. bin[i] - 1 \in Nat /\ bin[j] - 1 \in Nat /\ bin[i] - 1 + 1 <= bin[j] - 1
    BY <2>1
  <2> QED
    BY <2>2
<1>3. k * z + z <= l * z
  <2>1. (k + 1) * z <= l * z
    BY <1>2, MulMono
  <2>2. (k + 1) * z = k * z + z
    OBVIOUS
  <2> QED
    BY <2>1, <2>2
<1>4. PICK x \in Nat, v \in Nat : x = k * z /\ v = l * z
  OBVIOUS
<1>5. Offset(d, i, F) = B + x /\ Offset(d, j, F) = B + v
  BY <1>1, <1>2, <1>4
<1> QED
  BY <1>1, <1>3, <1>4, <1>5

LEMMA DisjointSmalls ==
  ASSUME NEW d, Emitted(d), NEW F \in [Dims -> Factors],
         NEW i \in Smalls(d), NEW j \in Smalls(d), i # j, LifetimesOverlap(i, j)
  PROVE  Disjoint(d, i, j, F)
<1>0. /\ PlanInv /\ d \in DOMAIN domains /\ Packing(d)
      /\ i \in domains[d] \cap packed /\ j \in domains[d] \cap packed
  BY DomainParts DEF Emitted, PlanInv, DomainsInv, DomainsTyped, PackInv
<1>1. CASE BucketOf(d, i) = BucketOf(d, j)
  <2>1. kind[i] = kind[j]
    <3>1. kind[BucketOf(d, i)] = kind[i]
      BY SmallPlace
    <3>2. kind[BucketOf(d, j)] = kind[j]
      BY SmallPlace
    <3> QED
      BY <1>1, <3>1, <3>2
  <2>2. bin[i] # bin[j]
    BY <1>0, <2>1 DEF Packing
  <2>3. bin[i] \in Nat /\ bin[j] \in Nat
    BY SmallPlace
  <2>4. CASE bin[i] < bin[j]
    BY <1>1, <2>4, BinsStacked DEF Disjoint
  <2>5. CASE bin[j] < bin[i]
    BY <1>1, <2>5, BinsStacked DEF Disjoint
  <2> QED
    BY <2>2, <2>3, <2>4, <2>5
<1>2. CASE BucketOf(d, i) # BucketOf(d, j)
  <2>0. PICK s, t : s = BucketOf(d, i) /\ t = BucketOf(d, j) /\ s # t
    BY <1>2
  <2>2. PICK a \in Nat, x \in Nat, A \in Nat, V \in Nat :
          /\ a = Offset(d, i, F) /\ x = Bytes(i, F)
          /\ A = BucketBase(d, s, F) /\ V = BinSize(s, F) * NumBins(d, s)
          /\ A <= a /\ a + x <= A + V
    BY <2>0, SmallPlace
  <2>3. PICK b \in Nat, y \in Nat, B \in Nat, W \in Nat :
          /\ b = Offset(d, j, F) /\ y = Bytes(j, F)
          /\ B = BucketBase(d, t, F) /\ W = BinSize(t, F) * NumBins(d, t)
          /\ B <= b /\ b + y <= B + W
    BY <2>0, SmallPlace
  <2>4. s \in Buckets(d) \cap Allocs /\ t \in Buckets(d) \cap Allocs
    BY <2>0, SmallPlace
  <2>5. /\ s \in Nat /\ t \in Nat
        /\ s \in 1 .. NumAllocs + 1 /\ t \in 1 .. NumAllocs + 1
    BY <2>4, PlanAssumption DEF Allocs
  <2>6. CASE s < t
    <3>1. A + V <= B
      BY <2>2, <2>3, <2>4, <2>5, <2>6, BucketsStacked
    <3>2. a + x <= b
      BY <2>2, <2>3, <3>1
    <3> QED
      BY <2>2, <2>3, <3>2 DEF Disjoint
  <2>7. CASE t < s
    <3>1. B + W <= A
      BY <2>2, <2>3, <2>4, <2>5, <2>7, BucketsStacked
    <3>2. b + y <= a
      BY <2>2, <2>3, <3>1
    <3> QED
      BY <2>2, <2>3, <3>2 DEF Disjoint
  <2> QED
    BY <2>0, <2>5, <2>6, <2>7
<1> QED
  BY <1>1, <1>2

\* Statics lie where their units say.
LEMMA DisjointStatics ==
  ASSUME NEW d, Emitted(d), NEW F \in [Dims -> Factors],
         NEW i \in Statics(d), NEW j \in Statics(d), i # j, LifetimesOverlap(i, j)
  PROVE  Disjoint(d, i, j, F)
<1>0. /\ PlanInv /\ d \in DOMAIN domains /\ Packing(d)
      /\ i \in domains[d] \cap packed /\ j \in domains[d] \cap packed
  BY DomainParts DEF Emitted, PlanInv, DomainsInv, DomainsTyped, PackInv
<1>1. Apart(i, j)
  BY <1>0 DEF Packing, Alike
<1>2. PICK a \in Nat, x \in Nat, e \in Nat :
        a = Offset(d, i, F) /\ a = unit[i] /\ x = Bytes(i, F) /\ e = End(i) /\ a + x <= e
  BY StaticPlace
<1>3. PICK b \in Nat, y \in Nat, h \in Nat :
        b = Offset(d, j, F) /\ b = unit[j] /\ y = Bytes(j, F) /\ h = End(j) /\ b + y <= h
  BY StaticPlace
<1>4. e <= b \/ h <= a
  BY <1>1, <1>2, <1>3 DEF Apart
<1>5. a + x <= b \/ b + y <= a
  BY <1>2, <1>3, <1>4
<1> QED
  BY <1>2, <1>3, <1>5 DEF Disjoint

LEMMA PlacesDisjoint ==
  ASSUME NEW d, Emitted(d), NEW F \in [Dims -> Factors],
         NEW i \in domains[d], NEW j \in domains[d], i # j, LifetimesOverlap(i, j)
  PROVE  Disjoint(d, i, j, F)
<1>0. PlanInv /\ d \in DOMAIN domains
  BY DEF Emitted
<1>1. domains[d] = Statics(d) \cup Smalls(d) \cup Grouped(d)
  BY <1>0, DomainParts DEF PlanInv, DomainsInv, DomainsTyped
<1>2. Disjoint(d, j, i, F) => Disjoint(d, i, j, F)
  BY DEF Disjoint
<1>3. CASE i \in Statics(d)
  BY <1>1, <1>2, <1>3, DisjointStatics, DisjointLayers
<1>4. CASE i \in Grouped(d)
  BY <1>1, <1>2, <1>4, DisjointGroups, DisjointLayers
<1>5. CASE i \in Smalls(d)
  BY <1>1, <1>2, <1>5, DisjointSmalls, DisjointLayers
<1> QED
  BY <1>1, <1>3, <1>4, <1>5

(***************************************************************************)
(* The buffers of the source function, folded and packed.                  *)
(***************************************************************************)
LEMMA DoneMeans ==
  ASSUME PlanInv, Done, NEW i \in Allocs
  PROVE  /\ DomainOf(i) \in DOMAIN domains /\ slot[i] \in domains[DomainOf(i)]
         /\ Emitted(DomainOf(i)) /\ slot[i] \in Allocs
         /\ \A F \in [Dims -> Factors] : /\ Bytes(i, F) \in Nat /\ Bytes(slot[i], F) \in Nat
                                         /\ Bytes(i, F) <= Bytes(slot[i], F)
<1>1. slot[i] # None /\ slot[i] \in Allocs /\ slot[slot[i]] = slot[i]
  BY DEF PlanInv, ReuseInv, Done, Planned
<1>2. slot[i] \in Kept /\ Kept = Partitioned
  BY <1>1 DEF Kept, Done, Planned
<1>3. \E d \in DOMAIN domains : slot[i] \in domains[d]
  BY <1>2 DEF Partitioned
<1>4. DomainOf(i) \in DOMAIN domains /\ slot[i] \in domains[DomainOf(i)]
  BY <1>3 DEF DomainOf
<1>5. Emitted(DomainOf(i))
  BY <1>4 DEF Done, Finished, Emitted
<1>6. ASSUME NEW F \in [Dims -> Factors]
      PROVE  /\ Bytes(i, F) \in Nat /\ Bytes(slot[i], F) \in Nat
             /\ Bytes(i, F) <= Bytes(slot[i], F)
  <2>1. Holds(kind[slot[i]], kind[i])
    BY <1>1 DEF PlanInv, ReuseInv
  <2>2. PICK c \in Nat : c = Factor(i, F) /\ c = Factor(slot[i], F)
    BY <1>1, <2>1, FactorIs DEF Holds
  <2>3. PICK m \in Nat, n \in Nat : m = kind[i].bytes /\ n = kind[slot[i]].bytes /\ m <= n
    BY <1>1, <2>1, FactorIs DEF Holds
  <2>4. m * c <= n * c /\ m * c \in Nat /\ n * c \in Nat
    BY <2>3, MulMono
  <2> QED
    BY <2>2, <2>3, <2>4 DEF Bytes
<1> QED
  BY <1>1, <1>4, <1>5, <1>6

\* Buffers that are alive at the same time were not folded into one, and the
\* buffers they were folded into are alive at the same time too.
LEMMA FoldedApart ==
  ASSUME PlanInv, Done, NEW i \in Allocs, NEW j \in Allocs,
         i < j, DefIndex(j) <= lastUse[i]
  PROVE  slot[i] # slot[j] /\ LifetimesOverlap(slot[i], slot[j])
<1>1. /\ slot[i] # None /\ slot[j] # None /\ slot[i] \in Allocs /\ slot[j] \in Allocs
      /\ slot[i] <= i /\ slot[j] <= j
      /\ lastUse[i] <= slotLast[slot[i]] /\ lastUse[j] <= slotLast[slot[j]]
  BY DEF PlanInv, ReuseInv, Done, Planned
<1>2. Uses \subseteq Nat /\ Allocs \subseteq Nat /\ {0} \cup Uses \subseteq Nat
  BY AllocsAre
<1>3. /\ lastUse[i] \in Uses /\ lastUse[j] \in Uses /\ DefIndex(j) < lastUse[j]
      /\ slotLast[slot[i]] \in {0} \cup Uses /\ slotLast[slot[j]] \in {0} \cup Uses
  BY <1>1 DEF PlanInv, ReuseInv, ProgramInv
<1>4. slot[i] # slot[j]
  <2> SUFFICES ASSUME slot[i] = slot[j] PROVE FALSE
    OBVIOUS
  <2>1. lastUse[i] < DefIndex(j)
    BY <1>1 DEF PlanInv, ReuseInv
  <2>2. lastUse[i] \in Nat /\ DefIndex(j) \in Nat
    <3>1. lastUse[i] \in Nat
      BY <1>2, <1>3
    <3> QED
      BY <3>1, AllocsAre
  <2> QED
    BY <2>1, <2>2
<1>5. PICK a \in Nat, b \in Nat, k \in Nat, l \in Nat, m \in Nat, n \in Nat :
        /\ a = slot[i] /\ b = slot[j] /\ k = lastUse[i] /\ l = lastUse[j]
        /\ m = slotLast[slot[i]] /\ n = slotLast[slot[j]]
  BY <1>1, <1>2, <1>3
<1>6. i \in Nat /\ j \in Nat
  BY <1>2
<1>7. /\ 2 * j <= k /\ k <= m /\ b <= j /\ a <= i /\ i < j /\ 2 * j < l /\ l <= n
  BY <1>1, <1>3, <1>5 DEF DefIndex
<1>8. ~(m < 2 * b) /\ ~(n < 2 * a)
  BY <1>5, <1>6, <1>7
<1> QED
  BY <1>4, <1>5, <1>8 DEF LifetimesOverlap, DefIndex

LEMMA BuffersDisjoint ==
  ASSUME PlanInv, Done, NEW F \in [Dims -> Factors],
         NEW i \in Allocs, NEW j \in Allocs, i < j, DefIndex(j) <= lastUse[i],
         DomainOf(i) = DomainOf(j)
  PROVE  LET d == DomainOf(i)
             a == Offset(d, slot[i], F)
             b == Offset(d, slot[j], F)
         IN a + Bytes(i, F) <= b \/ b + Bytes(j, F) <= a
<1>1. PICK d : d = DomainOf(i) /\ d = DomainOf(j)
  OBVIOUS
<1>2. Emitted(d) /\ slot[i] \in domains[d] /\ slot[j] \in domains[d]
  BY <1>1, DoneMeans
<1>3. Disjoint(d, slot[i], slot[j], F)
  BY <1>2, FoldedApart, PlacesDisjoint
<1>4. PICK x \in Nat, X \in Nat, y \in Nat, Y \in Nat :
        /\ x = Bytes(i, F) /\ X = Bytes(slot[i], F) /\ x <= X
        /\ y = Bytes(j, F) /\ Y = Bytes(slot[j], F) /\ y <= Y
  BY DoneMeans
<1>5. PICK a \in Nat, b \in Nat : a = Offset(d, slot[i], F) /\ b = Offset(d, slot[j], F)
  BY <1>2, Layers
<1>6. a + X <= b \/ b + Y <= a
  BY <1>3, <1>4, <1>5 DEF Disjoint
<1>7. a + x <= b \/ b + y <= a
  BY <1>4, <1>5, <1>6
<1> QED
  BY <1>1, <1>4, <1>5, <1>7

LEMMA BuffersWithin ==
  ASSUME PlanInv, Done, NEW F \in [Dims -> Factors], NEW i \in Allocs
  PROVE  LET d == DomainOf(i)
             a == Offset(d, slot[i], F)
         IN a % Align = 0 /\ a + Bytes(i, F) <= PoolSize(d, F)
<1>1. PICK d : d = DomainOf(i)
  OBVIOUS
<1>2. Emitted(d) /\ slot[i] \in domains[d]
  BY <1>1, DoneMeans
<1>3. PICK x \in Nat, X \in Nat : x = Bytes(i, F) /\ X = Bytes(slot[i], F) /\ x <= X
  BY DoneMeans
<1>4. PICK a \in Nat, p \in Nat, top \in Nat, size \in Nat :
        /\ a = Offset(d, slot[i], F) /\ Aligned(a) /\ p = StaticPoolSize(d)
        /\ top = SlabBase(d, NumAllocs + 1, F) /\ size = PoolSize(d, F)
        /\ p <= top /\ top <= size
        /\ a + X <= p \/ a + X <= top \/ a + X <= size
  BY <1>2, <1>3, Layers
<1>5. a + x <= size
  BY <1>3, <1>4
<1> QED
  BY <1>1, <1>3, <1>4, <1>5 DEF Aligned

LEMMA PlanTyped == PlanInv => TypeOK
<1> SUFFICES ASSUME PlanInv PROVE TypeOK
  OBVIOUS
<1>0. domains \in Seq(SUBSET Allocs)
  BY DEF PlanInv, DomainsInv
<1>1. \A d \in DOMAIN domains : domains[d] \in SUBSET Kept /\ domains[d] # {}
  BY DEF PlanInv, DomainsInv
<1>2. DOMAIN domains \subseteq Allocs
  <2> SUFFICES ASSUME NEW d \in DOMAIN domains PROVE d \in Allocs
    OBVIOUS
  <2>1. PICK i \in domains[d] : d <= i
    BY DEF PlanInv, DomainsInv
  <2>2. i \in Allocs /\ d \in Nat \ {0}
    BY <1>0
  <2> QED
    BY <2>1, <2>2, PlanAssumption DEF Allocs
<1>3. packed \in SUBSET Kept
  <2>1. Partitioned \subseteq Kept
    BY <1>1 DEF Partitioned
  <2> QED
    BY <2>1 DEF PlanInv, PackInv
<1> QED
  BY <1>1, <1>2, <1>3 DEF TypeOK, PlanInv, ProgramInv, ReuseInv, PackInv

(***************************************************************************)
(* The theorems.                                                           *)
(***************************************************************************)
\* Every step of the two passes keeps the variables in their types: kept slots
\* are slots, domains are nonempty sets of kept allocations, and no bin and no
\* slab has a number beyond the allocations'.
THEOREM PlanTypes == Spec => []TypeOK
BY PlanInvariant, PlanTyped, PTL

\* partitionByDominanceDomain leaves every domain a place for its pool, and the
\* domains in program order.
THEOREM PlanDomainsInOrder == Spec => []DomainsInOrder
<1>1. PlanInv => DomainsInOrder
  BY DEF PlanInv, DomainsInv
<1> QED
  BY <1>1, PlanInvariant, PTL

\* What OptimizeMemRefs and PoolAllocs emit never puts two buffers that are
\* alive together on the same bytes, for any function, option, alignment and
\* any values of the dynamic dimensions.
THEOREM PlanLiveBuffersDisjoint == Spec => []LiveBuffersDisjoint
<1>1. PlanInv => LiveBuffersDisjoint
  BY BuffersDisjoint DEF LiveBuffersDisjoint
<1> QED
  BY <1>1, PlanInvariant, PTL

\* The views PoolAllocs emits are aligned and inside the size its hip.get_pool
\* asks for, although that size is computed from spans and factors and not from
\* the views.
THEOREM PlanWithinPool == Spec => []WithinPool
<1>1. PlanInv => WithinPool
  BY BuffersWithin DEF WithinPool
<1> QED
  BY <1>1, PlanInvariant, PTL
=============================================================================
