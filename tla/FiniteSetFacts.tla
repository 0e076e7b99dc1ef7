---------------------------- MODULE FiniteSetFacts ----------------------------
(***************************************************************************)
(* What the proofs need to know of the largest and the smallest element of *)
(* a set, and of running sums.  None of it follows from the definitions    *)
(* alone: a set of numbers has a largest element only if it is finite, and *)
(* a recursive function has values only where it exists.  The proofs pick  *)
(* a smallest counterexample.                                              *)
(***************************************************************************)
EXTENDS FiniteSetsExt, FiniteSetTheorems, TLAPS

\* A set of naturals that is not empty has a least element.
LEMMA LeastNat ==
  ASSUME NEW S \in SUBSET Nat, S # {}
  PROVE  \E m \in S : \A x \in S : m <= x
<1>1. PICK m \in S : \A x \in S : ~ (<<x, m>> \in OpToRel(<, Nat))
  BY NatLessThanWellFounded, WFMin
<1>2. \A x \in S : ~(x < m)
  BY <1>1 DEF OpToRel
<1> QED
  BY <1>2

\* So Min is what its name says, of any such set.
LEMMA MinOfNats ==
  ASSUME NEW S \in SUBSET Nat, S # {}
  PROVE  Min(S) \in S /\ \A x \in S : Min(S) <= x
BY LeastNat DEF Min

\* Max is what its name says, of a finite one: the smallest set without a
\* largest element would have one when any of its elements is left out.
LEMMA MaxOfNats ==
  ASSUME NEW S \in SUBSET Nat, S # {}, IsFiniteSet(S)
  PROVE  Max(S) \in S /\ \A x \in S : x <= Max(S)
<1> DEFINE HasMax(T) == \E m \in T : \A x \in T : x <= m
           Bad == {n \in Nat : \E T \in SUBSET S : T # {} /\ Cardinality(T) = n /\ ~HasMax(T)}
<1>1. Bad = {}
  <2> SUFFICES ASSUME Bad # {} PROVE FALSE
    OBVIOUS
  <2>1. PICK n \in Bad : \A k \in Bad : n <= k
    BY LeastNat
  <2>2. PICK T \in SUBSET S : T # {} /\ Cardinality(T) = n /\ ~HasMax(T)
    OBVIOUS
  <2>3. PICK x \in T : TRUE
    BY <2>2
  <2>4. IsFiniteSet(T)
    BY FS_Subset
  <2>5. Cardinality(T \ {x}) = n - 1 /\ n - 1 \in Nat
    <3>1. IsFiniteSet(T \ {x}) /\ Cardinality(T \ {x}) = Cardinality(T) - 1
      BY <2>3, <2>4, FS_RemoveElement
    <3>2. Cardinality(T \ {x}) \in Nat
      BY <3>1, FS_CardinalityType
    <3> QED
      BY <2>2, <3>1, <3>2
  <2>6. n - 1 \notin Bad
    BY <2>1, <2>5
  <2>7. CASE T \ {x} = {}
    <3>1. T = {x}
      BY <2>3, <2>7
    <3> QED
      BY <2>2, <3>1
  <2>8. CASE T \ {x} # {}
    <3>1. HasMax(T \ {x})
      BY <2>5, <2>6, <2>8
    <3>2. PICK m \in T \ {x} : \A y \in T \ {x} : y <= m
      BY <3>1
    <3>3. CASE x <= m
      BY <2>2, <3>2, <3>3
    <3>4. CASE ~(x <= m)
      <4>1. \A y \in T : y <= x
        BY <3>2, <3>4
      <4> QED
        BY <2>2, <4>1
    <3> QED
      BY <3>3, <3>4
  <2> QED
    BY <2>7, <2>8
<1>2. HasMax(S)
  <2>1. Cardinality(S) \in Nat
    BY FS_CardinalityType
  <2> QED
    BY <1>1, <2>1
<1> QED
  BY <1>2 DEF Max

\* The elements of a sequence are finitely many.
LEMMA FiniteRange ==
  ASSUME NEW n \in Nat, NEW f, DOMAIN f = 1 .. n
  PROVE  IsFiniteSet({f[i] : i \in DOMAIN f})
<1> DEFINE T == {f[i] : i \in DOMAIN f}
           g == [i \in 1 .. n |-> f[i]]
<1>1. g \in Surjection(1 .. n, T)
  BY DEF Surjection
<1> QED
  BY <1>1, FS_Interval, FS_Surjection

\* As finitely many are the values of a function on a finite set.
LEMMA FiniteImage ==
  ASSUME NEW S, IsFiniteSet(S), NEW f
  PROVE  IsFiniteSet({f[x] : x \in S})
<1> DEFINE T == {f[x] : x \in S}
           g == [x \in S |-> f[x]]
<1>1. g \in Surjection(S, T)
  BY DEF Surjection
<1> QED
  BY <1>1, FS_Surjection

\* A set of numbers with weights has a first one of the least weight.
LEMMA LeastWeight ==
  ASSUME NEW S \in SUBSET Nat, S # {}, NEW w, \A t \in S : w[t] \in Nat
  PROVE  \E t \in S : \A u \in S : w[t] < w[u] \/ (w[t] = w[u] /\ t <= u)
<1> DEFINE W == {w[t] : t \in S}
<1>1. PICK v \in W : \A x \in W : v <= x
  <2>1. W \in SUBSET Nat /\ W # {}
    OBVIOUS
  <2> HIDE DEF W
  <2> QED
    BY <2>1, LeastNat
<1> DEFINE V == {x \in S : w[x] = v}
<1>2. PICK t \in V : \A u \in V : t <= u
  <2>1. V \in SUBSET Nat /\ V # {}
    OBVIOUS
  <2> HIDE DEF V
  <2> QED
    BY <2>1, LeastNat
<1>3. ASSUME NEW u \in S
      PROVE  w[t] < w[u] \/ (w[t] = w[u] /\ t <= u)
  <2>1. w[t] = v /\ v <= w[u] /\ v \in Nat /\ w[u] \in Nat
    BY <1>1, <1>2
  <2>2. w[u] = v => t <= u
    BY <1>2
  <2> QED
    BY <2>1, <2>2
<1> QED
  BY <1>2, <1>3

(***************************************************************************)
(* Sums.                                                                   *)
(***************************************************************************)
\* g adds up the values that f has below each number.
Adds(g, f, n) == g = [a \in 0 .. n |-> IF a = 0 THEN 0 ELSE g[a - 1] + f[a - 1]]

LEMMA SumExists ==
  ASSUME NEW n \in Nat, NEW f, \A a \in 0 .. n - 1 : f[a] \in Int
  PROVE  \E g : Adds(g, f, n)
<1> DEFINE Bad == {k \in 0 .. n : ~ \E g : Adds(g, f, k)}
<1>1. Bad = {}
  <2> SUFFICES ASSUME Bad # {} PROVE FALSE
    OBVIOUS
  <2>0. Bad \in SUBSET Nat
    OBVIOUS
  <2>1. PICK k \in Bad : \A j \in Bad : k <= j
    <3> HIDE DEF Bad
    <3> QED
      BY <2>0, LeastNat
  <2>2. CASE k = 0
    <3>1. Adds([a \in 0 .. 0 |-> 0], f, 0)
      BY DEF Adds
    <3> QED
      BY <2>1, <2>2, <3>1
  <2>3. CASE k # 0
    <3>1. k - 1 \in 0 .. n /\ k - 1 \notin Bad
      BY <2>1, <2>3
    <3>2. PICK g : Adds(g, f, k - 1)
      BY <3>1
    <3> DEFINE h == [a \in 0 .. k |-> IF a = k THEN g[k - 1] + f[k - 1] ELSE g[a]]
    <3>3. Adds(h, f, k)
      <4>1. ASSUME NEW a \in 0 .. k
            PROVE  h[a] = IF a = 0 THEN 0 ELSE h[a - 1] + f[a - 1]
        <5>1. CASE a = k
          BY <2>3, <5>1
        <5>2. CASE a # k
          <6>1. a \in 0 .. k - 1 /\ h[a] = g[a]
            BY <5>2
          <6>2. g[a] = IF a = 0 THEN 0 ELSE g[a - 1] + f[a - 1]
            BY <3>2, <6>1 DEF Adds
          <6>3. a # 0 => a - 1 \in 0 .. k /\ a - 1 # k /\ h[a - 1] = g[a - 1]
            OBVIOUS
          <6> QED
            BY <6>1, <6>2, <6>3
        <5> QED
          BY <5>1, <5>2
      <4> QED
        BY <4>1 DEF Adds
    <3> QED
      BY <2>1, <3>3
  <2> QED
    BY <2>2, <2>3
<1> QED
  BY <1>1

LEMMA SumIsInt ==
  ASSUME NEW n \in Nat, NEW f, \A a \in 0 .. n - 1 : f[a] \in Nat,
         NEW g, Adds(g, f, n)
  PROVE  \A a \in 0 .. n : g[a] \in Nat
<1> DEFINE Bad == {k \in 0 .. n : g[k] \notin Nat}
<1>1. Bad = {}
  <2> SUFFICES ASSUME Bad # {} PROVE FALSE
    OBVIOUS
  <2>0. Bad \in SUBSET Nat
    OBVIOUS
  <2>1. PICK k \in Bad : \A j \in Bad : k <= j
    <3> HIDE DEF Bad
    <3> QED
      BY <2>0, LeastNat
  <2>2. g[k] = IF k = 0 THEN 0 ELSE g[k - 1] + f[k - 1]
    BY DEF Adds
  <2>3. k # 0
    BY <2>1, <2>2
  <2>4. k - 1 \in 0 .. n - 1 /\ k - 1 \in 0 .. n /\ k - 1 \notin Bad
    BY <2>1, <2>3
  <2> QED
    BY <2>1, <2>2, <2>3, <2>4
<1> QED
  BY <1>1
=============================================================================
