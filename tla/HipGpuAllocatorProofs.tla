------------------------- MODULE HipGpuAllocatorProofs -------------------------
(***************************************************************************)
(* For any number of threads, addresses and request sizes: every buffer of *)
(* the driver is in one place, the registry and the counters say what the  *)
(* callers hold, what a caller gets fits its request, the destructor       *)
(* leaves nothing, and idle large buffers are retained only while a grown  *)
(* buffer is checked out.  Together they make the allocator the service of *)
(* BufferService: every step is one of its steps or a stutter.             *)
(***************************************************************************)
EXTENDS HipGpuAllocator, FiniteSetFacts, TLAPS

(***************************************************************************)
(* Retention, which needs nothing of the rest.                             *)
(***************************************************************************)
\* The property is inductive once the counter is known to be a number: every
\* step that adds to the pool has a positive counter at hand, and the only
\* step that lowers the counter empties the pool when it reaches 0.
Retention == grown_live_count_ \in Int /\ RetainedWhileGrowing

\* Taking keys away from a pool with nothing idle leaves nothing idle.
LEMMA WithoutShrinks ==
  ASSUME NEW f, NEW S
  PROVE  DOMAIN Without(f, S) \subseteq DOMAIN f
BY DEF Without

\* Checking a large buffer out can only raise the counter of grown ones.
LEMMA CheckOutCounts ==
  ASSUME NEW p, NEW requested, NEW grown,
         grown_live_count_ \in Int,
         NoteLargeCheckedOut(p, requested, grown)
  PROVE  grown_live_count_' \in Int /\ grown_live_count_' >= grown_live_count_
<1>1. grown_live_count_' = grown_live_count_ + 1
      \/ grown_live_count_' = grown_live_count_ + 0
  BY DEF NoteLargeCheckedOut
<1> QED
  BY <1>1

LEMMA RetentionInit == Init => Retention
BY DEF Init, Retention, RetainedWhileGrowing, NothingIdle

\* A reused buffer leaves its bucket; nothing enters the pool.
LEMMA LargeHitRetention ==
  ASSUME NEW t, NEW size, Retention, LargeHit(t, size)
  PROVE  Retention'
<1>1. PICK c \in Fitting(size) : \E p \in large_free_[c].free :
        /\ large_free_' = TakenFrom(c, p)
        /\ NoteLargeCheckedOut(p, size, ReplacesLiveBuffer(size))
  BY DEF LargeHit
<1>2. c \in DOMAIN large_free_
  BY <1>1 DEF Fitting
<1>3. grown_live_count_ > 0 /\ grown_live_count_ \in Int
  BY <1>2 DEF Retention, RetainedWhileGrowing, NothingIdle
<1>4. grown_live_count_' \in Int /\ grown_live_count_' >= grown_live_count_
  BY <1>1, <1>3, CheckOutCounts
<1> QED
  BY <1>3, <1>4 DEF Retention, RetainedWhileGrowing

\* A miss retires capacities and leaves the counter alone.
LEMMA LargeMissRetention ==
  ASSUME NEW t, NEW size, Retention, LargeMiss(t, size)
  PROVE  Retention'
<1>1. DOMAIN large_free_' \subseteq DOMAIN large_free_
  BY WithoutShrinks DEF LargeMiss
<1>2. grown_live_count_' = grown_live_count_
  BY DEF LargeMiss
<1> QED
  BY <1>1, <1>2 DEF Retention, RetainedWhileGrowing, NothingIdle

LEMMA AllocRetention ==
  ASSUME NEW t, Retention, Alloc(t)
  PROVE  Retention'
<1>1. PICK size \in Sizes : \/ ClassHit(t, size)
                            \/ ClassMiss(t, size)
                            \/ LargeHit(t, size)
                            \/ LargeMiss(t, size)
  BY DEF Alloc
<1>2. CASE ClassHit(t, size)
  BY <1>2 DEF ClassHit, pool, Retention, RetainedWhileGrowing, NothingIdle
<1>3. CASE ClassMiss(t, size)
  BY <1>3 DEF ClassMiss, pool, Retention, RetainedWhileGrowing, NothingIdle
<1>4. CASE LargeHit(t, size)
  BY <1>4, LargeHitRetention
<1>5. CASE LargeMiss(t, size)
  BY <1>5, LargeMissRetention
<1> QED
  BY <1>1, <1>2, <1>3, <1>4, <1>5

\* A request judged against a buffer that has since been freed still counts
\* when it registers, so it cannot find the pool retained for nothing.
LEMMA RegisterRetention ==
  ASSUME NEW t, Retention, Register(t)
  PROVE  Retention'
<1>1. CASE /\ NoteLargeCheckedOut(call[t].ptr, call[t].size, call[t].grown)
           /\ large_free_' = large_free_
  <2>1. grown_live_count_' \in Int /\ grown_live_count_' >= grown_live_count_
    BY <1>1, CheckOutCounts DEF Retention
  <2> QED
    BY <1>1, <2>1 DEF Retention, RetainedWhileGrowing, NothingIdle
<1>2. CASE UNCHANGED pool
  BY <1>2 DEF pool, Retention, RetainedWhileGrowing, NothingIdle
<1> QED
  BY <1>1, <1>2 DEF Register

\* The only step that lowers the counter, or that fills the pool.
LEMMA FreeLargeRetention ==
  ASSUME NEW t, NEW p, Retention, FreeLarge(t, p)
  PROVE  Retention'
<1> DEFINE growing == StillGrowing(p)
<1>1. growing \in Int
  BY DEF StillGrowing, Retention
<1>2. grown_live_count_' = growing
  BY DEF FreeLarge, CheckIn
<1>3. growing > 0 \/ large_free_' = <<>>
  BY DEF FreeLarge, CheckIn
<1> HIDE DEF growing
<1> QED
  BY <1>1, <1>2, <1>3 DEF Retention, RetainedWhileGrowing, NothingIdle

LEMMA FreeRetention ==
  ASSUME NEW t, Retention, Free(t)
  PROVE  Retention'
<1>1. PICK p \in DOMAIN held : FreeClass(t, p) \/ FreeLarge(t, p)
  BY DEF Free
<1>2. CASE FreeClass(t, p)
  BY <1>2 DEF FreeClass, pool, Retention, RetainedWhileGrowing, NothingIdle
<1>3. CASE FreeLarge(t, p)
  BY <1>3, FreeLargeRetention
<1> QED
  BY <1>1, <1>2, <1>3

LEMMA RetentionStep == Retention /\ [Next]_vars => Retention'
<1> SUFFICES ASSUME Retention, [Next]_vars PROVE Retention'
  OBVIOUS
<1>1. CASE \E t \in Threads : Alloc(t)
  BY <1>1, AllocRetention
<1>2. CASE \E t \in Threads : Release(t) \/ DriverAlloc(t) \/ RetryFails(t)
  BY <1>2 DEF Release, DriverAlloc, RetryFails, pool, Retention,
              RetainedWhileGrowing, NothingIdle
<1>3. CASE \E t \in Threads : DrainAndRetry(t)
  BY <1>3 DEF DrainAndRetry, Retention, RetainedWhileGrowing, NothingIdle
<1>4. CASE \E t \in Threads : Register(t)
  BY <1>4, RegisterRetention
<1>5. CASE \E t \in Threads : Free(t)
  BY <1>5, FreeRetention
<1>6. CASE Destroy
  BY <1>6 DEF Destroy, Retention, RetainedWhileGrowing, NothingIdle
<1>7. CASE UNCHANGED vars
  BY <1>7 DEF vars, pool, Retention, RetainedWhileGrowing, NothingIdle
<1> QED
  BY <1>1, <1>2, <1>3, <1>4, <1>5, <1>6, <1>7 DEF Next

\* The large pool never outlives the growing tensors that justify it, whatever
\* the threads do while pool_mutex_ is released.
THEOREM AllocatorRetainedWhileGrowing == Spec => []RetainedWhileGrowing
<1>1. Retention => RetainedWhileGrowing
  BY DEF Retention
<1> QED
  BY <1>1, RetentionInit, RetentionStep, PTL DEF Spec

(***************************************************************************)
(* The invariant of the allocator, in parts.                               *)
(***************************************************************************)
\* What an allocation of some bytes may serve: enough for the request, no
\* more than the growth headroom when it is large, and on the request's side
\* of the largest class, where it is the capacity of the request's class.
Fits(size, bytes) ==
  /\ bytes \in Nat
  /\ size <= bytes
  /\ Large(size) => bytes <= LargeCapacity(size)
  /\ Large(bytes) => Large(size)
  /\ ~Large(bytes) => bytes \in Classes /\ bytes = SizeClass[size]

\* An idle buffer is filed under the bytes it was allocated with.
Filed(p) ==
  IF Large(ptr_to_size_[p])
    THEN /\ ptr_to_size_[p] \in DOMAIN large_free_
         /\ p \in large_free_[ptr_to_size_[p]].free
    ELSE p \in free_lists_[ptr_to_size_[p]]

\* The registry names the driver's buffers with their bytes, and each of them
\* is either with a caller whose request it fits, or idle and filed.
RegistryInv ==
  /\ DOMAIN ptr_to_size_ \subseteq DOMAIN owned
  /\ \A p \in DOMAIN ptr_to_size_ :
       /\ ptr_to_size_[p] = owned[p]
       /\ ptr_to_size_[p] \in Nat
       /\ ~Large(ptr_to_size_[p]) => ptr_to_size_[p] \in Classes
  /\ DOMAIN held \subseteq DOMAIN ptr_to_size_
  /\ \A p \in DOMAIN held : Fits(held[p], ptr_to_size_[p])
  /\ \A p \in DOMAIN ptr_to_size_ \ DOMAIN held : Filed(p)

\* What is on a free list or in a bucket is tracked under that capacity, and
\* no caller holds it.
IdleInv ==
  /\ \A c \in Classes : \A p \in free_lists_[c] :
       p \in DOMAIN ptr_to_size_ \ DOMAIN held /\ ptr_to_size_[p] = c
  /\ \A c \in DOMAIN large_free_ :
       /\ Large(c)
       /\ \A p \in large_free_[c].free :
            p \in DOMAIN ptr_to_size_ \ DOMAIN held /\ ptr_to_size_[p] = c

\* A thread has this buffer of the driver and has not registered it yet.
Noted(t, p) == call[t].pc = "note" /\ call[t].ptr = p

\* A buffer the registry does not name is in the hands of one thread: on its
\* way to the driver, or from it.
HandsInv ==
  /\ \A t \in Threads : \A p \in stale[t] :
       p \in DOMAIN owned \ DOMAIN ptr_to_size_
  /\ \A t \in Threads : \A p : Noted(t, p) =>
       /\ p \in DOMAIN owned \ DOMAIN ptr_to_size_
       /\ owned[p] = call[t].alloc_size
  /\ \A t, u \in Threads : \A p \in stale[t] :
       ~Noted(u, p) /\ (t # u => p \notin stale[u])
  /\ \A t, u \in Threads : \A p : Noted(t, p) /\ Noted(u, p) => t = u
  /\ \A p \in DOMAIN owned \ DOMAIN ptr_to_size_ :
       \E t \in Threads : p \in stale[t] \/ Noted(t, p)

Requests == [pc : {"driver", "retry"}, size : Sizes, grown : BOOLEAN,
             alloc_size : Nat]
Notes == [pc : {"note"}, ptr : Ptrs, size : Sizes, grown : BOOLEAN,
          alloc_size : Nat]

\* An Alloc in progress asks the driver for bytes that fit its request.
CallsInv ==
  /\ DOMAIN call = Threads
  /\ \A t \in Threads :
       \/ call[t] = Idle
       \/ /\ call[t] \in Requests \cup Notes
          /\ Fits(call[t].size, call[t].alloc_size)

\* TypeOK without the calls, and that the checked-out large buffers can be
\* counted.
ShapeInv ==
  /\ free_lists_ \in [Classes -> SUBSET Ptrs]
  /\ DOMAIN ptr_to_size_ \subseteq Ptrs /\ DOMAIN owned \subseteq Ptrs
  /\ DOMAIN held \subseteq Ptrs /\ \A p \in DOMAIN held : held[p] \in Sizes
  /\ \A c \in DOMAIN large_free_ :
       /\ large_free_[c].free \in (SUBSET Ptrs) \ {{}}
       /\ large_free_[c].last_used \in 1 .. large_ops_
  /\ \A p \in DOMAIN large_live_ : large_live_[p] \in Records
  /\ IsFiniteSet(DOMAIN large_live_)
  /\ large_ops_ \in Nat /\ peak_live_count_ \in Nat
  /\ grown_reused_ \in BOOLEAN
  /\ stale \in [Threads -> SUBSET Ptrs]
  /\ open \in BOOLEAN

\* While the allocator is open, and after its destructor: nobody calls and
\* the driver has everything back.
Running ==
  /\ open
  /\ ShapeInv /\ CallsInv /\ LiveAccounting
  /\ RegistryInv /\ IdleInv /\ HandsInv

Closed ==
  /\ ~open
  /\ ShapeInv /\ CallsInv /\ LiveAccounting
  /\ owned = <<>>
  /\ \A t \in Threads : call[t] = Idle /\ stale[t] = {}

IInv == Running \/ Closed

(***************************************************************************)
(* Size classes and headroom.                                              *)
(***************************************************************************)
LEMMA Powers ==
  ASSUME NEW i \in 0 .. 9
  PROVE  2^i \in Nat
<1>1. /\ 2^0 \in Nat /\ 2^1 \in Nat /\ 2^2 \in Nat /\ 2^3 \in Nat
      /\ 2^4 \in Nat /\ 2^5 \in Nat /\ 2^6 \in Nat /\ 2^7 \in Nat
      /\ 2^8 \in Nat /\ 2^9 \in Nat
  OBVIOUS
<1>2. \/ i = 0 \/ i = 1 \/ i = 2 \/ i = 3 \/ i = 4
      \/ i = 5 \/ i = 6 \/ i = 7 \/ i = 8 \/ i = 9
  OBVIOUS
<1> QED
  BY <1>1, <1>2, Zenon

\* The size classes are numbers.
LEMMA ClassesAreBytes == kSizeClasses \subseteq Nat
<1>1. \A n \in Nat : Steps(KB * n, 4) \subseteq Nat
  BY DEF Steps, KB
<1>2. \A n \in Nat : Steps(MB * n, 16) \subseteq Nat
  BY DEF Steps, MB
<1>3. \A n \in Nat : Steps(4 * MB * n, 32) \subseteq Nat
  BY DEF Steps, MB
<1>4. \A i \in 0 .. 9 : Steps(KB * 2^i, 4) \subseteq Nat
  BY <1>1, Powers, Zenon
<1>5. \A i \in 0 .. 1 : 2^i \in Nat
  <2>1. 0 .. 1 \subseteq 0 .. 9
    OBVIOUS
  <2> QED
    BY <2>1, Powers, Zenon
<1>6. \A i \in 0 .. 1 : Steps(MB * 2^i, 16) \subseteq Nat
  BY <1>2, <1>5, Zenon
<1>7. \A i \in 0 .. 1 : Steps(4 * MB * 2^i, 32) \subseteq Nat
  BY <1>3, <1>5, Zenon
<1>8. {128, 256, 512, 1024, MB, 4 * MB, 16 * MB} \subseteq Nat
  BY DEF MB
<1> DEFINE kilobytes == UNION {Steps(KB * 2^i, 4) : i \in 0 .. 9}
           megabytes == UNION {Steps(MB * 2^i, 16) : i \in 0 .. 1}
           largest == UNION {Steps(4 * MB * 2^i, 32) : i \in 0 .. 1}
           single == {128, 256, 512, 1024, MB, 4 * MB, 16 * MB}
<1>9. kilobytes \subseteq Nat
  BY <1>4, Zenon
<1>10. megabytes \subseteq Nat
  BY <1>6, Zenon
<1>11. largest \subseteq Nat
  BY <1>7, Zenon
<1>12. single \subseteq Nat
  BY <1>8
<1>13. kSizeClasses = single \cup kilobytes \cup megabytes \cup largest
  BY DEF kSizeClasses
<1> HIDE DEF kilobytes, megabytes, largest, single
<1> QED
  BY <1>9, <1>10, <1>11, <1>12, <1>13, Zenon

LEMMA LastClass == 16 * MB \in kSizeClasses
<1>1. 16 * MB \in {128, 256, 512, 1024, MB, 4 * MB, 16 * MB}
  OBVIOUS
<1> QED
  BY <1>1 DEF kSizeClasses

\* A request that is not large has a class: the least one that covers it.
LEMMA ClassCovers ==
  ASSUME NEW s \in Nat, s <= 16 * MB,
         s \in {x \in Sizes : ~Large(x)} \cup kSizeClasses
  PROVE  /\ SizeClass[s] \in kSizeClasses /\ SizeClass[s] \in Nat
         /\ s <= SizeClass[s] /\ SizeClass[s] <= 16 * MB
         /\ \A d \in kSizeClasses : d >= s => SizeClass[s] <= d
<1> DEFINE Covering == {c \in kSizeClasses : c >= s}
<1>1. 16 * MB \in kSizeClasses
  BY LastClass
<1>2. Covering \subseteq Nat /\ 16 * MB \in Covering
  <2>1. 16 * MB \in Nat /\ 16 * MB >= s
    BY DEF MB
  <2> QED
    BY <1>1, <2>1, ClassesAreBytes
<1>3. \E c \in Covering : \A d \in Covering : c <= d
  BY <1>2, LeastNat
<1>4. \E c \in kSizeClasses :
        c >= s /\ \A d \in kSizeClasses : d >= s => c <= d
  BY <1>3
<1>5. SizeClass[s] = CHOOSE c \in kSizeClasses :
                       c >= s /\ \A d \in kSizeClasses : d >= s => c <= d
  BY Zenon DEF SizeClass
<1>6. /\ SizeClass[s] \in kSizeClasses
      /\ SizeClass[s] >= s
      /\ \A d \in kSizeClasses : d >= s => SizeClass[s] <= d
  BY <1>4, <1>5, Zenon
<1>7. SizeClass[s] \in Nat
  BY <1>6, ClassesAreBytes
<1>8. SizeClass[s] <= 16 * MB
  BY <1>2, <1>6
<1> QED
  BY <1>6, <1>7, <1>8

\* The class of a class's capacity is that class.
LEMMA ClassOfClass ==
  ASSUME NEW c \in Classes
  PROVE  c \in Nat /\ ~Large(c) /\ SizeClass[c] = c
<1>1. PICK s \in Sizes : ~Large(s) /\ c = SizeClass[s]
  BY DEF Classes
<1>2. c \in kSizeClasses /\ c \in Nat /\ c <= 16 * MB
  BY <1>1, ClassCovers, RequestsAreBytes DEF Large, MB
<1>3. SizeClass[c] <= c /\ c <= SizeClass[c] /\ SizeClass[c] \in Nat
  BY <1>2, ClassCovers
<1> QED
  BY <1>2, <1>3 DEF Large, MB

\* Growth headroom covers the request.
LEMMA HeadroomCovers ==
  ASSUME NEW s \in Nat
  PROVE  LargeCapacity(s) \in Nat /\ s <= LargeCapacity(s)
BY DEF LargeCapacity, kPageSize

\* What the allocator asks the driver for fits the request.
LEMMA ClassFits ==
  ASSUME NEW s \in Sizes, ~Large(s)
  PROVE  SizeClass[s] \in Classes /\ Fits(s, SizeClass[s])
<1>1. /\ s \in Nat /\ s <= 16 * MB
      /\ SizeClass[s] \in Nat /\ s <= SizeClass[s]
      /\ SizeClass[s] <= 16 * MB
  BY ClassCovers, RequestsAreBytes DEF Large, MB
<1>2. SizeClass[s] \in Classes
  BY Zenon DEF Classes
<1> QED
  BY <1>1, <1>2 DEF Fits, Large, MB

LEMMA LargeFits ==
  ASSUME NEW s \in Sizes, Large(s)
  PROVE  /\ Fits(s, s) /\ Large(s)
         /\ Fits(s, LargeCapacity(s)) /\ Large(LargeCapacity(s))
BY HeadroomCovers, RequestsAreBytes DEF Large, Fits, MB

(***************************************************************************)
(* The counters of large buffers.                                          *)
(***************************************************************************)
\* They stay right when no large buffer changes hands.
LEMMA LiveSame ==
  ASSUME LiveAccounting,
         UNCHANGED <<large_live_, live_requested_, grown_live_count_>>,
         \A p : p \in DOMAIN held' /\ Large(held'[p]) <=>
                  p \in DOMAIN held /\ Large(held[p]),
         \A p \in DOMAIN held : Large(held[p]) => held'[p] = held[p]
  PROVE  LiveAccounting'
<1> DEFINE live == {p \in DOMAIN held : Large(held[p])}
<1>1. {p \in DOMAIN held' : Large(held'[p])} = live
  OBVIOUS
<1>2. \A p \in live : held'[p] = held[p]
  OBVIOUS
<1>3. /\ DOMAIN large_live_ = live
      /\ \A p \in live : large_live_[p].requested = held[p]
      /\ DOMAIN live_requested_ = {held[p] : p \in live}
      /\ \A r \in DOMAIN live_requested_ :
           live_requested_[r] = Cardinality({p \in live : held[p] = r})
      /\ grown_live_count_ = Cardinality({p \in live : large_live_[p].grown})
  BY DEF LiveAccounting
<1> HIDE DEF live
<1>4. {held'[p] : p \in live} = {held[p] : p \in live}
  BY <1>2
<1>5. \A r : {p \in live : held'[p] = r} = {p \in live : held[p] = r}
  BY <1>2
<1> QED
  BY <1>1, <1>2, <1>3, <1>4, <1>5 DEF LiveAccounting

\* Checking a large buffer out counts it among those of its request, and
\* among the grown ones if it is.
LEMMA CheckOutAccounts ==
  ASSUME NEW p, NEW size, NEW grown \in BOOLEAN,
         LiveAccounting, IsFiniteSet(DOMAIN large_live_),
         p \notin DOMAIN held, Large(size),
         NoteLargeCheckedOut(p, size, grown),
         held' = With(held, p, size)
  PROVE  LiveAccounting' /\ IsFiniteSet(DOMAIN large_live_')
<1> DEFINE live == {q \in DOMAIN held : Large(held[q])}
           OfSize(r) == {q \in live : held[q] = r}
           Grown == {q \in live : large_live_[q].grown}
           live2 == {q \in DOMAIN held' : Large(held'[q])}
<1>1. /\ DOMAIN large_live_ = live
      /\ \A q \in live : large_live_[q].requested = held[q]
      /\ DOMAIN live_requested_ = {held[q] : q \in live}
      /\ \A r \in DOMAIN live_requested_ :
           live_requested_[r] = Cardinality(OfSize(r))
      /\ grown_live_count_ = Cardinality(Grown)
  BY DEF LiveAccounting
<1>2. /\ large_live_' = With(large_live_, p, [requested |-> size,
                                              grown |-> grown])
      /\ live_requested_' =
           With(live_requested_, size,
                IF size \in DOMAIN live_requested_
                  THEN live_requested_[size] + 1 ELSE 1)
      /\ grown_live_count_' = grown_live_count_ + IF grown THEN 1 ELSE 0
  BY DEF NoteLargeCheckedOut
<1>3. p \notin live /\ IsFiniteSet(live)
  BY <1>1
<1>4. live2 = live \cup {p}
  BY DEF With
<1>5. \A q \in live : held'[q] = held[q] /\ large_live_'[q] = large_live_[q]
  BY <1>1, <1>2, <1>3 DEF With
<1>6. held'[p] = size
  BY DEF With
<1>7. large_live_'[p].requested = size /\ large_live_'[p].grown = grown
  BY <1>2 DEF With
<1>8. DOMAIN large_live_' = live \cup {p}
  BY <1>1, <1>2 DEF With
<1>9. \A r : IsFiniteSet(OfSize(r)) /\ Cardinality(OfSize(r)) \in Nat
  <2> SUFFICES ASSUME NEW r
               PROVE  IsFiniteSet(OfSize(r)) /\ Cardinality(OfSize(r)) \in Nat
    OBVIOUS
  <2>1. OfSize(r) \subseteq live
    OBVIOUS
  <2> QED
    BY <1>3, <2>1, FS_Subset, FS_CardinalityType
<1>10. IsFiniteSet(Grown) /\ Cardinality(Grown) \in Nat
  <2>1. Grown \subseteq live
    OBVIOUS
  <2> QED
    BY <1>3, <2>1, FS_Subset, FS_CardinalityType
<1>11. Cardinality(OfSize(size) \cup {p}) = Cardinality(OfSize(size)) + 1
  <2>1. p \notin OfSize(size) /\ IsFiniteSet(OfSize(size))
    BY <1>3, <1>9
  <2> HIDE DEF OfSize
  <2> QED
    BY <2>1, FS_AddElement
<1>12. Cardinality(Grown \cup {p}) = Cardinality(Grown) + 1
  BY <1>3, <1>10, FS_AddElement
<1>13. IsFiniteSet(live \cup {p})
  BY <1>3, FS_AddElement
<1>14. {held'[q] : q \in live2} = {held[q] : q \in live} \cup {size}
  BY <1>4, <1>5, <1>6
<1>15. DOMAIN live_requested_' = {held'[q] : q \in live2}
  BY <1>1, <1>2, <1>14 DEF With
<1>16. {q \in live2 : held'[q] = size} = OfSize(size) \cup {p}
  BY <1>4, <1>5, <1>6
<1>17. \A r : r # size => {q \in live2 : held'[q] = r} = OfSize(r)
  BY <1>4, <1>5, <1>6
<1>18. size \notin DOMAIN live_requested_ => Cardinality(OfSize(size)) = 0
  BY <1>1, FS_EmptySet
<1>19. live_requested_'[size] = Cardinality({q \in live2 : held'[q] = size})
  <2>1. live_requested_'[size] = IF size \in DOMAIN live_requested_
                                   THEN live_requested_[size] + 1 ELSE 1
    BY <1>2 DEF With
  <2>2. live_requested_'[size] = Cardinality(OfSize(size)) + 1
    BY <1>1, <1>18, <2>1
  <2> QED
    BY <1>11, <1>16, <2>2
<1>20. \A r \in DOMAIN live_requested_' : r # size =>
         live_requested_'[r] = Cardinality({q \in live2 : held'[q] = r})
  <2> SUFFICES ASSUME NEW r \in DOMAIN live_requested_', r # size
               PROVE  live_requested_'[r] =
                        Cardinality({q \in live2 : held'[q] = r})
    BY Zenon
  <2>1. r \in DOMAIN live_requested_ /\ live_requested_'[r] = live_requested_[r]
    BY <1>2 DEF With
  <2>2. live_requested_[r] = Cardinality(OfSize(r))
    BY <1>1, <2>1, Zenon
  <2>3. {q \in live2 : held'[q] = r} = OfSize(r)
    BY <1>17, Zenon
  <2> HIDE DEF OfSize, live2
  <2> QED
    BY <2>1, <2>2, <2>3, Zenon
<1>21. {q \in live2 : large_live_'[q].grown} =
         IF grown THEN Grown \cup {p} ELSE Grown
  BY <1>3, <1>4, <1>5, <1>7
<1>22. grown_live_count_' = Cardinality({q \in live2 : large_live_'[q].grown})
  <2> HIDE DEF Grown, live, live2
  <2>1. CASE grown
    BY <1>1, <1>2, <1>12, <1>21, <2>1
  <2>2. CASE ~grown
    <3>1. grown_live_count_' = grown_live_count_
      BY <1>1, <1>2, <1>10, <2>2
    <3>2. {q \in live2 : large_live_'[q].grown} = Grown
      BY <1>21, <2>2
    <3> QED
      BY <1>1, <3>1, <3>2
  <2> QED
    BY <2>1, <2>2
<1>23. \A q \in live2 : large_live_'[q].requested = held'[q]
  BY <1>1, <1>4, <1>5, <1>6, <1>7
<1>24. \A r \in DOMAIN live_requested_' :
         live_requested_'[r] = Cardinality({q \in live2 : held'[q] = r})
  <2> HIDE DEF live2
  <2> QED
    BY <1>19, <1>20, Zenon
<1>25. DOMAIN large_live_' = live2 /\ IsFiniteSet(live2)
  BY <1>4, <1>8, <1>13
<1> QED
  BY <1>15, <1>22, <1>23, <1>24, <1>25, Zenon DEF LiveAccounting

\* Checking one in takes it out again, and a request nobody holds any more
\* is forgotten.
LEMMA CheckInAccounts ==
  ASSUME NEW t, NEW p, NEW idle, NEW gone, NEW peak,
         LiveAccounting, IsFiniteSet(DOMAIN large_live_),
         p \in DOMAIN held, Large(held[p]),
         CheckIn(t, p, StillGrowing(p), idle, gone, peak),
         held' = Without(held, {p})
  PROVE  LiveAccounting' /\ IsFiniteSet(DOMAIN large_live_')
<1> DEFINE live == {q \in DOMAIN held : Large(held[q])}
           OfSize(r) == {q \in live : held[q] = r}
           Grown == {q \in live : large_live_[q].grown}
           live2 == {q \in DOMAIN held' : Large(held'[q])}
           size == held[p]
<1>1. /\ DOMAIN large_live_ = live
      /\ \A q \in live : large_live_[q].requested = held[q]
      /\ DOMAIN live_requested_ = {held[q] : q \in live}
      /\ \A r \in DOMAIN live_requested_ :
           live_requested_[r] = Cardinality(OfSize(r))
      /\ grown_live_count_ = Cardinality(Grown)
  BY DEF LiveAccounting
<1>2. p \in live /\ IsFiniteSet(live) /\ large_live_[p].requested = size
  BY <1>1
<1>3. /\ large_live_' = Without(large_live_, {p})
      /\ live_requested_' =
           IF live_requested_[size] = 1
             THEN Without(live_requested_, {size})
             ELSE [live_requested_ EXCEPT ![size] = @ - 1]
      /\ grown_live_count_' = grown_live_count_ -
                                IF large_live_[p].grown THEN 1 ELSE 0
  BY <1>2 DEF CheckIn, StillGrowing
<1>4. live2 = live \ {p}
  BY DEF Without
<1>5. \A q \in live2 : held'[q] = held[q] /\ large_live_'[q] = large_live_[q]
  BY <1>1, <1>3, <1>4 DEF Without
<1>6. DOMAIN large_live_' = live \ {p}
  BY <1>1, <1>3 DEF Without
<1>7. \A r : IsFiniteSet(OfSize(r)) /\ Cardinality(OfSize(r)) \in Nat
  <2> SUFFICES ASSUME NEW r
               PROVE  IsFiniteSet(OfSize(r)) /\ Cardinality(OfSize(r)) \in Nat
    OBVIOUS
  <2>1. OfSize(r) \subseteq live
    OBVIOUS
  <2> QED
    BY <1>2, <2>1, FS_Subset, FS_CardinalityType
<1>8. IsFiniteSet(Grown) /\ Cardinality(Grown) \in Nat
  <2>1. Grown \subseteq live
    OBVIOUS
  <2> QED
    BY <1>2, <2>1, FS_Subset, FS_CardinalityType
<1>9. /\ IsFiniteSet(OfSize(size) \ {p})
      /\ Cardinality(OfSize(size) \ {p}) = Cardinality(OfSize(size)) - 1
  <2>1. p \in OfSize(size) /\ IsFiniteSet(OfSize(size))
    BY <1>2, <1>7
  <2> HIDE DEF OfSize
  <2> QED
    BY <2>1, FS_RemoveElement
<1>10. p \in Grown => Cardinality(Grown \ {p}) = Cardinality(Grown) - 1
  BY <1>8, FS_RemoveElement
<1>11. IsFiniteSet(live \ {p})
  BY <1>2, FS_RemoveElement
<1>12. {q \in live2 : held'[q] = size} = OfSize(size) \ {p}
  BY <1>4, <1>5
<1>13. \A r : r # size => {q \in live2 : held'[q] = r} = OfSize(r)
  BY <1>4, <1>5
<1>14. size \in DOMAIN live_requested_
       /\ live_requested_[size] = Cardinality(OfSize(size))
  BY <1>1, <1>2
<1>15. live_requested_[size] = 1 <=> OfSize(size) \ {p} = {}
  BY <1>7, <1>9, <1>14, FS_EmptySet
<1>16. DOMAIN live_requested_' = {held'[q] : q \in live2}
  <2>1. DOMAIN live_requested_' =
          IF OfSize(size) \ {p} = {} THEN DOMAIN live_requested_ \ {size}
                                     ELSE DOMAIN live_requested_
    BY <1>3, <1>15 DEF Without
  <2>2. {held'[q] : q \in live2} = {held[q] : q \in live \ {p}}
    BY <1>4, <1>5
  <2>3. ASSUME NEW r \in DOMAIN live_requested_, r # size
        PROVE  \E q \in live \ {p} : held[q] = r
    BY <1>1, <2>3
  <2>4. OfSize(size) \ {p} = {} => size \notin {held[q] : q \in live \ {p}}
    OBVIOUS
  <2>5. OfSize(size) \ {p} # {} => size \in {held[q] : q \in live \ {p}}
    OBVIOUS
  <2>6. {held[q] : q \in live \ {p}} \subseteq DOMAIN live_requested_
    BY <1>1
  <2> HIDE DEF live, OfSize, size
  <2> QED
    BY <2>1, <2>2, <2>3, <2>4, <2>5, <2>6
<1>17. size \in DOMAIN live_requested_' =>
         live_requested_'[size] = Cardinality({q \in live2 : held'[q] = size})
  BY <1>3, <1>9, <1>12, <1>14 DEF Without
<1>18. \A r \in DOMAIN live_requested_' : r # size =>
         live_requested_'[r] = Cardinality({q \in live2 : held'[q] = r})
  <2> SUFFICES ASSUME NEW r \in DOMAIN live_requested_', r # size
               PROVE  live_requested_'[r] =
                        Cardinality({q \in live2 : held'[q] = r})
    BY Zenon
  <2>1. r \in DOMAIN live_requested_ /\ live_requested_'[r] = live_requested_[r]
    BY <1>3 DEF Without
  <2>2. live_requested_[r] = Cardinality(OfSize(r))
    BY <1>1, <2>1, Zenon
  <2>3. {q \in live2 : held'[q] = r} = OfSize(r)
    BY <1>13, Zenon
  <2> HIDE DEF OfSize, live2
  <2> QED
    BY <2>1, <2>2, <2>3, Zenon
<1>19. {q \in live2 : large_live_'[q].grown} = Grown \ {p}
  BY <1>4, <1>5
<1>20. grown_live_count_' = Cardinality({q \in live2 : large_live_'[q].grown})
  <2>1. CASE large_live_[p].grown
    BY <1>1, <1>2, <1>3, <1>10, <1>19, <2>1
  <2>2. CASE ~large_live_[p].grown
    <3>1. Grown \ {p} = Grown
      BY <2>2
    <3> HIDE DEF Grown, live, live2
    <3>2. grown_live_count_' = grown_live_count_
      BY <1>1, <1>3, <1>8, <2>2
    <3>3. {q \in live2 : large_live_'[q].grown} = Grown
      BY <1>19, <3>1
    <3> QED
      BY <1>1, <3>2, <3>3
  <2> QED
    BY <2>1, <2>2
<1>21. \A q \in live2 : large_live_'[q].requested = held'[q]
  BY <1>1, <1>4, <1>5
<1>22. DOMAIN large_live_' = live2 /\ IsFiniteSet(DOMAIN large_live_')
  BY <1>4, <1>6, <1>11, Zenon
<1>23. \A r \in DOMAIN live_requested_' :
         live_requested_'[r] = Cardinality({q \in live2 : held'[q] = r})
  BY <1>17, <1>18, Zenon
<1>24. LiveAccounting'
  BY <1>16, <1>20, <1>21, <1>22, <1>23, Zenon DEF LiveAccounting
<1> QED
  BY <1>22, <1>24

(***************************************************************************)
(* Buffers the registry does not name.                                     *)
(***************************************************************************)
\* Whether t holds a buffer of the driver it has yet to register does not
\* depend on a step that leaves t's registration alone.
SameNotes ==
  \A t \in Threads : call[t].pc = "note" \/ call'[t].pc = "note" =>
                       call'[t] = call[t]

LEMMA NotesKept ==
  ASSUME SameNotes
  PROVE  \A t \in Threads : \A p :
           /\ (Noted(t, p))' <=> Noted(t, p)
           /\ Noted(t, p) => call'[t].alloc_size = call[t].alloc_size
BY DEF SameNotes, Noted

\* A step that leaves the registry's names, the driver and what is on its way
\* there alone.
LEMMA HandsSame ==
  ASSUME HandsInv, SameNotes, DOMAIN ptr_to_size_' = DOMAIN ptr_to_size_,
         UNCHANGED <<owned, stale>>
  PROVE  HandsInv'
<1>1. \A u \in Threads : \A p :
        /\ (Noted(u, p))' <=> Noted(u, p)
        /\ Noted(u, p) => call'[u].alloc_size = call[u].alloc_size
  BY NotesKept
<1> QED
  BY <1>1 DEF HandsInv

\* What a thread takes out of the registry is on its way to the driver, in
\* its hands alone.
LEMMA HandsRetire ==
  ASSUME NEW t \in Threads, NEW gone \in SUBSET DOMAIN ptr_to_size_,
         HandsInv, SameNotes, stale \in [Threads -> SUBSET Ptrs],
         stale[t] = {}, DOMAIN ptr_to_size_ \subseteq DOMAIN owned,
         ptr_to_size_' = Without(ptr_to_size_, gone),
         stale' = [stale EXCEPT ![t] = gone],
         owned' = owned
  PROVE  HandsInv'
<1>1. \A u \in Threads : \A p :
        /\ (Noted(u, p))' <=> Noted(u, p)
        /\ Noted(u, p) => call'[u].alloc_size = call[u].alloc_size
  BY NotesKept
<1>2. DOMAIN ptr_to_size_' = DOMAIN ptr_to_size_ \ gone
  BY DEF Without
<1>3. \A u \in Threads : stale'[u] = IF u = t THEN gone ELSE stale[u]
  OBVIOUS
<1>4. \A u \in Threads : \A p \in stale'[u] :
        p \in DOMAIN owned' \ DOMAIN ptr_to_size_'
  BY <1>2, <1>3 DEF HandsInv
<1>5. \A u \in Threads : \A p : (Noted(u, p))' =>
        /\ p \in DOMAIN owned' \ DOMAIN ptr_to_size_'
        /\ owned'[p] = call'[u].alloc_size
  BY <1>1, <1>2 DEF HandsInv
<1>6. \A u, v \in Threads : \A p \in stale'[u] :
        ~(Noted(v, p))' /\ (u # v => p \notin stale'[v])
  BY <1>1, <1>2, <1>3 DEF HandsInv
<1>7. \A u, v \in Threads : \A p : (Noted(u, p))' /\ (Noted(v, p))' => u = v
  BY <1>1 DEF HandsInv
<1>8. \A p \in DOMAIN owned' \ DOMAIN ptr_to_size_' :
        \E u \in Threads : p \in stale'[u] \/ (Noted(u, p))'
  <2> SUFFICES ASSUME NEW p \in DOMAIN owned' \ DOMAIN ptr_to_size_'
               PROVE  \E u \in Threads : p \in stale'[u] \/ (Noted(u, p))'
    OBVIOUS
  <2>1. CASE p \in gone
    BY <1>3, <2>1
  <2>2. CASE p \notin gone
    <3>1. PICK u \in Threads : p \in stale[u] \/ Noted(u, p)
      BY <1>2, <2>2 DEF HandsInv
    <3> QED
      BY <1>1, <1>3, <3>1
  <2> QED
    BY <2>1, <2>2
<1> QED
  BY <1>4, <1>5, <1>6, <1>7, <1>8 DEF HandsInv

\* ReleaseToDriver: the buffer leaves the hands and the driver's books.
LEMMA ReleaseHands ==
  ASSUME NEW t \in Threads, NEW p \in stale[t],
         HandsInv, stale \in [Threads -> SUBSET Ptrs],
         stale' = [stale EXCEPT ![t] = @ \ {p}],
         owned' = Without(owned, {p}),
         UNCHANGED <<ptr_to_size_, call>>
  PROVE  HandsInv'
<1>1. \A u \in Threads : \A q :
        /\ (Noted(u, q))' <=> Noted(u, q)
        /\ call'[u].alloc_size = call[u].alloc_size
  BY DEF Noted
<1>2. \A u \in Threads : stale'[u] = IF u = t THEN stale[u] \ {p} ELSE stale[u]
  OBVIOUS
<1>3. /\ DOMAIN owned' = DOMAIN owned \ {p}
      /\ \A q \in DOMAIN owned \ {p} : owned'[q] = owned[q]
  BY DEF Without
<1>4. \A u \in Threads : ~Noted(u, p) /\ (u # t => p \notin stale[u])
  BY DEF HandsInv
<1>5. \A u \in Threads : \A q \in stale'[u] :
        q \in DOMAIN owned' \ DOMAIN ptr_to_size_'
  BY <1>2, <1>3, <1>4 DEF HandsInv
<1>6. \A u \in Threads : \A q : (Noted(u, q))' =>
        /\ q \in DOMAIN owned' \ DOMAIN ptr_to_size_'
        /\ owned'[q] = call'[u].alloc_size
  <2> SUFFICES ASSUME NEW u \in Threads, NEW q, Noted(u, q)
               PROVE  /\ q \in DOMAIN owned' \ DOMAIN ptr_to_size_'
                      /\ owned'[q] = call'[u].alloc_size
    BY <1>1
  <2>1. q # p
    BY <1>4
  <2>2. /\ q \in DOMAIN owned \ DOMAIN ptr_to_size_
        /\ owned[q] = call[u].alloc_size
    BY DEF HandsInv
  <2> QED
    BY <1>1, <1>3, <2>1, <2>2
<1>7. \A u, v \in Threads : \A q \in stale'[u] :
        ~(Noted(v, q))' /\ (u # v => q \notin stale'[v])
  BY <1>1, <1>2 DEF HandsInv
<1>8. \A u, v \in Threads : \A q : (Noted(u, q))' /\ (Noted(v, q))' => u = v
  BY <1>1 DEF HandsInv
<1>9. \A q \in DOMAIN owned' \ DOMAIN ptr_to_size_' :
        \E u \in Threads : q \in stale'[u] \/ (Noted(u, q))'
  BY <1>1, <1>2, <1>3 DEF HandsInv
<1> QED
  BY <1>5, <1>6, <1>7, <1>8, <1>9 DEF HandsInv

\* The driver's answer is in the caller's hands until it is registered.
LEMMA DriverAllocHands ==
  ASSUME NEW t \in Threads, NEW p, p \notin DOMAIN owned,
         HandsInv, DOMAIN call = Threads, call[t].pc # "note",
         DOMAIN ptr_to_size_ \subseteq DOMAIN owned,
         owned' = With(owned, p, call[t].alloc_size),
         call' = [call EXCEPT ![t] = [pc |-> "note", ptr |-> p,
                    size |-> @.size, grown |-> @.grown,
                    alloc_size |-> @.alloc_size]],
         UNCHANGED <<ptr_to_size_, stale>>
  PROVE  HandsInv'
<1>1. /\ DOMAIN owned' = DOMAIN owned \cup {p}
      /\ owned'[p] = call[t].alloc_size
      /\ \A q \in DOMAIN owned : owned'[q] = owned[q]
  BY DEF With
<1>2. /\ call'[t].pc = "note" /\ call'[t].ptr = p
      /\ call'[t].alloc_size = call[t].alloc_size
      /\ \A u \in Threads : u # t => call'[u] = call[u]
  OBVIOUS
<1>3. \A u \in Threads : \A q :
        (Noted(u, q))' <=> IF u = t THEN q = p ELSE Noted(u, q)
  BY <1>2 DEF Noted
<1>4. \A u \in Threads : p \notin stale[u] /\ ~Noted(u, p)
  BY DEF HandsInv
<1>5. \A u \in Threads : \A q \in stale'[u] :
        q \in DOMAIN owned' \ DOMAIN ptr_to_size_'
  BY <1>1 DEF HandsInv
<1>6. \A u \in Threads : \A q : (Noted(u, q))' =>
        /\ q \in DOMAIN owned' \ DOMAIN ptr_to_size_'
        /\ owned'[q] = call'[u].alloc_size
  BY <1>1, <1>2, <1>3, <1>4 DEF HandsInv
<1>7. \A u, v \in Threads : \A q \in stale'[u] :
        ~(Noted(v, q))' /\ (u # v => q \notin stale'[v])
  BY <1>3, <1>4 DEF HandsInv
<1>8. \A u, v \in Threads : \A q : (Noted(u, q))' /\ (Noted(v, q))' => u = v
  BY <1>3, <1>4 DEF HandsInv
<1>9. \A q \in DOMAIN owned' \ DOMAIN ptr_to_size_' :
        \E u \in Threads : q \in stale'[u] \/ (Noted(u, q))'
  <2> SUFFICES ASSUME NEW q \in DOMAIN owned' \ DOMAIN ptr_to_size_'
               PROVE  \E u \in Threads : q \in stale'[u] \/ (Noted(u, q))'
    OBVIOUS
  <2>1. CASE q = p
    BY <1>3, <2>1
  <2>2. CASE q # p
    <3>1. PICK u \in Threads : q \in stale[u] \/ Noted(u, q)
      BY <1>1, <2>2 DEF HandsInv
    <3>2. Noted(u, q) => u # t
      BY DEF Noted
    <3> QED
      BY <1>3, <3>1, <3>2
  <2> QED
    BY <2>1, <2>2
<1> QED
  BY <1>5, <1>6, <1>7, <1>8, <1>9 DEF HandsInv

\* Registering a buffer hands it over to the registry.
LEMMA RegisterHands ==
  ASSUME NEW t \in Threads, HandsInv, DOMAIN call = Threads,
         call[t].pc = "note", DOMAIN ptr_to_size_' =
                                DOMAIN ptr_to_size_ \cup {call[t].ptr},
         call' = [call EXCEPT ![t] = Idle],
         UNCHANGED <<owned, stale>>
  PROVE  HandsInv'
<1> DEFINE p == call[t].ptr
<1>1. Noted(t, p)
  BY DEF Noted
<1>2. call'[t].pc # "note" /\ \A u \in Threads : u # t => call'[u] = call[u]
  BY DEF Idle
<1>3. \A u \in Threads : \A q : (Noted(u, q))' <=> u # t /\ Noted(u, q)
  BY <1>2 DEF Noted
<1>4. \A u \in Threads : p \notin stale[u] /\ (u # t => ~Noted(u, p))
  BY <1>1 DEF HandsInv
<1>5. \A q : Noted(t, q) => q = p
  BY DEF Noted
<1>6. \A u \in Threads : \A q \in stale'[u] :
        q \in DOMAIN owned' \ DOMAIN ptr_to_size_'
  BY <1>4 DEF HandsInv
<1>7. \A u \in Threads : \A q : (Noted(u, q))' =>
        /\ q \in DOMAIN owned' \ DOMAIN ptr_to_size_'
        /\ owned'[q] = call'[u].alloc_size
  BY <1>2, <1>3, <1>4 DEF HandsInv
<1>8. \A u, v \in Threads : \A q \in stale'[u] :
        ~(Noted(v, q))' /\ (u # v => q \notin stale'[v])
  BY <1>3 DEF HandsInv
<1>9. \A u, v \in Threads : \A q : (Noted(u, q))' /\ (Noted(v, q))' => u = v
  BY <1>3 DEF HandsInv
<1>10. \A q \in DOMAIN owned' \ DOMAIN ptr_to_size_' :
         \E u \in Threads : q \in stale'[u] \/ (Noted(u, q))'
  BY <1>3, <1>5 DEF HandsInv
<1> QED
  BY <1>6, <1>7, <1>8, <1>9, <1>10 DEF HandsInv

(***************************************************************************)
(* Alloc's first locked section.                                           *)
(***************************************************************************)
\* A caller gets a tracked, idle buffer that fits its request; the lists lose
\* that buffer and nothing else.
LEMMA ReuseRegistry ==
  ASSUME NEW p, NEW size,
         RegistryInv, IdleInv,
         p \in DOMAIN ptr_to_size_ \ DOMAIN held,
         Fits(size, ptr_to_size_[p]),
         held' = With(held, p, size),
         UNCHANGED <<ptr_to_size_, owned>>,
         \A c \in Classes : free_lists_'[c] = free_lists_[c] \ {p},
         \A c \in DOMAIN large_free_' :
           /\ c \in DOMAIN large_free_
           /\ large_free_'[c].free = large_free_[c].free \ {p},
         \A c \in DOMAIN large_free_ :
           large_free_[c].free \ {p} # {} => c \in DOMAIN large_free_'
  PROVE  RegistryInv' /\ IdleInv'
<1>1. /\ DOMAIN held' = DOMAIN held \cup {p} /\ held'[p] = size
      /\ \A q \in DOMAIN held : held'[q] = held[q]
  BY DEF With
<1>2. \A q \in DOMAIN ptr_to_size_ \ DOMAIN held' : (Filed(q))'
  BY <1>1 DEF RegistryInv, Filed
<1>3. RegistryInv'
  BY <1>1, <1>2 DEF RegistryInv, Fits
<1>4. IdleInv'
  BY <1>1 DEF IdleInv
<1> QED
  BY <1>3, <1>4

LEMMA ClassHitStep ==
  ASSUME NEW t \in Threads, NEW size \in Sizes, Running,
         ClassHit(t, size), UNCHANGED <<owned, open>>
  PROVE  Running'
<1> DEFINE cls == SizeClass[size]
<1>1. cls \in Classes /\ Fits(size, cls)
  BY ClassFits DEF ClassHit
<1> HIDE DEF cls
<1>2. PICK p \in free_lists_[cls] :
        /\ free_lists_' = [free_lists_ EXCEPT ![cls] = @ \ {p}]
        /\ held' = With(held, p, size)
  BY DEF ClassHit, cls
<1>3. /\ p \in DOMAIN ptr_to_size_ \ DOMAIN held /\ ptr_to_size_[p] = cls
      /\ p \in Ptrs
  BY <1>1 DEF Running, IdleInv, ShapeInv
<1>4. UNCHANGED <<ptr_to_size_, pool, call, stale>> /\ ~Large(size)
  BY DEF ClassHit
<1>5. ShapeInv'
  BY <1>1, <1>2, <1>3, <1>4 DEF Running, ShapeInv, pool, With
<1>6. \A c \in Classes : free_lists_'[c] = free_lists_[c] \ {p}
  BY <1>2, <1>3 DEF Running, ShapeInv, IdleInv
<1>7. \A c \in DOMAIN large_free_ : p \notin large_free_[c].free
  BY <1>1, <1>3, ClassOfClass DEF Running, IdleInv
<1>8. RegistryInv' /\ IdleInv'
  <2>1. large_free_' = large_free_
    BY <1>4 DEF pool
  <2> QED
    BY <1>1, <1>2, <1>3, <1>4, <1>6, <1>7, <2>1, ReuseRegistry
       DEF Running, ShapeInv
<1>9. LiveAccounting'
  <2>1. \A q : q \in DOMAIN held' <=> q \in DOMAIN held \/ q = p
    BY <1>2 DEF With
  <2>2. held'[p] = size /\ \A q \in DOMAIN held : held'[q] = held[q]
    BY <1>2, <1>3 DEF With
  <2> QED
    BY <1>3, <1>4, <2>1, <2>2, LiveSame DEF Running, pool
<1>10. HandsInv'
  BY <1>4, HandsSame DEF Running, SameNotes
<1>11. CallsInv'
  BY <1>4 DEF Running, CallsInv, Fits
<1> QED
  BY <1>5, <1>8, <1>9, <1>10, <1>11 DEF Running

\* A miss leaves the buffers alone and asks the driver for bytes that fit.
LEMMA MissCalls ==
  ASSUME NEW t \in Threads, NEW size \in Sizes, NEW grown \in BOOLEAN,
         NEW bytes, Fits(size, bytes), CallsInv, call[t] = Idle,
         Miss(t, size, grown, bytes)
  PROVE  CallsInv' /\ SameNotes
<1>1. bytes \in Nat
  BY DEF Fits
<1>2. DOMAIN call' = Threads
  BY DEF Miss, CallsInv
<1>3. call'[t] = [pc |-> "driver", size |-> size, grown |-> grown,
                  alloc_size |-> bytes]
  BY DEF Miss, CallsInv
<1>4. call'[t] \in Requests
  BY <1>1, <1>3 DEF Requests
<1>5. call'[t].size = size /\ call'[t].alloc_size = bytes
      /\ call'[t].pc # "note" /\ call[t].pc # "note"
  BY <1>3 DEF Idle
<1>6. \A u \in Threads : u # t => call'[u] = call[u]
  BY DEF Miss, CallsInv
<1>7. CallsInv'
  BY <1>2, <1>4, <1>5, <1>6 DEF CallsInv, Fits
<1> QED
  BY <1>5, <1>6, <1>7 DEF SameNotes

LEMMA ClassMissStep ==
  ASSUME NEW t \in Threads, NEW size \in Sizes, Running, Calling(t),
         ClassMiss(t, size), UNCHANGED <<owned, open>>
  PROVE  Running'
<1>1. UNCHANGED <<free_lists_, ptr_to_size_, pool, held, stale>>
  BY DEF ClassMiss
<1>2. CallsInv' /\ SameNotes
  BY ClassFits, MissCalls DEF Running, Calling, ClassMiss
<1>3. HandsInv'
  BY <1>1, <1>2, HandsSame DEF Running
<1>4. LiveAccounting'
  BY <1>1, LiveSame DEF Running, pool
<1>5. ShapeInv'
  BY <1>1 DEF Running, ShapeInv, pool
<1>6. RegistryInv' /\ IdleInv'
  BY <1>1 DEF Running, RegistryInv, IdleInv, Filed, Fits, pool
<1> QED
  BY <1>2, <1>3, <1>4, <1>5, <1>6 DEF Running

\* Taking a buffer from its bucket leaves the rest of the large pool alone
\* and no bucket empty.
LEMMA TakenBuckets ==
  ASSUME ShapeInv, NEW c \in DOMAIN large_free_, NEW p \in large_free_[c].free,
         \A d \in DOMAIN large_free_ : d # c => p \notin large_free_[d].free,
         large_free_' = TakenFrom(c, p), large_ops_' = large_ops_ + 1
  PROVE  /\ \A d \in DOMAIN large_free_' :
              /\ d \in DOMAIN large_free_
              /\ large_free_'[d].free = large_free_[d].free \ {p}
              /\ large_free_'[d].free \in (SUBSET Ptrs) \ {{}}
              /\ large_free_'[d].last_used \in 1 .. large_ops_'
         /\ \A d \in DOMAIN large_free_ :
              large_free_[d].free \ {p} # {} => d \in DOMAIN large_free_'
<1>1. CASE large_free_[c].free \ {p} = {}
  BY <1>1 DEF TakenFrom, Without, ShapeInv
<1>2. CASE large_free_[c].free \ {p} # {}
  <2>1. large_free_' = [large_free_ EXCEPT
                          ![c] = [free |-> large_free_[c].free \ {p},
                                  last_used |-> large_ops_ + 1]]
    BY <1>2 DEF TakenFrom
  <2>2. large_free_'[c].free = large_free_[c].free \ {p}
        /\ large_free_'[c].last_used = large_ops_ + 1
    BY <2>1
  <2>3. \A d \in DOMAIN large_free_ :
          d # c => large_free_'[d] = large_free_[d]
    BY <2>1
  <2>4. DOMAIN large_free_' = DOMAIN large_free_
    BY <2>1
  <2> QED
    BY <1>2, <2>2, <2>3, <2>4 DEF ShapeInv
<1> QED
  BY <1>1, <1>2

\* The part of the shape that checking a large buffer out changes.
LEMMA CheckOutShape ==
  ASSUME NEW p, NEW size \in Sizes, NEW grown \in BOOLEAN,
         \A q \in DOMAIN large_live_ : large_live_[q] \in Records,
         peak_live_count_ \in Nat, IsFiniteSet(DOMAIN large_live_'),
         NoteLargeCheckedOut(p, size, grown)
  PROVE  /\ \A q \in DOMAIN large_live_' : large_live_'[q] \in Records
         /\ peak_live_count_' \in Nat
<1>1. large_live_' = With(large_live_, p, [requested |-> size,
                                           grown |-> grown])
  BY DEF NoteLargeCheckedOut
<1>2. [requested |-> size, grown |-> grown] \in Records
  BY DEF Records
<1>3. \A q \in DOMAIN large_live_' : large_live_'[q] \in Records
  BY <1>1, <1>2 DEF With
<1>4. Cardinality(DOMAIN large_live_') \in Nat
  BY FS_CardinalityType
<1>5. peak_live_count_' \in Nat
  BY <1>4 DEF NoteLargeCheckedOut, Larger
<1> QED
  BY <1>3, <1>5

LEMMA LargeHitStep ==
  ASSUME NEW t \in Threads, NEW size \in Sizes, Running,
         LargeHit(t, size), UNCHANGED <<owned, open>>
  PROVE  Running'
<1> DEFINE grown == ReplacesLiveBuffer(size)
<1>1. PICK c \in Fitting(size) : \E p \in large_free_[c].free :
        /\ large_free_' = TakenFrom(c, p)
        /\ NoteLargeCheckedOut(p, size, grown)
        /\ held' = With(held, p, size)
  BY DEF LargeHit
<1>2. PICK p \in large_free_[c].free :
        /\ large_free_' = TakenFrom(c, p)
        /\ NoteLargeCheckedOut(p, size, grown)
        /\ held' = With(held, p, size)
  BY <1>1
<1>3. /\ UNCHANGED <<free_lists_, ptr_to_size_, call, stale>> /\ Large(size)
      /\ large_ops_' = large_ops_ + 1
      /\ grown_reused_' = (grown_reused_ \/ grown)
      /\ grown \in BOOLEAN
  BY DEF LargeHit, ReplacesLiveBuffer
<1> HIDE DEF grown
<1>4. c \in DOMAIN large_free_ /\ size <= c /\ c <= LargeCapacity(size)
  BY DEF Fitting
<1>5. /\ p \in DOMAIN ptr_to_size_ \ DOMAIN held /\ ptr_to_size_[p] = c
      /\ p \in Ptrs /\ Large(c) /\ c \in Nat
  BY <1>4 DEF Running, IdleInv, ShapeInv, RegistryInv
<1>6. Fits(size, ptr_to_size_[p])
  BY <1>3, <1>4, <1>5 DEF Fits
<1>7. \A d \in DOMAIN large_free_ : d # c => p \notin large_free_[d].free
  BY <1>5 DEF Running, IdleInv
<1>8. /\ \A d \in DOMAIN large_free_' :
           /\ d \in DOMAIN large_free_
           /\ large_free_'[d].free = large_free_[d].free \ {p}
           /\ large_free_'[d].free \in (SUBSET Ptrs) \ {{}}
           /\ large_free_'[d].last_used \in 1 .. large_ops_'
      /\ \A d \in DOMAIN large_free_ :
           large_free_[d].free \ {p} # {} => d \in DOMAIN large_free_'
  BY <1>2, <1>3, <1>4, <1>7, TakenBuckets DEF Running
<1>9. \A d \in Classes : free_lists_'[d] = free_lists_[d] \ {p}
  BY <1>3, <1>5, ClassOfClass DEF Running, IdleInv
<1>10. RegistryInv' /\ IdleInv'
  BY <1>2, <1>3, <1>5, <1>6, <1>8, <1>9, ReuseRegistry DEF Running
<1>11. LiveAccounting' /\ IsFiniteSet(DOMAIN large_live_')
  BY <1>2, <1>3, <1>5, CheckOutAccounts DEF Running, ShapeInv
<1>12. /\ \A q \in DOMAIN large_live_' : large_live_'[q] \in Records
       /\ peak_live_count_' \in Nat
  BY <1>2, <1>3, <1>11, CheckOutShape DEF Running, ShapeInv
<1>13. /\ DOMAIN held' \subseteq Ptrs
       /\ \A q \in DOMAIN held' : held'[q] \in Sizes
  BY <1>2, <1>5 DEF With, Running, ShapeInv
<1>14. ShapeInv'
  BY <1>3, <1>8, <1>11, <1>12, <1>13 DEF Running, ShapeInv
<1>15. HandsInv'
  BY <1>3, HandsSame DEF Running, SameNotes
<1>16. CallsInv'
  BY <1>3 DEF Running, CallsInv, Fits
<1> QED
  BY <1>10, <1>11, <1>14, <1>15, <1>16 DEF Running

(***************************************************************************)
(* Buffers that leave the registry.                                        *)
(***************************************************************************)
\* A section gives up the buffers of some capacities and some that callers
\* have just handed in; the rest stays where it is.
LEMMA RetireRegistry ==
  ASSUME NEW caps \in SUBSET DOMAIN large_free_, NEW out \in SUBSET DOMAIN held,
         RegistryInv, IdleInv,
         ptr_to_size_' = Without(ptr_to_size_, out \cup BuffersOf(caps)),
         UNCHANGED <<owned, free_lists_>>,
         DOMAIN held' = DOMAIN held \ out,
         \A p \in DOMAIN held' : held'[p] = held[p],
         DOMAIN large_free_' = DOMAIN large_free_ \ caps,
         \A c \in DOMAIN large_free_' : large_free_'[c].free = large_free_[c].free,
         \A p \in out : Large(held[p])
  PROVE  /\ RegistryInv' /\ IdleInv'
         /\ out \cup BuffersOf(caps) \in SUBSET DOMAIN ptr_to_size_
<1> DEFINE gone == out \cup BuffersOf(caps)
<1>1. \A p : p \in BuffersOf(caps) <=> \E c \in caps : p \in large_free_[c].free
  BY DEF BuffersOf
<1>2. \A p \in BuffersOf(caps) :
        /\ p \in DOMAIN ptr_to_size_ \ DOMAIN held
        /\ Large(ptr_to_size_[p])
  BY <1>1 DEF IdleInv
<1>3. gone \subseteq DOMAIN ptr_to_size_
  BY <1>2 DEF RegistryInv
<1>4. /\ DOMAIN ptr_to_size_' = DOMAIN ptr_to_size_ \ gone
      /\ \A p \in DOMAIN ptr_to_size_' : ptr_to_size_'[p] = ptr_to_size_[p]
  BY DEF Without
<1>5. DOMAIN held' \subseteq DOMAIN ptr_to_size_'
  BY <1>2, <1>4 DEF RegistryInv
<1>6. ASSUME NEW p \in DOMAIN ptr_to_size_' \ DOMAIN held'
      PROVE  (Filed(p))'
  <2>1. p \in DOMAIN ptr_to_size_ \ DOMAIN held /\ p \notin BuffersOf(caps)
    BY <1>4, <1>6
  <2>2. Filed(p)
    BY <2>1 DEF RegistryInv
  <2>3. CASE Large(ptr_to_size_[p])
    BY <1>1, <1>4, <2>1, <2>2, <2>3 DEF Filed
  <2>4. CASE ~Large(ptr_to_size_[p])
    BY <1>4, <2>2, <2>4 DEF Filed
  <2> QED
    BY <2>3, <2>4
<1>7. RegistryInv'
  BY <1>4, <1>5, <1>6 DEF RegistryInv, Fits
<1>8. \A c \in Classes : \A p \in free_lists_[c] : p \notin gone
  BY <1>2, ClassOfClass DEF IdleInv
<1>9. \A c \in DOMAIN large_free_ \ caps : \A p \in large_free_[c].free :
        p \notin gone
  BY <1>1 DEF IdleInv
<1>10. IdleInv'
  BY <1>4, <1>8, <1>9 DEF IdleInv
<1> QED
  BY <1>3, <1>7, <1>10

LEMMA LargeMissStep ==
  ASSUME NEW t \in Threads, NEW size \in Sizes, Running, Calling(t),
         LargeMiss(t, size), UNCHANGED <<owned, open>>
  PROVE  Running'
<1> DEFINE grown == ReplacesLiveBuffer(size)
           retired == Outgrown(size, grown) \cup Aged(large_ops_ + 1)
           bytes == IF grown \/ grown_reused_ THEN LargeCapacity(size) ELSE size
<1>1. /\ large_ops_' = large_ops_ + 1 /\ Miss(t, size, grown, bytes)
      /\ stale' = [stale EXCEPT ![t] = BuffersOf(retired)]
      /\ large_free_' = Without(large_free_, retired)
      /\ ptr_to_size_' = Without(ptr_to_size_, BuffersOf(retired))
      /\ UNCHANGED <<free_lists_, large_live_, live_requested_,
                     grown_live_count_, grown_reused_, peak_live_count_, held>>
      /\ Large(size)
  BY DEF LargeMiss
<1>2. grown \in BOOLEAN /\ Fits(size, bytes)
  BY <1>1, LargeFits DEF ReplacesLiveBuffer
<1>3. retired \subseteq DOMAIN large_free_
  BY DEF Outgrown, Aged
<1> HIDE DEF grown, retired, bytes
<1>4. CallsInv' /\ SameNotes
  BY <1>1, <1>2, MissCalls DEF Running, Calling
<1>5. /\ DOMAIN large_free_' = DOMAIN large_free_ \ retired
      /\ \A c \in DOMAIN large_free_' : large_free_'[c] = large_free_[c]
  BY <1>1 DEF Without
<1>6. {} \cup BuffersOf(retired) = BuffersOf(retired)
  OBVIOUS
<1>7. /\ RegistryInv' /\ IdleInv'
      /\ BuffersOf(retired) \in SUBSET DOMAIN ptr_to_size_
  <2>1. ptr_to_size_' = Without(ptr_to_size_, {} \cup BuffersOf(retired))
    BY <1>1, <1>6
  <2>2. retired \in SUBSET DOMAIN large_free_ /\ {} \in SUBSET DOMAIN held
    BY <1>3
  <2>3. DOMAIN held' = DOMAIN held \ {}
    BY <1>1
  <2>4. /\ RegistryInv' /\ IdleInv'
        /\ {} \cup BuffersOf(retired) \in SUBSET DOMAIN ptr_to_size_
    BY <1>1, <1>5, <2>1, <2>2, <2>3, RetireRegistry DEF Running
  <2> QED
    BY <1>6, <2>4
<1>8. HandsInv'
  BY <1>1, <1>4, <1>7, HandsRetire DEF Running, ShapeInv, RegistryInv, Calling
<1>9. LiveAccounting'
  BY <1>1, LiveSame DEF Running
<1>10. DOMAIN ptr_to_size_' \subseteq Ptrs /\ BuffersOf(retired) \subseteq Ptrs
  BY <1>1, <1>7 DEF Running, ShapeInv, Without
<1>11. stale' \in [Threads -> SUBSET Ptrs]
  BY <1>1, <1>10 DEF Running, ShapeInv
<1>12. ShapeInv'
  BY <1>1, <1>5, <1>10, <1>11 DEF Running, ShapeInv
<1> QED
  BY <1>4, <1>7, <1>8, <1>9, <1>12 DEF Running

LEMMA ReleaseStep ==
  ASSUME NEW t \in Threads, Running, Release(t)
  PROVE  Running'
<1>1. PICK p \in stale[t] : /\ stale' = [stale EXCEPT ![t] = @ \ {p}]
                            /\ owned' = Without(owned, {p})
  BY DEF Release
<1>2. UNCHANGED <<free_lists_, ptr_to_size_, pool, held, call, open>>
  BY DEF Release
<1>3. HandsInv'
  BY <1>1, <1>2, ReleaseHands DEF Running, ShapeInv
<1>4. p \notin DOMAIN ptr_to_size_
  BY DEF Running, HandsInv
<1>5. /\ DOMAIN owned' = DOMAIN owned \ {p}
      /\ \A q \in DOMAIN ptr_to_size_ : owned'[q] = owned[q]
  BY <1>1, <1>4 DEF Without, Running, RegistryInv
<1>6. RegistryInv'
  BY <1>2, <1>4, <1>5 DEF Running, RegistryInv, Filed, Fits, pool
<1>7. IdleInv'
  BY <1>2 DEF Running, IdleInv, pool
<1>8. stale' \in [Threads -> SUBSET Ptrs]
  BY <1>1 DEF Running, ShapeInv
<1>9. ShapeInv'
  BY <1>2, <1>5, <1>8 DEF Running, ShapeInv, pool
<1>10. LiveAccounting'
  BY <1>2, LiveSame DEF Running, pool
<1>11. CallsInv'
  BY <1>2 DEF Running, CallsInv, Fits
<1> QED
  BY <1>2, <1>3, <1>6, <1>7, <1>9, <1>10, <1>11 DEF Running

LEMMA DriverAllocStep ==
  ASSUME NEW t \in Threads, Running, DriverAlloc(t)
  PROVE  Running'
<1>1. PICK p \in Ptrs \ DOMAIN owned :
        /\ owned' = With(owned, p, call[t].alloc_size)
        /\ call' = [call EXCEPT ![t] = [pc |-> "note", ptr |-> p,
                      size |-> @.size, grown |-> @.grown,
                      alloc_size |-> @.alloc_size]]
  BY DEF DriverAlloc
<1>2. /\ UNCHANGED <<free_lists_, ptr_to_size_, pool, held, stale, open>>
      /\ call[t].pc \in {"driver", "retry"}
  BY DEF DriverAlloc
<1>3. /\ DOMAIN ptr_to_size_ \subseteq DOMAIN owned /\ DOMAIN call = Threads
      /\ call[t].pc # "note"
  BY <1>2 DEF Running, RegistryInv, CallsInv
<1>4. HandsInv'
  BY <1>1, <1>2, <1>3, DriverAllocHands DEF Running
<1>5. /\ DOMAIN owned' = DOMAIN owned \cup {p}
      /\ \A q \in DOMAIN ptr_to_size_ : owned'[q] = owned[q]
  BY <1>1, <1>3 DEF With
<1>6. RegistryInv'
  BY <1>2, <1>3, <1>5 DEF Running, RegistryInv, Filed, Fits, pool
<1>7. IdleInv'
  BY <1>2 DEF Running, IdleInv, pool
<1>8. ShapeInv'
  BY <1>1, <1>2, <1>5 DEF Running, ShapeInv, pool
<1>9. LiveAccounting'
  BY <1>2, LiveSame DEF Running, pool
<1>10. CallsInv'
  <2>1. call[t] \in Requests /\ Fits(call[t].size, call[t].alloc_size)
    BY <1>2 DEF Running, CallsInv, Notes, Idle
  <2>2. call'[t] = [pc |-> "note", ptr |-> p, size |-> call[t].size,
                    grown |-> call[t].grown,
                    alloc_size |-> call[t].alloc_size]
    BY <1>1, <1>3
  <2>3. call'[t] \in Notes
    BY <2>1, <2>2 DEF Requests, Notes
  <2>4. call'[t].size = call[t].size /\ call'[t].alloc_size = call[t].alloc_size
    BY <2>2
  <2>5. DOMAIN call' = Threads /\ \A u \in Threads : u # t => call'[u] = call[u]
    BY <1>1, <1>3
  <2> QED
    BY <2>1, <2>3, <2>4, <2>5 DEF Running, CallsInv, Fits
<1> QED
  BY <1>2, <1>4, <1>6, <1>7, <1>8, <1>9, <1>10 DEF Running

\* Giving up on the driver, or asking it again, changes no registration.
LEMMA GiveUpCalls ==
  ASSUME NEW t \in Threads, NEW again, CallsInv,
         call[t].pc \in {"driver", "retry"},
         again = Idle \/ again = [call[t] EXCEPT !.pc = "retry"],
         call' = [call EXCEPT ![t] = again]
  PROVE  CallsInv' /\ SameNotes
<1>1. call[t] \in Requests /\ Fits(call[t].size, call[t].alloc_size)
  BY DEF CallsInv, Notes, Idle
<1>2. /\ again \in Requests => again.size = call[t].size
                               /\ again.alloc_size = call[t].alloc_size
      /\ again = Idle \/ again \in Requests
  BY <1>1 DEF Requests, Idle
<1>3. /\ call'[t] = again /\ DOMAIN call' = Threads
      /\ \A u \in Threads : u # t => call'[u] = call[u]
  BY DEF CallsInv
<1>4. again.pc # "note" /\ call[t].pc # "note"
  BY <1>2 DEF Requests, Idle
<1>5. CallsInv'
  BY <1>1, <1>2, <1>3 DEF CallsInv, Fits
<1>6. SameNotes
  BY <1>3, <1>4 DEF SameNotes
<1> QED
  BY <1>5, <1>6

LEMMA DrainAndRetryStep ==
  ASSUME NEW t \in Threads, Running, DrainAndRetry(t)
  PROVE  Running'
<1> DEFINE all == BuffersOf(DOMAIN large_free_)
<1>1. /\ call[t].pc = "driver" /\ stale[t] = {}
      /\ stale' = [stale EXCEPT ![t] = all]
      /\ ptr_to_size_' = Without(ptr_to_size_, all)
      /\ large_free_' = <<>>
      /\ UNCHANGED <<free_lists_, large_live_, live_requested_,
                     grown_live_count_, grown_reused_, large_ops_,
                     peak_live_count_, owned, held, open>>
  BY DEF DrainAndRetry
<1>2. CallsInv' /\ SameNotes
  <2>1. PICK again : /\ again = Idle \/ again = [call[t] EXCEPT !.pc = "retry"]
                     /\ call' = [call EXCEPT ![t] = again]
    BY DEF DrainAndRetry
  <2> QED
    BY <1>1, <2>1, GiveUpCalls DEF Running
<1>3. /\ RegistryInv' /\ IdleInv' /\ all \in SUBSET DOMAIN ptr_to_size_
  <2>1. {} \cup all = all /\ DOMAIN held \ {} = DOMAIN held
    OBVIOUS
  <2>2. ptr_to_size_' = Without(ptr_to_size_, {} \cup all)
    BY <1>1, <2>1
  <2>3. /\ DOMAIN large_free_ \in SUBSET DOMAIN large_free_
        /\ {} \in SUBSET DOMAIN held
    OBVIOUS
  <2>4. DOMAIN large_free_' = DOMAIN large_free_ \ DOMAIN large_free_
    BY <1>1
  <2>5. /\ RegistryInv' /\ IdleInv'
        /\ {} \cup all \in SUBSET DOMAIN ptr_to_size_
    BY <1>1, <2>1, <2>2, <2>3, <2>4, RetireRegistry DEF Running
  <2> QED
    BY <2>1, <2>5
<1> HIDE DEF all
<1>4. HandsInv'
  BY <1>1, <1>2, <1>3, HandsRetire DEF Running, ShapeInv, RegistryInv
<1>5. LiveAccounting'
  BY <1>1, LiveSame DEF Running
<1>6. DOMAIN ptr_to_size_' \subseteq Ptrs /\ all \subseteq Ptrs
  BY <1>1, <1>3 DEF Running, ShapeInv, Without
<1>7. ShapeInv'
  BY <1>1, <1>6 DEF Running, ShapeInv
<1> QED
  BY <1>1, <1>2, <1>3, <1>4, <1>5, <1>7 DEF Running

LEMMA RetryFailsStep ==
  ASSUME NEW t \in Threads, Running, RetryFails(t)
  PROVE  Running'
<1>1. /\ UNCHANGED <<free_lists_, ptr_to_size_, pool, owned, held, stale, open>>
      /\ call[t].pc = "retry" /\ call' = [call EXCEPT ![t] = Idle]
  BY DEF RetryFails
<1>2. CallsInv' /\ SameNotes
  BY <1>1, GiveUpCalls DEF Running
<1>3. HandsInv'
  BY <1>1, <1>2, HandsSame DEF Running
<1>4. LiveAccounting'
  BY <1>1, LiveSame DEF Running, pool
<1>5. ShapeInv'
  BY <1>1 DEF Running, ShapeInv, pool
<1>6. RegistryInv' /\ IdleInv'
  BY <1>1 DEF Running, RegistryInv, IdleInv, Filed, Fits, pool
<1> QED
  BY <1>1, <1>2, <1>3, <1>4, <1>5, <1>6 DEF Running

(***************************************************************************)
(* Registration, FreeImpl and the destructor.                              *)
(***************************************************************************)
LEMMA RegisterStep ==
  ASSUME NEW t \in Threads, Running, Register(t)
  PROVE  Running'
<1> DEFINE p == call[t].ptr
           size == call[t].size
           bytes == call[t].alloc_size
           grown == call[t].grown
<1>1. /\ call[t].pc = "note"
      /\ ptr_to_size_' = With(ptr_to_size_, p, bytes)
      /\ held' = With(held, p, size)
      /\ call' = [call EXCEPT ![t] = Idle]
      /\ UNCHANGED <<free_lists_, owned, stale, open>>
      /\ \/ /\ Large(size) /\ NoteLargeCheckedOut(p, size, grown)
            /\ UNCHANGED <<large_free_, grown_reused_, large_ops_>>
         \/ ~Large(size) /\ UNCHANGED pool
  BY DEF Register
<1>2. call[t] \in Notes /\ Fits(size, bytes)
  BY <1>1 DEF Running, CallsInv, Requests, Idle
<1>3. p \in Ptrs /\ size \in Sizes /\ bytes \in Nat
  BY <1>2 DEF Notes
<1>4. grown \in BOOLEAN
  BY <1>2, Zenon DEF Notes
<1>5. p \in DOMAIN owned \ DOMAIN ptr_to_size_ /\ owned[p] = bytes
  BY <1>1 DEF Running, HandsInv, Noted
<1>6. DOMAIN call = Threads
  BY DEF Running, CallsInv
<1> HIDE DEF size, bytes, grown
<1>7. HandsInv'
  <2>1. DOMAIN ptr_to_size_' = DOMAIN ptr_to_size_ \cup {call[t].ptr}
    BY <1>1 DEF With
  <2> QED
    BY <1>1, <1>6, <2>1, RegisterHands DEF Running
<1> HIDE DEF p
<1>8. CallsInv'
  BY <1>1, <1>6 DEF Running, CallsInv, Fits
<1>9. /\ DOMAIN ptr_to_size_' = DOMAIN ptr_to_size_ \cup {p}
      /\ ptr_to_size_'[p] = bytes
      /\ \A q \in DOMAIN ptr_to_size_ : ptr_to_size_'[q] = ptr_to_size_[q]
  BY <1>1, <1>5 DEF With
<1>10. p \notin DOMAIN held
  BY <1>5 DEF Running, RegistryInv
<1>11. /\ DOMAIN held' = DOMAIN held \cup {p} /\ held'[p] = size
       /\ \A q \in DOMAIN held : held'[q] = held[q]
  BY <1>1, <1>10 DEF With
<1>12. large_free_' = large_free_ /\ grown_reused_' = grown_reused_
       /\ large_ops_' = large_ops_
  BY <1>1 DEF pool
<1>13. RegistryInv'
  <2>1. \A q \in DOMAIN ptr_to_size_' : /\ ptr_to_size_'[q] = owned'[q]
                                        /\ ptr_to_size_'[q] \in Nat
                                        /\ ~Large(ptr_to_size_'[q]) =>
                                             ptr_to_size_'[q] \in Classes
    BY <1>1, <1>2, <1>3, <1>5, <1>9 DEF Running, RegistryInv, Fits
  <2>2. \A q \in DOMAIN ptr_to_size_' \ DOMAIN held' : (Filed(q))'
    BY <1>1, <1>9, <1>11, <1>12 DEF Running, RegistryInv, Filed
  <2>3. \A q \in DOMAIN held' : Fits(held'[q], ptr_to_size_'[q])
    BY <1>2, <1>9, <1>11 DEF Running, RegistryInv
  <2>4. DOMAIN ptr_to_size_' \subseteq DOMAIN owned'
    BY <1>1, <1>5, <1>9 DEF Running, RegistryInv
  <2>5. DOMAIN held' \subseteq DOMAIN ptr_to_size_'
    BY <1>9, <1>11 DEF Running, RegistryInv
  <2> QED
    BY <2>1, <2>2, <2>3, <2>4, <2>5 DEF RegistryInv, Fits
<1>14. IdleInv'
  BY <1>1, <1>5, <1>9, <1>11, <1>12 DEF Running, IdleInv
<1>15. CASE /\ Large(size) /\ NoteLargeCheckedOut(p, size, grown)
  <2>1. LiveAccounting' /\ IsFiniteSet(DOMAIN large_live_')
    BY <1>1, <1>4, <1>10, <1>15, CheckOutAccounts DEF Running, ShapeInv
  <2>2. /\ \A q \in DOMAIN large_live_' : large_live_'[q] \in Records
        /\ peak_live_count_' \in Nat
    BY <1>3, <1>4, <1>15, <2>1, CheckOutShape DEF Running, ShapeInv
  <2>3. ShapeInv'
    BY <1>1, <1>3, <1>9, <1>11, <1>12, <2>1, <2>2 DEF Running, ShapeInv
  <2> QED
    BY <1>1, <1>7, <1>8, <1>13, <1>14, <2>1, <2>3 DEF Running
<1>16. CASE ~Large(size) /\ UNCHANGED pool
  <2>1. LiveAccounting'
    BY <1>10, <1>11, <1>16, LiveSame DEF Running, pool
  <2>2. ShapeInv'
    BY <1>1, <1>3, <1>9, <1>11, <1>12, <1>16 DEF Running, ShapeInv, pool
  <2> QED
    BY <1>1, <1>7, <1>8, <1>13, <1>14, <2>1, <2>2 DEF Running
<1> QED
  BY <1>1, <1>15, <1>16

LEMMA FreeClassStep ==
  ASSUME NEW t \in Threads, NEW p \in DOMAIN held, Running, FreeClass(t, p),
         held' = Without(held, {p}), UNCHANGED <<owned, call, open>>
  PROVE  Running'
<1> DEFINE c == ptr_to_size_[p]
<1>1. /\ p \in DOMAIN ptr_to_size_ /\ ~Large(c)
      /\ free_lists_' = [free_lists_ EXCEPT ![SizeClass[c]] = @ \cup {p}]
      /\ UNCHANGED <<ptr_to_size_, pool, stale>>
  BY DEF FreeClass
<1>2. c \in Classes /\ SizeClass[c] = c /\ p \in Ptrs
  BY <1>1, ClassOfClass DEF Running, RegistryInv, ShapeInv
<1> HIDE DEF c
<1>3. \A d \in Classes :
        free_lists_'[d] = IF d = c THEN free_lists_[d] \cup {p} ELSE free_lists_[d]
  BY <1>1, <1>2 DEF Running, ShapeInv
<1>4. /\ DOMAIN held' = DOMAIN held \ {p}
      /\ \A q \in DOMAIN held' : held'[q] = held[q]
  BY DEF Without
<1>5. ASSUME NEW q \in DOMAIN ptr_to_size_' \ DOMAIN held'
      PROVE  (Filed(q))'
  <2>1. CASE q = p
    BY <1>1, <1>2, <1>3, <2>1 DEF Filed, c
  <2>2. CASE q # p
    <3>1. Filed(q) /\ q \in DOMAIN ptr_to_size_
      BY <1>1, <1>4, <2>2 DEF Running, RegistryInv
    <3> QED
      BY <1>1, <1>3, <3>1 DEF Filed, pool, Running, RegistryInv
  <2> QED
    BY <2>1, <2>2
<1>6. RegistryInv'
  BY <1>1, <1>4, <1>5 DEF Running, RegistryInv, Fits
<1>7. IdleInv'
  <2>1. \A d \in Classes : \A q \in free_lists_'[d] :
          q \in DOMAIN ptr_to_size_' \ DOMAIN held' /\ ptr_to_size_'[q] = d
    BY <1>1, <1>3, <1>4 DEF Running, IdleInv, c
  <2> QED
    BY <1>1, <1>4, <2>1 DEF Running, IdleInv, pool
<1>8. LiveAccounting'
  <2>1. held[p] <= c /\ held[p] \in Nat /\ c \in Nat /\ ~(c > 16 * MB)
    BY <1>1, RequestsAreBytes DEF Running, RegistryInv, Fits, ShapeInv, c, Large
  <2>2. ~Large(held[p])
    BY <2>1 DEF Large, MB
  <2> QED
    BY <1>1, <1>4, <2>2, LiveSame DEF Running, pool
<1>9. HandsInv'
  BY <1>1, HandsSame DEF Running, SameNotes
<1>10. CallsInv'
  BY DEF Running, CallsInv, Fits
<1>11. free_lists_' \in [Classes -> SUBSET Ptrs]
  BY <1>1, <1>2 DEF Running, ShapeInv
<1>12. ShapeInv'
  BY <1>1, <1>4, <1>11 DEF Running, ShapeInv, pool
<1> QED
  BY <1>6, <1>7, <1>8, <1>9, <1>10, <1>12 DEF Running

\* A large buffer that is kept is filed under its bytes.
LEMMA KeepRegistry ==
  ASSUME NEW p \in DOMAIN held,
         ShapeInv, RegistryInv, IdleInv, Large(ptr_to_size_[p]),
         large_free_' = PooledWith(p), large_ops_' = large_ops_ + 1,
         ptr_to_size_' = Without(ptr_to_size_, {}),
         held' = Without(held, {p}), UNCHANGED <<owned, free_lists_>>
  PROVE  /\ RegistryInv' /\ IdleInv'
         /\ DOMAIN ptr_to_size_' = DOMAIN ptr_to_size_
         /\ \A c \in DOMAIN large_free_' :
              /\ large_free_'[c].free \in (SUBSET Ptrs) \ {{}}
              /\ large_free_'[c].last_used \in 1 .. large_ops_'
<1> DEFINE c == ptr_to_size_[p]
           with == {p} \cup (IF c \in DOMAIN large_free_
                               THEN large_free_[c].free ELSE {})
<1>1. p \in DOMAIN ptr_to_size_ /\ p \in Ptrs
  BY DEF RegistryInv, ShapeInv
<1>2. /\ DOMAIN ptr_to_size_' = DOMAIN ptr_to_size_
      /\ \A q \in DOMAIN ptr_to_size_ : ptr_to_size_'[q] = ptr_to_size_[q]
  BY DEF Without
<1>3. /\ DOMAIN held' = DOMAIN held \ {p}
      /\ \A q \in DOMAIN held' : held'[q] = held[q]
  BY DEF Without
<1>4. /\ DOMAIN large_free_' = DOMAIN large_free_ \cup {c}
      /\ large_free_'[c] = [free |-> with, last_used |-> large_ops_ + 1]
      /\ \A d \in DOMAIN large_free_ : d # c => large_free_'[d] = large_free_[d]
  BY DEF PooledWith, With
<1>5. large_free_'[c].free = with /\ large_free_'[c].last_used = large_ops_ + 1
  BY <1>4
<1>6. ASSUME NEW q \in DOMAIN ptr_to_size_' \ DOMAIN held'
      PROVE  (Filed(q))'
  <2>1. CASE q = p
    BY <1>1, <1>2, <1>4, <1>5, <2>1 DEF Filed
  <2>2. CASE q # p
    <3>1. Filed(q) /\ q \in DOMAIN ptr_to_size_
      BY <1>2, <1>3, <2>2 DEF RegistryInv
    <3>2. CASE ptr_to_size_[q] = c
      BY <1>2, <1>4, <1>5, <3>1, <3>2 DEF Filed
    <3>3. CASE ptr_to_size_[q] # c
      BY <1>2, <1>4, <3>1, <3>3 DEF Filed
    <3> QED
      BY <3>2, <3>3
  <2> QED
    BY <2>1, <2>2
<1>7. RegistryInv'
  BY <1>2, <1>3, <1>6 DEF RegistryInv, Fits
<1>8. ASSUME NEW d \in DOMAIN large_free_'
      PROVE  /\ Large(d)
             /\ \A q \in large_free_'[d].free :
                  /\ q \in DOMAIN ptr_to_size_' \ DOMAIN held'
                  /\ ptr_to_size_'[q] = d
  <2>1. CASE d = c
    BY <1>1, <1>2, <1>3, <1>5, <2>1 DEF IdleInv
  <2>2. CASE d # c
    BY <1>2, <1>3, <1>4, <2>2 DEF IdleInv
  <2> QED
    BY <2>1, <2>2
<1>9. IdleInv'
  BY <1>2, <1>3, <1>8 DEF IdleInv
<1>10. ASSUME NEW d \in DOMAIN large_free_'
       PROVE  /\ large_free_'[d].free \in (SUBSET Ptrs) \ {{}}
              /\ large_free_'[d].last_used \in 1 .. large_ops_'
  <2>1. CASE d = c
    BY <1>1, <1>5, <2>1 DEF ShapeInv
  <2>2. CASE d # c
    BY <1>4, <2>2 DEF ShapeInv
  <2> QED
    BY <2>1, <2>2
<1> QED
  BY <1>2, <1>7, <1>9, <1>10

\* Every branch of FreeLarge either keeps the buffer, or gives it up with the
\* buffers of some capacities: none, or all of them.
LEMMA FreeLargeBranches ==
  ASSUME NEW t, NEW p, FreeLarge(t, p)
  PROVE  \E idle, gone, peak :
           /\ CheckIn(t, p, StillGrowing(p), idle, gone, peak)
           /\ \/ peak = peak_live_count_
              \/ peak = Cardinality(DOMAIN large_live_ \ {p})
           /\ \/ idle = PooledWith(p) /\ gone = {}
              \/ \E caps \in SUBSET DOMAIN large_free_ :
                   /\ gone = {p} \cup BuffersOf(caps)
                   /\ DOMAIN idle = DOMAIN large_free_ \ caps
                   /\ \A c \in DOMAIN idle : idle[c] = large_free_[c]
<1>1. {p} \cup BuffersOf({}) = {p}
  BY DEF BuffersOf
<1>2. CASE CheckIn(t, p, StillGrowing(p), PooledWith(p), {}, peak_live_count_)
  BY <1>2
<1>3. CASE CheckIn(t, p, StillGrowing(p), large_free_, {p}, peak_live_count_)
  <2>1. /\ DOMAIN large_free_ = DOMAIN large_free_ \ {}
        /\ \A c \in DOMAIN large_free_ : large_free_[c] = large_free_[c]
        /\ {} \in SUBSET DOMAIN large_free_
    OBVIOUS
  <2>2. \E caps \in SUBSET DOMAIN large_free_ :
          /\ {p} = {p} \cup BuffersOf(caps)
          /\ DOMAIN large_free_ = DOMAIN large_free_ \ caps
          /\ \A c \in DOMAIN large_free_ : large_free_[c] = large_free_[c]
    BY <1>1, <2>1
  <2> QED
    BY <1>3, <2>2
<1>4. CASE \/ /\ CheckIn(t, p, StillGrowing(p), <<>>, {p}, peak_live_count_)
              /\ DOMAIN large_free_ = {}
           \/ CheckIn(t, p, StillGrowing(p), <<>>,
                      {p} \cup BuffersOf(DOMAIN large_free_),
                      Cardinality(DOMAIN large_live_ \ {p}))
  <2>1. PICK peak :
          /\ CheckIn(t, p, StillGrowing(p), <<>>,
                     {p} \cup BuffersOf(DOMAIN large_free_), peak)
          /\ \/ peak = peak_live_count_
             \/ peak = Cardinality(DOMAIN large_live_ \ {p})
    BY <1>1, <1>4
  <2>2. DOMAIN <<>> = DOMAIN large_free_ \ DOMAIN large_free_
    OBVIOUS
  <2> QED
    BY <2>1, <2>2
<1> QED
  BY <1>2, <1>3, <1>4 DEF FreeLarge, NothingIdle

LEMMA FreeLargeStep ==
  ASSUME NEW t \in Threads, NEW p \in DOMAIN held, Running, Calling(t),
         FreeLarge(t, p), held' = Without(held, {p}),
         UNCHANGED <<owned, call, open>>
  PROVE  Running'
<1>1. PICK idle, gone, peak :
        /\ CheckIn(t, p, StillGrowing(p), idle, gone, peak)
        /\ \/ peak = peak_live_count_
           \/ peak = Cardinality(DOMAIN large_live_ \ {p})
        /\ \/ idle = PooledWith(p) /\ gone = {}
           \/ \E caps \in SUBSET DOMAIN large_free_ :
                /\ gone = {p} \cup BuffersOf(caps)
                /\ DOMAIN idle = DOMAIN large_free_ \ caps
                /\ \A c \in DOMAIN idle : idle[c] = large_free_[c]
  BY FreeLargeBranches
<1>2. /\ large_ops_' = large_ops_ + 1
      /\ large_live_' = Without(large_live_, {p})
      /\ large_free_' = idle
      /\ ptr_to_size_' = Without(ptr_to_size_, gone)
      /\ stale' = [stale EXCEPT ![t] = gone]
      /\ peak_live_count_' = peak
      /\ UNCHANGED <<free_lists_, grown_reused_>>
  BY <1>1 DEF CheckIn
<1>3. Large(ptr_to_size_[p]) /\ Large(held[p]) /\ p \in DOMAIN ptr_to_size_
  BY DEF FreeLarge, Running, RegistryInv, Fits
<1>4. LiveAccounting' /\ IsFiniteSet(DOMAIN large_live_')
  BY <1>1, <1>3, CheckInAccounts DEF Running, ShapeInv
<1>5. peak \in Nat
  <2>1. Cardinality(DOMAIN large_live_ \ {p}) \in Nat
    BY FS_RemoveElement, FS_CardinalityType DEF Running, ShapeInv
  <2> QED
    BY <1>1, <2>1 DEF Running, ShapeInv
<1>6. \A q \in DOMAIN large_live_' : large_live_'[q] \in Records
  BY <1>2 DEF Without, Running, ShapeInv
<1>7. /\ DOMAIN held' = DOMAIN held \ {p}
      /\ \A q \in DOMAIN held' : held'[q] = held[q]
  BY DEF Without
<1>8. CallsInv' /\ SameNotes
  BY DEF Running, CallsInv, Fits, SameNotes
<1>9. stale[t] = {} /\ stale \in [Threads -> SUBSET Ptrs]
  BY DEF Calling, Running, ShapeInv
<1>10. /\ large_ops_' \in Nat /\ peak_live_count_' \in Nat
      /\ grown_reused_' \in BOOLEAN /\ open' \in BOOLEAN
      /\ free_lists_' \in [Classes -> SUBSET Ptrs]
      /\ DOMAIN owned' \subseteq Ptrs /\ DOMAIN held' \subseteq Ptrs
      /\ \A q \in DOMAIN held' : held'[q] \in Sizes
  <2>1. large_ops_ \in Nat /\ large_ops_' = large_ops_ + 1
    BY <1>2 DEF Running, ShapeInv
  <2>2. large_ops_' \in Nat /\ peak_live_count_' \in Nat
    BY <1>2, <1>5, <2>1
  <2>3. grown_reused_' \in BOOLEAN /\ open' \in BOOLEAN
    BY <1>2 DEF Running, ShapeInv
  <2>4. /\ free_lists_' \in [Classes -> SUBSET Ptrs]
        /\ DOMAIN owned' \subseteq Ptrs
    BY <1>2 DEF Running, ShapeInv
  <2>5. /\ DOMAIN held' \subseteq Ptrs
        /\ \A q \in DOMAIN held' : held'[q] \in Sizes
    BY <1>7 DEF Running, ShapeInv
  <2> QED
    BY <2>2, <2>3, <2>4, <2>5
<1>11. CASE idle = PooledWith(p) /\ gone = {}
  <2>1. /\ RegistryInv' /\ IdleInv'
        /\ DOMAIN ptr_to_size_' = DOMAIN ptr_to_size_
        /\ \A c \in DOMAIN large_free_' :
             /\ large_free_'[c].free \in (SUBSET Ptrs) \ {{}}
             /\ large_free_'[c].last_used \in 1 .. large_ops_'
    BY <1>2, <1>3, <1>11, KeepRegistry DEF Running
  <2>2. stale' = stale
    BY <1>2, <1>9, <1>11
  <2>3. HandsInv'
    BY <1>8, <2>1, <2>2, HandsSame DEF Running
  <2>4. ShapeInv'
    <3>1. /\ DOMAIN ptr_to_size_' \subseteq Ptrs
          /\ stale' \in [Threads -> SUBSET Ptrs]
      BY <2>1, <2>2 DEF Running, ShapeInv
    <3> QED
      BY <1>4, <1>6, <1>10, <2>1, <3>1 DEF ShapeInv
  <2> QED
    BY <1>4, <1>8, <2>1, <2>3, <2>4 DEF Running
<1>12. ASSUME NEW caps \in SUBSET DOMAIN large_free_,
              gone = {p} \cup BuffersOf(caps),
              DOMAIN idle = DOMAIN large_free_ \ caps,
              \A c \in DOMAIN idle : idle[c] = large_free_[c]
       PROVE  Running'
  <2>1. /\ RegistryInv' /\ IdleInv'
        /\ gone \in SUBSET DOMAIN ptr_to_size_
    BY <1>2, <1>3, <1>7, <1>12, RetireRegistry DEF Running
  <2>2. HandsInv'
    BY <1>2, <1>8, <1>9, <2>1, HandsRetire DEF Running, RegistryInv
  <2>3. DOMAIN ptr_to_size_' \subseteq Ptrs /\ gone \subseteq Ptrs
    BY <1>2, <2>1 DEF Running, ShapeInv, Without
  <2>4. \A c \in DOMAIN large_free_' :
          /\ large_free_'[c].free \in (SUBSET Ptrs) \ {{}}
          /\ large_free_'[c].last_used \in 1 .. large_ops_'
    BY <1>2, <1>12 DEF Running, ShapeInv
  <2>5. ShapeInv'
    <3>1. stale' \in [Threads -> SUBSET Ptrs]
      BY <1>2, <1>9, <2>3
    <3> QED
      BY <1>4, <1>6, <1>10, <2>3, <2>4, <3>1 DEF ShapeInv
  <2> QED
    BY <1>4, <1>8, <2>1, <2>2, <2>5 DEF Running
<1> QED
  BY <1>1, <1>11, <1>12

\* The destructor finds every buffer the driver gave out in the registry: no
\* thread has one in its hands.
LEMMA DestroyStep ==
  ASSUME Running, Destroy
  PROVE  Closed'
<1>1. /\ owned' = Without(owned, DOMAIN ptr_to_size_) /\ ~open'
      /\ free_lists_' = [c \in Classes |-> {}]
      /\ large_free_' = <<>> /\ ptr_to_size_' = <<>>
      /\ UNCHANGED <<large_live_, live_requested_, grown_live_count_,
                     grown_reused_, large_ops_, peak_live_count_, held, call,
                     stale>>
      /\ \A t \in Threads : call[t] = Idle /\ stale[t] = {}
  BY DEF Destroy, Calling
<1>2. \A t \in Threads : \A p : ~Noted(t, p)
  BY <1>1 DEF Noted, Idle
<1>3. DOMAIN owned \subseteq DOMAIN ptr_to_size_
  BY <1>1, <1>2 DEF Running, HandsInv
<1>4. owned' = <<>>
  BY <1>1, <1>3 DEF Without
<1>5. LiveAccounting'
  BY <1>1, LiveSame DEF Running
<1>6. open' \in BOOLEAN
  BY DEF Destroy
<1>7. ShapeInv'
  BY <1>1, <1>4, <1>6 DEF Running, ShapeInv
<1>8. CallsInv'
  BY <1>1 DEF Running, CallsInv, Fits
<1> QED
  BY <1>1, <1>4, <1>5, <1>7, <1>8 DEF Closed

\* Nothing moves after the destructor: every operation of a thread needs the
\* allocator open, a call in progress or something to release.
LEMMA ClosedStep ==
  ASSUME Closed, [Next]_vars
  PROVE  Closed'
<1>1. ASSUME NEW t \in Threads
      PROVE  ~ \/ Alloc(t) \/ Release(t) \/ DriverAlloc(t) \/ DrainAndRetry(t)
               \/ RetryFails(t) \/ Register(t) \/ Free(t)
  <2>1. call[t].pc = "idle" /\ ~open
    BY DEF Closed, Idle
  <2> QED
    BY <2>1 DEF Alloc, Free, Calling, Release, DriverAlloc, DrainAndRetry,
                RetryFails, Register
<1>2. CASE UNCHANGED vars
  <2>1. LiveAccounting'
    BY <1>2, LiveSame DEF Closed, vars, pool
  <2> QED
    BY <1>2, <2>1 DEF Closed, ShapeInv, CallsInv, Fits, vars, pool
<1>3. CASE Destroy
  <2>1. owned' = <<>>
    BY <1>3 DEF Closed, Destroy, Without
  <2>2. LiveAccounting'
    BY <1>3, LiveSame DEF Closed, Destroy
  <2>3. ShapeInv'
    <3>1. IsFiniteSet(DOMAIN large_live_')
      BY <1>3 DEF Closed, ShapeInv, Destroy
    <3>2. free_lists_' \in [Classes -> SUBSET Ptrs]
      BY <1>3 DEF Destroy
    <3>3. DOMAIN <<>> = {}
      OBVIOUS
    <3> QED
      BY <1>3, <2>1, <3>1, <3>2, <3>3 DEF Closed, ShapeInv, Destroy
  <2> QED
    BY <1>3, <2>1, <2>2, <2>3 DEF Closed, CallsInv, Fits, Destroy
<1> QED
  BY <1>1, <1>2, <1>3 DEF Next

LEMMA IInvInit == Init => IInv
<1> SUFFICES ASSUME Init PROVE Running
  BY DEF IInv
<1>1. /\ free_lists_ = [c \in Classes |-> {}] /\ ptr_to_size_ = <<>>
      /\ large_free_ = <<>> /\ large_live_ = <<>> /\ live_requested_ = <<>>
      /\ owned = <<>> /\ held = <<>> /\ grown_live_count_ = 0
      /\ large_ops_ = 0 /\ peak_live_count_ = 0 /\ grown_reused_ = FALSE
      /\ call = [t \in Threads |-> Idle] /\ stale = [t \in Threads |-> {}]
      /\ open = TRUE
  BY DEF Init
<1>2. ShapeInv
  <2>1. IsFiniteSet(DOMAIN large_live_)
    BY <1>1, FS_EmptySet
  <2>2. /\ free_lists_ \in [Classes -> SUBSET Ptrs]
        /\ stale \in [Threads -> SUBSET Ptrs]
    BY <1>1
  <2>3. DOMAIN <<>> = {}
    OBVIOUS
  <2> QED
    BY <1>1, <2>1, <2>2, <2>3 DEF ShapeInv
<1>3. CallsInv
  BY <1>1 DEF CallsInv
<1>4. LiveAccounting
  <2>1. {p \in DOMAIN held : Large(held[p])} = {}
    BY <1>1
  <2>2. /\ \A r : {p \in {} : held[p] = r} = {}
        /\ {p \in {} : large_live_[p].grown} = {}
        /\ {held[p] : p \in {}} = {}
    OBVIOUS
  <2> QED
    BY <1>1, <2>1, <2>2, FS_EmptySet DEF LiveAccounting
<1>5. RegistryInv /\ IdleInv
  BY <1>1 DEF RegistryInv, IdleInv
<1>6. HandsInv
  BY <1>1 DEF HandsInv, Noted, Idle
<1> QED
  BY <1>1, <1>2, <1>3, <1>4, <1>5, <1>6 DEF Running

LEMMA IInvStep == IInv /\ [Next]_vars => IInv'
<1> SUFFICES ASSUME IInv, [Next]_vars PROVE IInv'
  OBVIOUS
<1>1. CASE Closed
  BY <1>1, ClosedStep DEF IInv
<1>2. ASSUME Running, NEW t \in Threads, Alloc(t)
      PROVE  Running'
  <2>1. PICK size \in Sizes : \/ ClassHit(t, size)
                              \/ ClassMiss(t, size)
                              \/ LargeHit(t, size)
                              \/ LargeMiss(t, size)
    BY <1>2 DEF Alloc
  <2>2. Calling(t) /\ UNCHANGED <<owned, open>>
    BY <1>2 DEF Alloc
  <2> QED
    BY <1>2, <2>1, <2>2, ClassHitStep, ClassMissStep, LargeHitStep,
       LargeMissStep
<1>3. ASSUME Running, NEW t \in Threads, Free(t)
      PROVE  Running'
  <2>1. PICK p \in DOMAIN held : /\ FreeClass(t, p) \/ FreeLarge(t, p)
                                 /\ held' = Without(held, {p})
    BY <1>3 DEF Free
  <2>2. Calling(t) /\ UNCHANGED <<owned, call, open>>
    BY <1>3 DEF Free
  <2> QED
    BY <1>3, <2>1, <2>2, FreeClassStep, FreeLargeStep
<1>4. ASSUME Running, NEW t \in Threads,
             \/ Release(t) \/ DriverAlloc(t) \/ DrainAndRetry(t)
             \/ RetryFails(t) \/ Register(t)
      PROVE  Running'
  BY <1>4, ReleaseStep, DriverAllocStep, DrainAndRetryStep, RetryFailsStep,
     RegisterStep
<1>5. CASE Running /\ Destroy
  BY <1>5, DestroyStep DEF IInv
<1>6. CASE Running /\ UNCHANGED vars
  <2>1. LiveAccounting'
    BY <1>6, LiveSame DEF Running, vars, pool
  <2>2. HandsInv'
    BY <1>6, HandsSame DEF Running, vars, SameNotes
  <2>3. RegistryInv' /\ IdleInv'
    BY <1>6 DEF Running, RegistryInv, IdleInv, Filed, Fits, vars, pool
  <2>4. ShapeInv' /\ CallsInv' /\ open'
    BY <1>6 DEF Running, ShapeInv, CallsInv, Fits, vars, pool
  <2> QED
    BY <2>1, <2>2, <2>3, <2>4 DEF IInv, Running
<1> QED
  BY <1>1, <1>2, <1>3, <1>4, <1>5, <1>6 DEF IInv, Next

LEMMA AllocatorInvariant == Spec => []IInv
BY IInvInit, IInvStep, PTL DEF Spec

(***************************************************************************)
(* What the invariant says of the allocator.                               *)
(***************************************************************************)
\* The holders, kind by kind, and what each of them holds.
LEMMA HoldersByKind ==
  ASSUME NEW h \in Holders
  PROVE  \/ h = <<"held">>
         \/ \E c \in Classes : h = <<"class", c>>
         \/ \E c \in DOMAIN large_free_ : h = <<"bucket", c>>
         \/ \E t \in Threads : h = <<"stale", t>>
         \/ \E t \in Threads : h = <<"note", t>>
BY DEF Holders

LEMMA HoldersHold ==
  /\ Holds(<<"held">>) = DOMAIN held
  /\ \A c : Holds(<<"class", c>>) = free_lists_[c]
  /\ \A c : Holds(<<"bucket", c>>) = large_free_[c].free
  /\ \A t : Holds(<<"stale", t>>) = stale[t]
  /\ \A t, p : p \in Holds(<<"note", t>>) <=> Noted(t, p)
<1>1. Holds(<<"held">>) = DOMAIN held
  BY DEF Holds
<1>2. \A c : Holds(<<"class", c>>) = free_lists_[c]
  BY DEF Holds
<1>3. \A c : Holds(<<"bucket", c>>) = large_free_[c].free
  BY DEF Holds
<1>4. \A t : Holds(<<"stale", t>>) = stale[t]
  BY DEF Holds
<1>5. \A t, p : p \in Holds(<<"note", t>>) <=> Noted(t, p)
  BY DEF Holds, Noted
<1> QED
  BY <1>1, <1>2, <1>3, <1>4, <1>5

\* A buffer tells who can hold it.
LEMMA HolderOf ==
  ASSUME Running, NEW h \in Holders, NEW p \in Holds(h)
  PROVE  \/ h = <<"held">> /\ p \in DOMAIN held /\ p \in DOMAIN ptr_to_size_
         \/ /\ p \in DOMAIN ptr_to_size_ \ DOMAIN held
            /\ \/ h = <<"class", ptr_to_size_[p]>> /\ ~Large(ptr_to_size_[p])
               \/ h = <<"bucket", ptr_to_size_[p]>> /\ Large(ptr_to_size_[p])
         \/ /\ p \in DOMAIN owned \ DOMAIN ptr_to_size_
            /\ \E t \in Threads : \/ h = <<"stale", t>> /\ p \in stale[t]
                                  \/ h = <<"note", t>> /\ Noted(t, p)
<1>1. CASE h = <<"held">>
  BY <1>1, HoldersHold DEF Running, RegistryInv
<1>2. ASSUME NEW c \in Classes, h = <<"class", c>>
      PROVE  /\ p \in DOMAIN ptr_to_size_ \ DOMAIN held
             /\ h = <<"class", ptr_to_size_[p]>> /\ ~Large(ptr_to_size_[p])
  <2>1. p \in free_lists_[c]
    BY <1>2, HoldersHold
  <2> QED
    BY <1>2, <2>1, ClassOfClass DEF Running, IdleInv
<1>3. ASSUME NEW c \in DOMAIN large_free_, h = <<"bucket", c>>
      PROVE  /\ p \in DOMAIN ptr_to_size_ \ DOMAIN held
             /\ h = <<"bucket", ptr_to_size_[p]>> /\ Large(ptr_to_size_[p])
  <2>1. p \in large_free_[c].free
    BY <1>3, HoldersHold
  <2> QED
    BY <1>3, <2>1 DEF Running, IdleInv
<1>4. ASSUME NEW t \in Threads, h = <<"stale", t>>
      PROVE  p \in stale[t] /\ p \in DOMAIN owned \ DOMAIN ptr_to_size_
  BY <1>4, HoldersHold DEF Running, HandsInv
<1>5. ASSUME NEW t \in Threads, h = <<"note", t>>
      PROVE  Noted(t, p) /\ p \in DOMAIN owned \ DOMAIN ptr_to_size_
  BY <1>5, HoldersHold DEF Running, HandsInv
<1> QED
  BY <1>1, <1>2, <1>3, <1>4, <1>5, HoldersByKind

\* What the registry names has a holder: its caller, or the list or the bucket
\* of its bytes.
LEMMA TrackedHeld ==
  ASSUME Running, NEW p \in DOMAIN ptr_to_size_
  PROVE  \E h \in Holders : /\ p \in Holds(h)
                            /\ h[1] \in {"held", "class", "bucket"}
<1>1. CASE p \in DOMAIN held
  <2>1. <<"held">> \in Holders /\ <<"held">>[1] = "held"
    BY DEF Holders
  <2> QED
    BY <1>1, <2>1, HoldersHold
<1>2. CASE p \notin DOMAIN held /\ Large(ptr_to_size_[p])
  <2>1. /\ ptr_to_size_[p] \in DOMAIN large_free_
        /\ p \in large_free_[ptr_to_size_[p]].free
    BY <1>2 DEF Running, RegistryInv, Filed
  <2>2. /\ <<"bucket", ptr_to_size_[p]>> \in Holders
        /\ <<"bucket", ptr_to_size_[p]>>[1] = "bucket"
    BY <2>1 DEF Holders
  <2> QED
    BY <2>1, <2>2, HoldersHold
<1>3. CASE p \notin DOMAIN held /\ ~Large(ptr_to_size_[p])
  <2>1. /\ ptr_to_size_[p] \in Classes
        /\ p \in free_lists_[ptr_to_size_[p]]
    BY <1>3 DEF Running, RegistryInv, Filed
  <2>2. /\ <<"class", ptr_to_size_[p]>> \in Holders
        /\ <<"class", ptr_to_size_[p]>>[1] = "class"
    BY <2>1 DEF Holders
  <2> QED
    BY <2>1, <2>2, HoldersHold
<1> QED
  BY <1>1, <1>2, <1>3

LEMMA RunningOnePlace == Running => OnePlace
<1> SUFFICES ASSUME Running PROVE OnePlace
  OBVIOUS
<1>1. ASSUME NEW p \in DOMAIN owned
      PROVE  \E h \in Holders : p \in Holds(h)
  <2>1. CASE p \in DOMAIN ptr_to_size_
    BY <2>1, TrackedHeld
  <2>2. CASE p \notin DOMAIN ptr_to_size_
    <3>1. PICK t \in Threads : p \in stale[t] \/ Noted(t, p)
      BY <1>1, <2>2 DEF Running, HandsInv
    <3>2. <<"stale", t>> \in Holders /\ <<"note", t>> \in Holders
      BY DEF Holders
    <3> QED
      BY <3>1, <3>2, HoldersHold
  <2> QED
    BY <2>1, <2>2
<1>2. ASSUME NEW h \in Holders, NEW p \in Holds(h)
      PROVE  p \in DOMAIN owned
  BY <1>2, HolderOf DEF Running, RegistryInv
<1>3. ASSUME NEW g \in Holders, NEW h \in Holders, NEW p,
             p \in Holds(g), p \in Holds(h)
      PROVE  g = h
  <2>1. CASE p \in DOMAIN ptr_to_size_
    BY <1>3, <2>1, HolderOf
  <2>2. CASE p \notin DOMAIN ptr_to_size_
    <3>1. PICK t \in Threads : \/ g = <<"stale", t>> /\ p \in stale[t]
                               \/ g = <<"note", t>> /\ Noted(t, p)
      BY <1>3, <2>2, HolderOf
    <3>2. PICK u \in Threads : \/ h = <<"stale", u>> /\ p \in stale[u]
                               \/ h = <<"note", u>> /\ Noted(u, p)
      BY <1>3, <2>2, HolderOf
    <3> QED
      BY <3>1, <3>2 DEF Running, HandsInv
  <2> QED
    BY <2>1, <2>2
<1>4. DOMAIN owned = UNION {Holds(h) : h \in Holders}
  BY <1>1, <1>2
<1>5. \A g, h \in Holders : g # h => Holds(g) \cap Holds(h) = {}
  BY <1>3
<1> QED
  BY <1>4, <1>5 DEF OnePlace

LEMMA RunningRegistry == Running => RegistryExact
<1> SUFFICES ASSUME Running PROVE RegistryExact
  OBVIOUS
<1>1. ASSUME NEW h \in Holders, h[1] \in {"held", "class", "bucket"},
             NEW p \in Holds(h)
      PROVE  p \in DOMAIN ptr_to_size_
  <2>1. \A t : <<"stale", t>>[1] = "stale" /\ <<"note", t>>[1] = "note"
    OBVIOUS
  <2> QED
    BY <1>1, <2>1, HolderOf
<1>2. DOMAIN ptr_to_size_ =
        UNION {Holds(h) : h \in {g \in Holders : g[1] \in
                                   {"held", "class", "bucket"}}}
  BY <1>1, TrackedHeld
<1>3. \A p \in DOMAIN ptr_to_size_ : ptr_to_size_[p] = owned[p]
  BY DEF Running, RegistryInv
<1>4. ASSUME NEW h \in Holders, h[1] \in {"class", "bucket"}, NEW p \in Holds(h)
      PROVE  ptr_to_size_[p] = h[2]
  <2>1. \/ h = <<"class", ptr_to_size_[p]>> \/ h = <<"bucket", ptr_to_size_[p]>>
        \/ h = <<"held">> \/ \E t : h = <<"stale", t>> \/ h = <<"note", t>>
    BY <1>4, HolderOf
  <2> QED
    BY <1>4, <2>1
<1> QED
  BY <1>2, <1>3, <1>4 DEF RegistryExact

LEMMA IInvTypes == IInv => TypeOK
<1> SUFFICES ASSUME IInv PROVE TypeOK
  OBVIOUS
<1>1. ShapeInv /\ CallsInv /\ LiveAccounting
  BY DEF IInv, Running, Closed
<1> DEFINE live == {p \in DOMAIN held : Large(held[p])}
<1>2. /\ DOMAIN large_live_ = live /\ IsFiniteSet(live)
      /\ DOMAIN live_requested_ = {held[p] : p \in live}
      /\ \A r \in DOMAIN live_requested_ :
           live_requested_[r] = Cardinality({p \in live : held[p] = r})
      /\ grown_live_count_ = Cardinality({p \in live : large_live_[p].grown})
  BY <1>1 DEF LiveAccounting, ShapeInv
<1>3. DOMAIN large_live_ \subseteq Ptrs
  BY <1>1, <1>2 DEF ShapeInv
<1> HIDE DEF live
<1>4. ASSUME NEW r \in DOMAIN live_requested_
      PROVE  live_requested_[r] \in Nat \ {0}
  <2>1. /\ {p \in live : held[p] = r} \subseteq live
        /\ {p \in live : held[p] = r} # {}
    BY <1>2, <1>4
  <2>2. IsFiniteSet({p \in live : held[p] = r})
    BY <1>2, <2>1, FS_Subset
  <2> QED
    BY <1>2, <1>4, <2>1, <2>2, FS_CardinalityType, FS_EmptySet
<1>5. grown_live_count_ \in Nat
  <2>1. {p \in live : large_live_[p].grown} \subseteq live
    OBVIOUS
  <2> QED
    BY <1>2, <2>1, FS_Subset, FS_CardinalityType
<1>6. \A t \in Threads : call[t].pc \in {"idle", "driver", "retry", "note"}
  BY <1>1 DEF CallsInv, Idle, Requests, Notes
<1> QED
  BY <1>1, <1>3, <1>4, <1>5, <1>6 DEF TypeOK, ShapeInv

\* The type of the state, whatever the numbers of threads, addresses and sizes.
THEOREM AllocatorTypes == Spec => []TypeOK
BY IInvTypes, AllocatorInvariant, PTL

\* Every buffer of the driver is in exactly one place: with one caller, on one
\* list, in one bucket, or in the hands of one thread inside Alloc or Free.
THEOREM AllocatorOnePlace == Spec => []OnePlace
<1>1. IInv => OnePlace
  BY RunningOnePlace DEF IInv, Closed, OnePlace
<1> QED
  BY <1>1, AllocatorInvariant, PTL

\* ptr_to_size_ names exactly what is checked out or idle, with its bytes.
THEOREM AllocatorRegistryExact == Spec => []RegistryExact
<1>1. IInv => RegistryExact
  BY RunningRegistry DEF IInv, Closed, RegistryExact
<1> QED
  BY <1>1, AllocatorInvariant, PTL

\* What a caller gets covers what it asked for, with bounded waste, also when
\* the buffer was allocated for somebody else.
THEOREM AllocatorCoversRequest == Spec => []CoversRequest
<1>1. IInv => CoversRequest
  BY DEF IInv, Running, Closed, RegistryInv, Fits, CoversRequest
<1> QED
  BY <1>1, AllocatorInvariant, PTL

\* The counters behind the growth heuristics agree with what callers hold.
THEOREM AllocatorLiveAccounting == Spec => []LiveAccounting
<1>1. IInv => LiveAccounting
  BY DEF IInv, Running, Closed
<1> QED
  BY <1>1, AllocatorInvariant, PTL

\* The destructor gives everything back to the driver.
THEOREM AllocatorReleasedAtTeardown == Spec => []ReleasedAtTeardown
<1>1. IInv => ReleasedAtTeardown
  BY DEF IInv, Running, Closed, ReleasedAtTeardown
<1> QED
  BY <1>1, AllocatorInvariant, PTL

(***************************************************************************)
(* The allocator implements the buffer service: the buffers callers have   *)
(* and the driver's books are the service's state, and a step of a thread  *)
(* is one step of the service or none.                                     *)
(***************************************************************************)
\* A caller gets a buffer nobody has, of a capacity for the request.
LEMMA ServesGrant ==
  ASSUME open, open' = open, NEW p \in Ptrs, NEW size \in Sizes,
         p \in DOMAIN owned \ DOMAIN held, Fits(size, owned[p]),
         held' = With(held, p, size), owned' = owned
  PROVE  Service!Next
<1>1. owned[p] \in Capacities[size]
  <2>1. CASE Large(size)
    <3>1. Capacities[size] = size .. LargeCapacity(size)
      BY <2>1, Zenon DEF Capacities
    <3>2. /\ owned[p] \in Nat /\ size <= owned[p] /\ size \in Nat
          /\ owned[p] <= LargeCapacity(size) /\ LargeCapacity(size) \in Nat
      BY <2>1, HeadroomCovers, RequestsAreBytes DEF Fits
    <3> QED
      BY <3>1, <3>2
  <2>2. CASE ~Large(size)
    <3>1. Capacities[size] = {SizeClass[size]}
      BY <2>2, Zenon DEF Capacities
    <3>2. owned[p] = SizeClass[size]
      BY <2>2 DEF Fits
    <3> QED
      BY <3>1, <3>2
  <2> QED
    BY <2>1, <2>2
<1>2. Service!Grant(p, size)
  BY <1>1 DEF Service!Grant, With
<1> QED
  BY <1>2 DEF Service!Next, Service!Serve

LEMMA ServesAlloc ==
  ASSUME Running, NEW t \in Threads, Alloc(t)
  PROVE  Service!Next \/ UNCHANGED <<held, owned, open>>
<1>1. PICK size \in Sizes : \/ ClassHit(t, size)
                            \/ ClassMiss(t, size)
                            \/ LargeHit(t, size)
                            \/ LargeMiss(t, size)
  BY DEF Alloc
<1>2. open /\ UNCHANGED <<owned, open>>
  BY DEF Alloc, Running
<1>3. CASE ClassMiss(t, size) \/ LargeMiss(t, size)
  BY <1>2, <1>3 DEF ClassMiss, LargeMiss
<1>4. CASE ClassHit(t, size)
  <2> DEFINE cls == SizeClass[size]
  <2>1. cls \in Classes /\ Fits(size, cls)
    BY <1>4, ClassFits DEF ClassHit
  <2> HIDE DEF cls
  <2>2. PICK p \in free_lists_[cls] : held' = With(held, p, size)
    BY <1>4 DEF ClassHit, cls
  <2>3. /\ p \in DOMAIN ptr_to_size_ \ DOMAIN held /\ ptr_to_size_[p] = cls
        /\ p \in Ptrs
    BY <2>1 DEF Running, IdleInv, ShapeInv
  <2>4. p \in DOMAIN owned /\ owned[p] = cls
    BY <2>3 DEF Running, RegistryInv
  <2> QED
    BY <1>2, <2>1, <2>2, <2>3, <2>4, ServesGrant
<1>5. CASE LargeHit(t, size)
  <2>1. /\ size <= LargeCapacity(size) /\ size \in Nat /\ Large(size)
        /\ LargeCapacity(size) \in Nat
    BY <1>5, HeadroomCovers, RequestsAreBytes DEF LargeHit
  <2>2. PICK c \in Fitting(size) : \E p \in large_free_[c].free :
                                    held' = With(held, p, size)
    BY <1>5 DEF LargeHit
  <2>3. PICK p \in large_free_[c].free : held' = With(held, p, size)
    BY <2>2
  <2>4. c \in DOMAIN large_free_ /\ size <= c /\ c <= LargeCapacity(size)
    BY DEF Fitting
  <2>5. /\ p \in DOMAIN ptr_to_size_ \ DOMAIN held /\ ptr_to_size_[p] = c
        /\ p \in Ptrs /\ Large(c)
    BY <2>4 DEF Running, IdleInv, ShapeInv
  <2>6. p \in DOMAIN owned /\ owned[p] = c /\ c \in Nat
    BY <2>5 DEF Running, RegistryInv
  <2>7. Fits(size, owned[p])
    BY <2>1, <2>4, <2>5, <2>6 DEF Fits
  <2> QED
    BY <1>2, <2>3, <2>5, <2>6, <2>7, ServesGrant
<1> QED
  BY <1>1, <1>3, <1>4, <1>5

\* Only what is in no caller's hands goes to the driver.
LEMMA ServesRelease ==
  ASSUME Running, NEW t \in Threads, Release(t)
  PROVE  Service!Next
<1>1. PICK p \in stale[t] : owned' = Without(owned, {p})
  BY DEF Release
<1>2. p \in Ptrs /\ p \in DOMAIN owned \ DOMAIN ptr_to_size_
  BY DEF Running, ShapeInv, HandsInv
<1>3. p \notin DOMAIN held
  BY <1>2 DEF Running, RegistryInv
<1>4. Service!GiveUp(p)
  BY <1>1, <1>2, <1>3 DEF Release, Service!GiveUp, Without
<1> QED
  BY <1>2, <1>4 DEF Release, Service!Next, Service!Serve

\* The driver is asked for a capacity of the request, and no other.
LEMMA ServesDriverAlloc ==
  ASSUME Running, NEW t \in Threads, DriverAlloc(t)
  PROVE  Service!Next
<1> DEFINE bytes == call[t].alloc_size
           size == call[t].size
<1>1. PICK p \in Ptrs \ DOMAIN owned : owned' = With(owned, p, bytes)
  BY DEF DriverAlloc
<1>2. size \in Sizes /\ Fits(size, bytes)
  <2>1. call[t].pc # "idle"
    BY DEF DriverAlloc
  <2>2. call[t] \in Requests \cup Notes /\ Fits(size, bytes)
    BY <2>1 DEF Running, CallsInv, Idle
  <2> QED
    BY <2>2 DEF Requests, Notes
<1> HIDE DEF bytes, size
<1>3. bytes \in Capacities[size]
  <2>1. CASE Large(size)
    <3>1. Capacities[size] = size .. LargeCapacity(size)
      BY <1>2, <2>1, Zenon DEF Capacities
    <3>2. /\ bytes \in Nat /\ size <= bytes /\ size \in Nat
          /\ bytes <= LargeCapacity(size) /\ LargeCapacity(size) \in Nat
      BY <1>2, <2>1, HeadroomCovers, RequestsAreBytes DEF Fits
    <3> QED
      BY <3>1, <3>2
  <2>2. CASE ~Large(size)
    <3>1. Capacities[size] = {SizeClass[size]}
      BY <1>2, <2>2, Zenon DEF Capacities
    <3>2. bytes = SizeClass[size]
      BY <1>2, <2>2 DEF Fits
    <3> QED
      BY <3>1, <3>2
  <2> QED
    BY <2>1, <2>2
<1>4. /\ DOMAIN owned' = DOMAIN owned \cup {p} /\ owned'[p] = bytes
      /\ owned' = [q \in DOMAIN owned' |-> IF q = p THEN owned'[p] ELSE owned[q]]
  BY <1>1 DEF With
<1>5. Service!Acquire(p)
  BY <1>1, <1>2, <1>3, <1>4 DEF DriverAlloc, Service!Acquire
<1> QED
  BY <1>5 DEF Running, DriverAlloc, Service!Next, Service!Serve

LEMMA ServesRegister ==
  ASSUME Running, NEW t \in Threads, Register(t)
  PROVE  Service!Next
<1> DEFINE p == call[t].ptr
           size == call[t].size
<1>1. call[t].pc = "note" /\ held' = With(held, p, size) /\ UNCHANGED <<owned, open>>
  BY DEF Register
<1>2. call[t] \in Notes /\ Fits(size, call[t].alloc_size)
  BY <1>1 DEF Running, CallsInv, Idle, Requests
<1>3. p \in Ptrs /\ size \in Sizes
  BY <1>2 DEF Notes
<1>4. /\ p \in DOMAIN owned \ DOMAIN ptr_to_size_
      /\ owned[p] = call[t].alloc_size
  BY <1>1 DEF Running, HandsInv, Noted
<1>5. p \notin DOMAIN held
  BY <1>4 DEF Running, RegistryInv
<1>6. open
  BY DEF Running
<1> HIDE DEF p, size
<1> QED
  BY <1>1, <1>2, <1>3, <1>4, <1>5, <1>6, ServesGrant

LEMMA ServesFree ==
  ASSUME Running, NEW t \in Threads, Free(t)
  PROVE  Service!Next
<1>1. PICK p \in DOMAIN held : held' = Without(held, {p})
  BY DEF Free
<1>2. p \in Ptrs /\ open /\ UNCHANGED <<owned, open>>
  BY DEF Free, Running, ShapeInv
<1>3. Service!TakeBack(p)
  BY <1>1, <1>2 DEF Service!TakeBack, Without
<1> QED
  BY <1>2, <1>3 DEF Service!Next, Service!Serve

\* The destructor finds everything the driver gave out in the registry.
LEMMA ServesDestroy ==
  ASSUME Running, Destroy
  PROVE  Service!Next
<1>1. owned' = <<>>
  BY DestroyStep DEF Closed
<1>2. Service!Close
  BY <1>1 DEF Running, Destroy, Service!Close
<1> QED
  BY <1>2 DEF Service!Next

LEMMA ServesStep ==
  ASSUME IInv, [Next]_vars
  PROVE  [Service!Next]_(Service!vars)
<1>1. CASE Closed
  <2>1. Closed'
    BY <1>1, ClosedStep
  <2>2. UNCHANGED <<owned, open>>
    BY <1>1, <2>1 DEF Closed, ShapeInv
  <2>3. held' = held
    <3>1. ASSUME NEW t \in Threads
          PROVE  ~(Alloc(t) \/ Register(t) \/ Free(t))
      BY <1>1 DEF Closed, Idle, Alloc, Register, Free, Calling
    <3> QED
      BY <3>1 DEF Next, Release, DriverAlloc, DrainAndRetry, RetryFails,
                  Destroy, vars
  <2> QED
    BY <2>2, <2>3 DEF Service!vars
<1>2. ASSUME Running, NEW t \in Threads,
             \/ Alloc(t) \/ Release(t) \/ DriverAlloc(t) \/ Register(t)
             \/ Free(t)
      PROVE  Service!Next \/ UNCHANGED <<held, owned, open>>
  BY <1>2, ServesAlloc, ServesRelease, ServesDriverAlloc, ServesRegister,
     ServesFree
<1>3. ASSUME NEW t \in Threads, DrainAndRetry(t) \/ RetryFails(t)
      PROVE  UNCHANGED <<held, owned, open>>
  BY <1>3 DEF DrainAndRetry, RetryFails
<1>4. CASE Running /\ Destroy
  BY <1>4, ServesDestroy
<1>5. CASE UNCHANGED vars
  BY <1>5 DEF vars, Service!vars
<1> QED
  BY <1>1, <1>2, <1>3, <1>4, <1>5 DEF IInv, Next, Service!vars

\* Callers and driver see one buffer service, whatever the threads do while
\* pool_mutex_ is released.
THEOREM AllocatorImplementsService == Spec => ImplementsService
<1>1. Init => Service!Init
  BY DEF Init, Service!Init
<1>2. IInv /\ [Next]_vars => [Service!Next]_(Service!vars)
  BY ServesStep
<1> QED
  BY <1>1, <1>2, AllocatorInvariant, PTL DEF Spec, ImplementsService, Service!Spec
=============================================================================
