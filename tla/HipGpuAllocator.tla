---------------------------- MODULE HipGpuAllocator ----------------------------
(***************************************************************************)
(* The execution provider's pooling OrtAllocator, one instance shared by   *)
(* every session of the process.  Requests up to the largest size class    *)
(* are served from per-class free lists; larger ones go to the driver      *)
(* except for tensors that grow a little at every inference, which are     *)
(* given headroom and kept for reuse while one of them is checked out.     *)
(*                                                                         *)
(* pool_mutex_ is dropped around every driver call, so Alloc is several    *)
(* steps of a thread: the locked decision, the release of what that        *)
(* decision retired, the driver's answer (with one retry after draining    *)
(* the pool) and the locked registration.  The driver may hand out again   *)
(* an address it has just got back.                                        *)
(***************************************************************************)
EXTENDS Integers, FiniteSets

CONSTANTS Threads,     \* threads calling Alloc and Free
          Ptrs,        \* addresses the driver can return
          Sizes        \* request sizes in bytes, none of them 0

ASSUME RequestsAreBytes == Sizes \subseteq Nat \ {0}

VARIABLES free_lists_,       \* idle buffers of each size class
          ptr_to_size_,      \* tracked buffer -> allocated bytes
          large_free_,       \* capacity -> idle large buffers, last_used
          large_live_,       \* checked-out large buffer -> requested, grown
          live_requested_,   \* requested size -> checked-out large buffers
          grown_live_count_,
          grown_reused_,
          large_ops_,
          peak_live_count_,
          owned,             \* the driver: allocated address -> its bytes
          held,              \* the callers: buffer -> the size asked for
          call,              \* each thread's Alloc in progress
          stale,             \* what each thread has yet to give the driver
          open               \* FALSE once the destructor has run

pool == <<large_free_, large_live_, live_requested_, grown_live_count_,
          grown_reused_, large_ops_, peak_live_count_>>
vars == <<free_lists_, ptr_to_size_, pool, owned, held, call, stale, open>>

KB == 1024
MB == 1024 * 1024
kPageSize == 4096

Steps(base, n) == {base + (base * k) \div n : k \in 0 .. n - 1}

kSizeClasses ==
  {128, 256, 512, 1024, MB, 4 * MB, 16 * MB}
  \cup (UNION {Steps(KB * 2^i, 4) : i \in 0 .. 9})
  \cup (UNION {Steps(MB * 2^i, 16) : i \in 0 .. 1})
  \cup (UNION {Steps(4 * MB * 2^i, 32) : i \in 0 .. 1})

\* A size above the last class is "large".
Large(size) == size > 16 * MB

\* The first class whose capacity covers a request or an allocated size.
SizeClass ==
  [size \in {s \in Sizes : ~Large(s)} \cup kSizeClasses |->
     CHOOSE c \in kSizeClasses :
       c >= size /\ \A d \in kSizeClasses : d >= size => c <= d]

\* The request and 1/32 of headroom, in whole pages.
LargeCapacity(size) ==
  ((size + size \div 32 + kPageSize - 1) \div kPageSize) * kPageSize

Classes == {SizeClass[s] : s \in {s \in Sizes : ~Large(s)}}
Without(f, S) == [x \in DOMAIN f \ S |-> f[x]]
With(f, x, v) == [y \in DOMAIN f \cup {x} |-> IF y = x THEN v ELSE f[y]]
Larger(m, n) == IF m >= n THEN m ELSE n

Idle == [pc |-> "idle"]
Calling(t) == open /\ call[t] = Idle /\ stale[t] = {}

\* The buffers of some capacities of the large pool.
BuffersOf(caps) == UNION {large_free_[c].free : c \in caps}

NothingIdle == DOMAIN large_free_ = {}

(***************************************************************************)
(* The heuristics that recognise a growing tensor.                         *)
(***************************************************************************)
\* Some checked-out request is at most 1/64 smaller.
ReplacesLiveBuffer(size) ==
  \E r \in DOMAIN live_requested_ : size - size \div 64 <= r /\ r < size

\* The next larger checked-out request is at most 1/64 larger.
ReplacedByLiveBuffer(requested) ==
  \E r \in DOMAIN live_requested_ :
    /\ r > requested
    /\ \A s \in DOMAIN live_requested_ : s > requested => r <= s
    /\ r - r \div 64 <= requested

\* Idle capacities a request of this size has outgrown.
Outgrown(size, grown) ==
  {c \in DOMAIN large_free_ :
     (IF grown THEN size - size \div 16 ELSE 0) <= c /\ c < size}

\* Idle capacities nothing has touched for four times the peak live count.
Aged(ops) ==
  LET slack == 4 * Larger(peak_live_count_, 1)
  IN  {c \in DOMAIN large_free_ :
         ops > slack /\ large_free_[c].last_used < ops - slack}

\* A slip: a second checked-out buffer of the same size is not counted.
NoteLargeCheckedOutOnce(p, requested, grown) ==
  /\ large_live_' = With(large_live_, p, [requested |-> requested,
                                          grown |-> grown])
  /\ live_requested_' = With(live_requested_, requested, 1)
  /\ grown_live_count_' = grown_live_count_ + IF grown THEN 1 ELSE 0
  /\ peak_live_count_' =
       Larger(peak_live_count_, Cardinality(DOMAIN large_live_'))

NoteLargeCheckedOut(p, requested, grown) ==
  /\ large_live_' = With(large_live_, p, [requested |-> requested,
                                          grown |-> grown])
  /\ live_requested_' =
       With(live_requested_, requested,
            IF requested \in DOMAIN live_requested_
              THEN live_requested_[requested] + 1 ELSE 1)
  /\ grown_live_count_' = grown_live_count_ + IF grown THEN 1 ELSE 0
  /\ peak_live_count_' =
       Larger(peak_live_count_, Cardinality(DOMAIN large_live_'))

(***************************************************************************)
(* AllocImpl, first locked section.                                        *)
(***************************************************************************)
\* A slip: the buffer handed out stays on its free list.
ClassHitUnpopped(t, size) ==
  /\ ~Large(size)
  /\ \E p \in free_lists_[SizeClass[size]] : held' = With(held, p, size)
  /\ UNCHANGED <<free_lists_, ptr_to_size_, pool, call, stale>>

ClassHit(t, size) ==
  LET cls == SizeClass[size] IN
  /\ ~Large(size)
  /\ \E p \in free_lists_[cls] :
       /\ free_lists_' = [free_lists_ EXCEPT ![cls] = @ \ {p}]
       /\ held' = With(held, p, size)
  /\ UNCHANGED <<ptr_to_size_, pool, call, stale>>

Miss(t, size, grown, alloc_size) ==
  call' = [call EXCEPT ![t] = [pc |-> "driver", size |-> size,
                               grown |-> grown, alloc_size |-> alloc_size]]

ClassMiss(t, size) ==
  /\ ~Large(size)
  /\ free_lists_[SizeClass[size]] = {}
  /\ Miss(t, size, FALSE, SizeClass[size])
  /\ UNCHANGED <<free_lists_, ptr_to_size_, pool, held, stale>>

\* A slip: the search starts at the tolerance below the request.
FittingNearby(size) ==
  {c \in DOMAIN large_free_ :
     size - size \div 64 <= c /\ c <= LargeCapacity(size)}

\* The smallest idle capacity that covers the request, if no larger than a
\* grown allocation of it would be.
Fitting(size) ==
  {c \in DOMAIN large_free_ :
     /\ size <= c /\ c <= LargeCapacity(size)
     /\ \A d \in DOMAIN large_free_ : size <= d => c <= d}

\* Bucket c after p left it: an empty bucket is erased.
TakenFrom(c, p) ==
  LET left == large_free_[c].free \ {p} IN
  IF left = {} THEN Without(large_free_, {c})
               ELSE [large_free_ EXCEPT ![c] = [free |-> left,
                                                last_used |-> large_ops_ + 1]]

LargeHit(t, size) ==
  LET grown == ReplacesLiveBuffer(size) IN
  /\ Large(size)
  /\ large_ops_' = large_ops_ + 1
  /\ \E c \in Fitting(size) : \E p \in large_free_[c].free :
       /\ large_free_' = TakenFrom(c, p)
       /\ NoteLargeCheckedOut(p, size, grown)
       /\ held' = With(held, p, size)
  /\ grown_reused_' = (grown_reused_ \/ grown)
  /\ UNCHANGED <<free_lists_, ptr_to_size_, call, stale>>

LargeMiss(t, size) ==
  LET grown == ReplacesLiveBuffer(size)
      retired == Outgrown(size, grown) \cup Aged(large_ops_ + 1)
  IN
  /\ Large(size)
  /\ Fitting(size) = {}
  /\ large_ops_' = large_ops_ + 1
  /\ Miss(t, size, grown,
          IF grown \/ grown_reused_ THEN LargeCapacity(size) ELSE size)
  /\ stale' = [stale EXCEPT ![t] = BuffersOf(retired)]
  /\ large_free_' = Without(large_free_, retired)
  /\ ptr_to_size_' = Without(ptr_to_size_, BuffersOf(retired))
  /\ UNCHANGED <<free_lists_, large_live_, live_requested_, grown_live_count_,
                 grown_reused_, peak_live_count_, held>>

Alloc(t) ==
  /\ Calling(t)
  /\ \E size \in Sizes :
       \/ ClassHit(t, size)
       \/ ClassMiss(t, size)
       \/ LargeHit(t, size)
       \/ LargeMiss(t, size)
  /\ UNCHANGED <<owned, open>>

(***************************************************************************)
(* AllocImpl with pool_mutex_ released: driver calls.                      *)
(***************************************************************************)
\* ReleaseToDriver, one buffer at a time.
Release(t) ==
  /\ open
  /\ \E p \in stale[t] :
       /\ stale' = [stale EXCEPT ![t] = @ \ {p}]
       /\ owned' = Without(owned, {p})
  /\ UNCHANGED <<free_lists_, ptr_to_size_, pool, held, call, open>>

DriverAlloc(t) ==
  /\ call[t].pc \in {"driver", "retry"}
  /\ stale[t] = {}
  /\ \E p \in Ptrs \ DOMAIN owned :
       /\ owned' = With(owned, p, call[t].alloc_size)
       /\ call' = [call EXCEPT ![t] = [pc |-> "note", ptr |-> p,
                     size |-> @.size, grown |-> @.grown,
                     alloc_size |-> @.alloc_size]]
  /\ UNCHANGED <<free_lists_, ptr_to_size_, pool, held, stale, open>>

\* A slip: what is drained stays tracked.
DrainAndRetryTracked(t) ==
  /\ call[t].pc = "driver"
  /\ stale[t] = {}
  /\ stale' = [stale EXCEPT ![t] = BuffersOf(DOMAIN large_free_)]
  /\ large_free_' = <<>>
  /\ call' = [call EXCEPT ![t] = IF NothingIdle
                                   THEN Idle ELSE [@ EXCEPT !.pc = "retry"]]
  /\ UNCHANGED <<free_lists_, ptr_to_size_, large_live_, live_requested_,
                 grown_live_count_, grown_reused_, large_ops_,
                 peak_live_count_, owned, held, open>>

\* The driver refuses: drain the large pool and retry if that freed anything.
DrainAndRetry(t) ==
  /\ call[t].pc = "driver"
  /\ stale[t] = {}
  /\ stale' = [stale EXCEPT ![t] = BuffersOf(DOMAIN large_free_)]
  /\ ptr_to_size_' = Without(ptr_to_size_, BuffersOf(DOMAIN large_free_))
  /\ large_free_' = <<>>
  /\ call' = [call EXCEPT ![t] = IF NothingIdle
                                   THEN Idle ELSE [@ EXCEPT !.pc = "retry"]]
  /\ UNCHANGED <<free_lists_, large_live_, live_requested_, grown_live_count_,
                 grown_reused_, large_ops_, peak_live_count_, owned, held,
                 open>>

\* The driver refuses again: Alloc returns nullptr.
RetryFails(t) ==
  /\ call[t].pc = "retry"
  /\ stale[t] = {}
  /\ call' = [call EXCEPT ![t] = Idle]
  /\ UNCHANGED <<free_lists_, ptr_to_size_, pool, owned, held, stale, open>>

\* AllocImpl, last locked section.
Register(t) ==
  LET c == call[t] IN
  /\ c.pc = "note"
  /\ ptr_to_size_' = With(ptr_to_size_, c.ptr, c.alloc_size)
  /\ \/ /\ Large(c.size)
        /\ NoteLargeCheckedOut(c.ptr, c.size, c.grown)
        /\ UNCHANGED <<large_free_, grown_reused_, large_ops_>>
     \/ ~Large(c.size) /\ UNCHANGED pool
  /\ held' = With(held, c.ptr, c.size)
  /\ call' = [call EXCEPT ![t] = Idle]
  /\ UNCHANGED <<free_lists_, owned, stale, open>>

(***************************************************************************)
(* FreeImpl.  Its branch for a pointer the allocator does not track has no *)
(* action: RegistryExact says that no caller holds such a pointer.         *)
(***************************************************************************)
FreeClass(t, p) ==
  /\ p \in DOMAIN ptr_to_size_
  /\ ~Large(ptr_to_size_[p])
  /\ free_lists_' = [free_lists_ EXCEPT ![SizeClass[ptr_to_size_[p]]] =
                                          @ \cup {p}]
  /\ UNCHANGED <<ptr_to_size_, pool, stale>>

\* The large pool with p put back under its capacity.
PooledWith(p) ==
  LET c == ptr_to_size_[p] IN
  With(large_free_, c,
       [free |-> {p} \cup (IF c \in DOMAIN large_free_
                             THEN large_free_[c].free ELSE {}),
        last_used |-> large_ops_ + 1])

\* p is checked in; growing grown buffers remain out, the pool becomes idle
\* and gone leaves the registry for the driver.
CheckIn(t, p, growing, idle, gone, peak) ==
  LET size == large_live_[p].requested IN
  /\ large_ops_' = large_ops_ + 1
  /\ large_live_' = Without(large_live_, {p})
  /\ live_requested_' =
       IF live_requested_[size] = 1
         THEN Without(live_requested_, {size})
         ELSE [live_requested_ EXCEPT ![size] = @ - 1]
  /\ grown_live_count_' = growing
  /\ large_free_' = idle
  /\ ptr_to_size_' = Without(ptr_to_size_, gone)
  /\ stale' = [stale EXCEPT ![t] = gone]
  /\ peak_live_count_' = peak
  /\ UNCHANGED <<free_lists_, grown_reused_>>

\* Whether p is worth keeping, judged while it still counts as checked out.
Keeps(p) ==
  large_live_[p].grown \/ ReplacedByLiveBuffer(large_live_[p].requested)

StillGrowing(p) == grown_live_count_ - IF large_live_[p].grown THEN 1 ELSE 0

\* A slip: the last grown buffer is kept like the others.
FreeLargeUndrained(t, p) ==
  /\ p \in DOMAIN ptr_to_size_
  /\ Large(ptr_to_size_[p])
  /\ IF Keeps(p)
       THEN CheckIn(t, p, StillGrowing(p), PooledWith(p), {}, peak_live_count_)
       ELSE CheckIn(t, p, StillGrowing(p), large_free_, {p}, peak_live_count_)

\* A slip: every buffer checked in counts as grown.
FreeLargeMiscounted(t, p) ==
  /\ p \in DOMAIN ptr_to_size_
  /\ Large(ptr_to_size_[p])
  /\ CheckIn(t, p, grown_live_count_ - 1, large_free_, {p}, peak_live_count_)

\* A large buffer is kept or goes to the driver; when no grown buffer is
\* checked out any more the whole pool goes with it.
FreeLarge(t, p) ==
  LET growing == StillGrowing(p)
      all == BuffersOf(DOMAIN large_free_)
  IN
  /\ p \in DOMAIN ptr_to_size_
  /\ Large(ptr_to_size_[p])
  /\ \/ /\ growing > 0 /\ Keeps(p)
        /\ CheckIn(t, p, growing, PooledWith(p), {}, peak_live_count_)
     \/ /\ growing > 0 /\ ~Keeps(p)
        /\ CheckIn(t, p, growing, large_free_, {p}, peak_live_count_)
     \/ /\ growing = 0 /\ NothingIdle
        /\ CheckIn(t, p, growing, <<>>, {p}, peak_live_count_)
     \/ /\ growing = 0 /\ ~NothingIdle
        /\ CheckIn(t, p, growing, <<>>, {p} \cup all,
                   Cardinality(DOMAIN large_live_ \ {p}))

Free(t) ==
  /\ Calling(t)
  /\ \E p \in DOMAIN held :
       /\ FreeClass(t, p) \/ FreeLarge(t, p)
       /\ held' = Without(held, {p})
  /\ UNCHANGED <<owned, call, open>>

\* A slip: the destructor walks the free lists instead of the registry.
DestroyIdleOnly ==
  /\ \A t \in Threads : Calling(t)
  /\ owned' = Without(owned, BuffersOf(DOMAIN large_free_)
                             \cup UNION {free_lists_[c] : c \in Classes})
  /\ open' = FALSE
  /\ UNCHANGED <<free_lists_, ptr_to_size_, pool, held, call, stale>>

\* ~HipGpuAllocator, run when the factory goes: no thread is in a call.
Destroy ==
  /\ \A t \in Threads : Calling(t)
  /\ owned' = Without(owned, DOMAIN ptr_to_size_)
  /\ open' = FALSE
  /\ free_lists_' = [c \in Classes |-> {}]
  /\ large_free_' = <<>>
  /\ ptr_to_size_' = <<>>
  /\ UNCHANGED <<large_live_, live_requested_, grown_live_count_,
                 grown_reused_, large_ops_, peak_live_count_, held, call,
                 stale>>

Init ==
  /\ free_lists_ = [c \in Classes |-> {}]
  /\ ptr_to_size_ = <<>> /\ large_free_ = <<>> /\ large_live_ = <<>>
  /\ live_requested_ = <<>> /\ owned = <<>> /\ held = <<>>
  /\ grown_live_count_ = 0 /\ large_ops_ = 0 /\ peak_live_count_ = 0
  /\ grown_reused_ = FALSE
  /\ call = [t \in Threads |-> Idle]
  /\ stale = [t \in Threads |-> {}]
  /\ open = TRUE

Next ==
  \/ \E t \in Threads :
       \/ Alloc(t) \/ Release(t) \/ DriverAlloc(t) \/ DrainAndRetry(t)
       \/ RetryFails(t) \/ Register(t) \/ Free(t)
  \/ Destroy

Spec == Init /\ [][Next]_vars

(***************************************************************************)
(* Properties.                                                             *)
(***************************************************************************)
Records == [requested : Sizes, grown : BOOLEAN]

\* The type of the state, and that pooling bookkeeping never empties a bucket
\* or a counter without removing it.
TypeOK ==
  /\ free_lists_ \in [Classes -> SUBSET Ptrs]
  /\ DOMAIN ptr_to_size_ \subseteq Ptrs /\ DOMAIN owned \subseteq Ptrs
  /\ DOMAIN held \subseteq Ptrs /\ \A p \in DOMAIN held : held[p] \in Sizes
  /\ \A c \in DOMAIN large_free_ :
       /\ large_free_[c].free \in (SUBSET Ptrs) \ {{}}
       /\ large_free_[c].last_used \in 1 .. large_ops_
  /\ DOMAIN large_live_ \subseteq Ptrs
  /\ \A p \in DOMAIN large_live_ : large_live_[p] \in Records
  /\ \A r \in DOMAIN live_requested_ : live_requested_[r] \in Nat \ {0}
  /\ grown_live_count_ \in Nat /\ large_ops_ \in Nat
  /\ peak_live_count_ \in Nat /\ grown_reused_ \in BOOLEAN
  /\ \A t \in Threads : call[t].pc \in {"idle", "driver", "retry", "note"}
  /\ stale \in [Threads -> SUBSET Ptrs]
  /\ open \in BOOLEAN

\* Where a buffer of the driver can be: with a caller, on a class's free list,
\* in a bucket, or in the hands of a thread inside Alloc or Free.
Holders == {<<"held">>} \cup ({"class"} \X Classes)
           \cup ({"bucket"} \X DOMAIN large_free_)
           \cup ({"stale", "note"} \X Threads)

Holds(h) ==
  CASE h[1] = "held" -> DOMAIN held
    [] h[1] = "class" -> free_lists_[h[2]]
    [] h[1] = "bucket" -> large_free_[h[2]].free
    [] h[1] = "stale" -> stale[h[2]]
    [] h[1] = "note" /\ call[h[2]].pc = "note" -> {call[h[2]].ptr}
    [] OTHER -> {}

\* No buffer is handed to two callers, pooled while somebody uses it, given to
\* the driver while pooled, or forgotten: every buffer the driver has given
\* out is in exactly one place, whatever the threads are doing.
OnePlace ==
  open => /\ DOMAIN owned = UNION {Holds(h) : h \in Holders}
          /\ \A g, h \in Holders : g # h => Holds(g) \cap Holds(h) = {}

\* The registry the destructor and Free rely on holds exactly the buffers that
\* are checked out or idle, with the bytes the driver gave them, and an idle
\* one is filed under those bytes.  A thread in the middle of a release or a
\* registration owns buffers that the registry does not name.
RegistryExact ==
  open =>
    /\ DOMAIN ptr_to_size_ =
         UNION {Holds(h) : h \in {g \in Holders : g[1] \in
                                     {"held", "class", "bucket"}}}
    /\ \A p \in DOMAIN ptr_to_size_ : ptr_to_size_[p] = owned[p]
    /\ \A h \in Holders : h[1] \in {"class", "bucket"} =>
         \A p \in Holds(h) : ptr_to_size_[p] = h[2]

\* A caller's buffer covers what it asked for, and a large one wastes no more
\* than the growth headroom, even when the buffer was allocated for another
\* request.
CoversRequest ==
  open => \A p \in DOMAIN held :
            /\ held[p] <= owned[p]
            /\ Large(held[p]) => owned[p] <= LargeCapacity(held[p])

\* The counters that decide what is grown and what is kept agree with the
\* large buffers callers hold, a registration in flight included.
LiveAccounting ==
  LET live == {p \in DOMAIN held : Large(held[p])} IN
  /\ DOMAIN large_live_ = live
  /\ \A p \in live : large_live_[p].requested = held[p]
  /\ DOMAIN live_requested_ = {held[p] : p \in live}
  /\ \A r \in DOMAIN live_requested_ :
       live_requested_[r] = Cardinality({p \in live : held[p] = r})
  /\ grown_live_count_ = Cardinality({p \in live : large_live_[p].grown})

\* Idle large buffers are retained only while some grown buffer is checked
\* out: the pool never outlives the tensors that justify it, also when the
\* live buffer a request was judged against is freed before that request is
\* registered.
RetainedWhileGrowing == ~NothingIdle => grown_live_count_ > 0

\* The destructor leaves the driver with nothing, buffers still checked out
\* included.
ReleasedAtTeardown == ~open => owned = <<>>

(***************************************************************************)
(* The allocator as a service.                                             *)
(***************************************************************************)
\* What a buffer serving a request may hold: the request's class, or, when it
\* is large, up to the growth headroom more.
Capacities ==
  [size \in Sizes |-> IF Large(size) THEN size .. LargeCapacity(size)
                                     ELSE {SizeClass[size]}]

Service == INSTANCE BufferService
             WITH Buffers <- Ptrs, Requests <- Sizes, Capacities <- Capacities,
                  granted <- held, backing <- owned

\* Whatever the threads do between two locked sections, callers and driver see
\* one buffer service: a buffer goes to one caller at a time, serves a request
\* of its capacity whoever it was allocated for, keeps its bytes until it goes
\* back, and goes back only while no caller has it, or in the destructor.
ImplementsService == Service!Spec
=============================================================================
