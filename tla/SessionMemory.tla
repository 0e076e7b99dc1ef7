----------------------------- MODULE SessionMemory -----------------------------
(***************************************************************************)
(* The device memory of one session (hipdnn_ep_runtime_state.cpp): the     *)
(* per-domain pools of the running graph, the grow-on-demand scratches,    *)
(* the transient arena they are cut from with its hipMalloc fallback, and  *)
(* the Scan and Loop drivers (hipdnn_ep_runtime_loop.cpp) that run other   *)
(* pool-planned functions in the middle of a graph.                        *)
(*                                                                         *)
(* One host thread drives the session; the GPU is the other actor: kernels *)
(* stay in flight after the call that launched them and retire whenever.   *)
(* A growth is three steps - synchronize, free, allocate - because both    *)
(* the GPU and a failing hipMalloc can come between them.                  *)
(*                                                                         *)
(* A pointer is an integer: the units of the arena first, then the         *)
(* addresses of the driver, as device_free tells them apart by range.  A   *)
(* session without an arena is one whose RegionBytes are 0 (the code then  *)
(* keeps no statistic, which no decision reads).                           *)
(***************************************************************************)
EXTENDS Integers, Sequences, FiniteSets, SequencesExt

CONSTANTS RegionBytes,    \* bytes of the transient arena
          NumDirect,      \* blocks hipMalloc can hand out at a time
          NumDomains,     \* pool domains a function may use
          Scratches,      \* the grow-on-demand scratches, "workspace" among them
          PoolSizes,      \* the bytes that get_pool is asked for
          ScratchSizes,   \* the bytes that the ensure_* functions are asked for
          BodyKinds,      \* the drivers at work: "scan", "loop"
          MaxDepth,       \* bound on nested functions
          MaxInFlight     \* bound on the buffers kernels in flight refer to

ASSUME SessionAssumption ==
  /\ RegionBytes \in Nat /\ PoolSizes \subseteq Nat /\ ScratchSizes \subseteq Nat
  /\ NumDirect \in Nat /\ NumDomains \in Nat \ {0} /\ MaxDepth \in Nat \ {0}

VARIABLES free, live, used, hwm, answer,     \* the arena's allocator
          direct,      \* direct_live, and the driver's table: bytes or 0
          held,        \* TransientArena::live
          pools,       \* num_pool_domains, pool_base, pool_size
          scanPools,   \* the same three fields cached for Scan bodies
          scanActive,  \* scan_pool_active
          scratch,     \* base and size of each scratch
          stack,       \* the functions running, outermost first
          call,        \* the growth the host is in the middle of
          inflight,    \* buffers that kernels in flight refer to
          phase

arenaVars == <<free, live, used, hwm, answer>>
vars == <<arenaVars, direct, held, pools, scanPools, scanActive, scratch,
          stack, call, inflight, phase>>

Arena == INSTANCE TransientArena WITH Requests <- PoolSizes \cup ScratchSizes

Domains == 0 .. NumDomains - 1
DirectAddrs == Arena!NumUnits .. Arena!NumUnits + NumDirect - 1
Null == Arena!NoBlock
Dangling == -2          \* a view whose memory was given back under it

InArena(p) == p < Arena!NumUnits
Allocated == {o \in Arena!Offsets : live[o] > 0} \cup {a \in DirectAddrs : direct[a] > 0}
BytesAt(p) == IF InArena(p) THEN live[p] * Arena!kAlign ELSE direct[p]

NoPools == [num |-> 0, base |-> [d \in Domains |-> Null], size |-> [d \in Domains |-> 0]]
NoViews == [d \in Domains |-> Null]
NoBuffer == [base |-> Null, size |-> 0]
Idle == [kind |-> "none", id |-> 0, need |-> 0, at |-> "idle"]

\* saved holds the locals of run_scan: the pools of the calling function.
Frame(fn, saved) == [fn |-> fn, views |-> NoViews, saved |-> saved]

Init ==
  /\ Arena!Init
  /\ direct = [a \in DirectAddrs |-> 0]
  /\ held = 0
  /\ pools = NoPools /\ scanPools = NoPools
  /\ scanActive = FALSE
  /\ scratch = [s \in Scratches |-> NoBuffer]
  /\ stack = <<>>
  /\ call = Idle
  /\ inflight = {}
  /\ phase = "new"
-----------------------------------------------------------------------------
(* hipdnn_ep_state_device_alloc and hipdnn_ep_state_device_free *)

\* Slip: a block that misses the arena is not tracked.
DeviceAllocUntracked(bytes, p) ==
  /\ Arena!Allocate(bytes)
  /\ IF answer'.offset # Null
     THEN /\ p = answer'.offset
          /\ held' = held + live'[p] * Arena!kAlign
          /\ UNCHANGED direct
     ELSE \/ /\ p \in DirectAddrs /\ direct[p] = 0
             /\ direct' = [direct EXCEPT ![p] = bytes]
             /\ UNCHANGED held
          \/ p = Null /\ UNCHANGED <<direct, held>>

\* p, or Null when both the arena and hipMalloc have no room, is the result.
DeviceAlloc(bytes, p) ==
  /\ Arena!Allocate(bytes)
  /\ IF answer'.offset # Null
     THEN /\ p = answer'.offset
          /\ held' = held + live'[p] * Arena!kAlign
          /\ UNCHANGED direct
     ELSE \/ /\ p \in DirectAddrs /\ direct[p] = 0
             /\ direct' = [direct EXCEPT ![p] = bytes]
             /\ held' = held + bytes
          \/ p = Null /\ UNCHANGED <<direct, held>>

\* The arena takes the block at p back; of a p where no live block starts it
\* only prints.
ArenaTakes(p) == IF live[p] > 0 THEN Arena!Release(p) ELSE UNCHANGED arenaVars

\* Slip: the tracked size of a fallback block is not taken off again.
DeviceFreeUntracked(p) ==
  IF InArena(p)
  THEN ArenaTakes(p) /\ inflight' = {} /\ UNCHANGED direct /\ held' = held - BytesAt(p)
  ELSE direct' = [direct EXCEPT ![p] = 0] /\ UNCHANGED <<arenaVars, inflight, held>>

\* Returning an arena block synchronizes the device first.  Nothing is assumed
\* of hipFree, whose callers synchronize.
DeviceFree(p) ==
  /\ held' = held - BytesAt(p)
  /\ IF InArena(p)
     THEN ArenaTakes(p) /\ inflight' = {} /\ UNCHANGED direct
     ELSE direct' = [direct EXCEPT ![p] = 0] /\ UNCHANGED <<arenaVars, inflight>>

\* What freeing p leaves of the views the running functions hold.
WithoutViewsOf(p) ==
  [i \in DOMAIN stack |->
     [stack[i] EXCEPT !.views =
        [d \in Domains |-> IF @[d] = p THEN Dangling ELSE @[d]]]]
-----------------------------------------------------------------------------
(* Growth *)

Running == phase = "open" /\ stack # <<>> /\ call = Idle
Top == Len(stack)

\* Slip: the old buffer is freed without draining the stream.
GrowWithoutSync(kind, id, old, bytes) ==
  /\ call' = [kind |-> kind, id |-> id, need |-> bytes,
              at |-> IF old = Null THEN "alloc" ELSE "free"]
  /\ UNCHANGED inflight

\* Slip: growing never frees the old buffer.
GrowWithoutFree(kind, id, old, bytes) ==
  /\ call' = [kind |-> kind, id |-> id, need |-> bytes, at |-> "alloc"]
  /\ inflight' = {}

\* The decision to grow: the stream is drained before an old buffer is freed.
Grow(kind, id, old, bytes) ==
  /\ call' = [kind |-> kind, id |-> id, need |-> bytes,
              at |-> IF old = Null THEN "alloc" ELSE "free"]
  /\ inflight' = IF old = Null THEN inflight ELSE {}

\* hipdnn_ep_get_pool_base.  A function asks for each of its domains once; a
\* domain is asked for at least one byte.  When ensure_pool_domains cannot
\* extend the arrays, nothing changes and the view stays null.
GetPool(d, size) ==
  LET need == IF size = 0 THEN 1 ELSE size IN
  /\ Running /\ stack[Top].views[d] = Null
  /\ pools' = [pools EXCEPT !.num = IF @ > d THEN @ ELSE d + 1]
  /\ \/ /\ need <= pools.size[d]
        /\ stack' = [stack EXCEPT ![Top].views[d] = pools.base[d]]
        /\ UNCHANGED <<call, inflight>>
     \/ /\ need > pools.size[d]
        /\ Grow("pool", d, pools.base[d], need)
        /\ UNCHANGED stack
  /\ UNCHANGED <<arenaVars, direct, held, scanPools, scanActive, scratch, phase>>

\* hipdnn_ep_state_ensure_workspace and its siblings, for a request that does
\* not fit yet: an existing buffer grows by half at least.
EnsureScratch(s, size) ==
  LET old == scratch[s]
      grown == old.size + old.size \div 2
  IN /\ Running /\ size > old.size
     /\ Grow("scratch", s, old.base, IF grown > size THEN grown ELSE size)
     /\ UNCHANGED <<arenaVars, direct, held, pools, scanPools, scanActive,
                    scratch, stack, phase>>

\* The old buffer goes.  A scratch forgets it here, a pool only when the new
\* one has arrived.
GrowFree ==
  LET isPool == call.kind = "pool"
      old == IF isPool THEN pools.base[call.id] ELSE scratch[call.id].base
  IN /\ call.at = "free"
     /\ DeviceFree(old)
     /\ stack' = WithoutViewsOf(old)
     /\ scratch' = IF isPool THEN scratch ELSE [scratch EXCEPT ![call.id] = NoBuffer]
     /\ call' = [call EXCEPT !.at = "alloc"]
     /\ UNCHANGED <<pools, scanPools, scanActive, phase>>

\* The new buffer arrives, or nothing does: then a pool is left empty, a
\* scratch reports the failure, and the workspace ends the process.
GrowAlloc ==
  /\ call.at = "alloc"
  /\ \E p \in Arena!Offsets \cup DirectAddrs \cup {Null} :
       LET size == IF p = Null THEN 0 ELSE call.need IN
       /\ DeviceAlloc(call.need, p)
       /\ \/ /\ call.kind = "pool"
             /\ pools' = [pools EXCEPT !.base[call.id] = p, !.size[call.id] = size]
             /\ stack' = [stack EXCEPT ![Top].views[call.id] = p]
             /\ UNCHANGED <<scratch, phase>>
          \/ /\ call.kind = "scratch"
             /\ scratch' = [scratch EXCEPT ![call.id] = [base |-> p, size |-> size]]
             /\ phase' = IF p = Null /\ call.id = "workspace" THEN "aborted" ELSE phase
             /\ UNCHANGED <<pools, stack>>
  /\ call' = Idle
  /\ UNCHANGED <<scanPools, scanActive, inflight>>
-----------------------------------------------------------------------------
(* The graph and the GPU *)

\* The rest of inference_init: a function whose pool size is known at compile
\* time has domain 0 allocated (hipdnn_ep_pool_init).  When that fails the
\* process ends.
PoolInit(size) ==
  /\ phase = "new" /\ size > 0
  /\ \E p \in Arena!Offsets \cup DirectAddrs \cup {Null} :
       /\ DeviceAlloc(size, p)
       /\ phase' = IF p = Null THEN "aborted" ELSE "open"
       /\ pools' = [num |-> 1, base |-> [pools.base EXCEPT ![0] = p],
                    size |-> [pools.size EXCEPT ![0] = IF p = Null THEN 0 ELSE size]]
  /\ UNCHANGED <<scanPools, scanActive, scratch, stack, call, inflight>>

NoPoolInit ==
  /\ phase = "new" /\ phase' = "open"
  /\ UNCHANGED <<arenaVars, direct, held, pools, scanPools, scanActive, scratch,
                 stack, call, inflight>>

\* inference_compute calls main_graph.
Compute ==
  /\ phase = "open" /\ stack = <<>>
  /\ stack' = <<Frame("main", NoPools)>>
  /\ UNCHANGED <<arenaVars, direct, held, pools, scanPools, scanActive, scratch,
                 call, inflight, phase>>

\* inference_compute is over.  The stream is synchronized, except on the error
\* paths of a failed prepare_input or reset, or when the wait itself fails.
ComputeDone ==
  /\ Running /\ Top = 1
  /\ stack' = <<>>
  /\ inflight' \in {{}, inflight}
  /\ UNCHANGED <<arenaVars, direct, held, pools, scanPools, scanActive, scratch,
                 call, phase>>

\* Slip: the body runs against the pools of its caller.
EnterScanUnswapped ==
  /\ Running /\ Top < MaxDepth /\ ~scanActive
  /\ stack' = Append(stack, Frame("scan", pools))
  /\ scanActive' = TRUE
  /\ UNCHANGED <<arenaVars, direct, held, pools, scanPools, scratch, call, inflight, phase>>

\* Slip: nothing refuses a Scan inside a Scan.
EnterScanNested ==
  /\ Running /\ Top < MaxDepth
  /\ stack' = Append(stack, Frame("scan", pools))
  /\ pools' = scanPools
  /\ scanActive' = TRUE
  /\ UNCHANGED <<arenaVars, direct, held, scanPools, scratch, call, inflight, phase>>

\* hipdnn_ep_run_scan: the body gets the pools cached for Scan bodies.  Inside
\* another Scan it is refused.
EnterScan ==
  /\ Running /\ Top < MaxDepth /\ ~scanActive
  /\ stack' = Append(stack, Frame("scan", pools))
  /\ pools' = scanPools
  /\ scanActive' = TRUE
  /\ UNCHANGED <<arenaVars, direct, held, scanPools, scratch, call, inflight, phase>>

\* Slip: the caller's pools are not put back.
LeaveScanUnrestored ==
  /\ Running /\ stack[Top].fn = "scan"
  /\ scanPools' = stack[Top].saved
  /\ UNCHANGED pools
  /\ scanActive' = FALSE
  /\ stack' = Front(stack)
  /\ UNCHANGED <<arenaVars, direct, held, scratch, call, inflight, phase>>

\* ... and the caller's are put back, whether the body succeeded or not.
LeaveScan ==
  /\ Running /\ stack[Top].fn = "scan"
  /\ scanPools' = pools
  /\ pools' = stack[Top].saved
  /\ scanActive' = FALSE
  /\ stack' = Front(stack)
  /\ UNCHANGED <<arenaVars, direct, held, scratch, call, inflight, phase>>

\* runLoopImpl calls the body with the state as it is, and so does run_if.
EnterLoop ==
  /\ Running /\ Top < MaxDepth
  /\ stack' = Append(stack, Frame("loop", NoPools))
  /\ UNCHANGED <<arenaVars, direct, held, pools, scanPools, scanActive, scratch,
                 call, inflight, phase>>

LeaveLoop ==
  /\ Running /\ stack[Top].fn = "loop"
  /\ stack' = Front(stack)
  /\ UNCHANGED <<arenaVars, direct, held, pools, scanPools, scanActive, scratch,
                 call, inflight, phase>>

\* The next iteration runs the body again, which asks for its pools anew.
Iterate ==
  /\ Running /\ Top > 1
  /\ stack' = [stack EXCEPT ![Top].views = NoViews]
  /\ UNCHANGED <<arenaVars, direct, held, pools, scanPools, scanActive, scratch,
                 call, inflight, phase>>

\* What the running function can pass to a kernel: its own buffers, what it
\* captured from its callers - freed or not - and the scratches.
Reachable ==
  ({stack[i].views[d] : i \in 1 .. Top, d \in Domains}
     \cup {scratch[s].base : s \in Scratches}) \ {Null}

Launch ==
  /\ Running /\ Cardinality(inflight) < MaxInFlight
  /\ \E p \in Reachable : inflight' = inflight \cup {p}
  /\ UNCHANGED <<arenaVars, direct, held, pools, scanPools, scanActive, scratch,
                 stack, call, phase>>

Retire ==
  /\ \E p \in inflight : inflight' = inflight \ {p}
  /\ UNCHANGED <<arenaVars, direct, held, pools, scanPools, scanActive, scratch,
                 stack, call, phase>>
-----------------------------------------------------------------------------
(* hipdnn_ep_state_cleanup *)

Cleanup ==
  /\ phase = "open" /\ stack = <<>>
  /\ inflight' = {}
  /\ phase' = "closing"
  /\ UNCHANGED <<arenaVars, direct, held, pools, scanPools, scanActive, scratch,
                 stack, call>>

FreeScratch ==
  /\ \E s \in Scratches :
       /\ scratch[s].base # Null
       /\ DeviceFree(scratch[s].base)
       /\ scratch' = [scratch EXCEPT ![s] = NoBuffer]
  /\ UNCHANGED <<pools, scanPools>>

\* The pools go domain by domain, up to num_pool_domains.
First(p) == {d \in Domains : /\ d < p.num /\ p.base[d] # Null
                             /\ \A e \in 0 .. d - 1 : p.base[e] = Null}

FreePool ==
  /\ \A s \in Scratches : scratch[s].base = Null
  /\ \E d \in First(pools) :
       /\ DeviceFree(pools.base[d])
       /\ pools' = [pools EXCEPT !.base[d] = Null]
  /\ UNCHANGED <<scratch, scanPools>>

FreeScanPool ==
  /\ \A s \in Scratches : scratch[s].base = Null
  /\ First(pools) = {}
  /\ \E d \in First(scanPools) :
       /\ DeviceFree(scanPools.base[d])
       /\ scanPools' = [scanPools EXCEPT !.base[d] = Null]
  /\ UNCHANGED <<scratch, pools>>

\* Slip: the arena goes as soon as the scratches have.
DestroyArenaEarly ==
  /\ \A s \in Scratches : scratch[s].base = Null
  /\ phase' = "closed"
  /\ UNCHANGED <<arenaVars, direct, held, inflight, scratch, pools, scanPools>>

\* destroy_transient_arena comes after every block cut from the arena.
DestroyArena ==
  /\ \A s \in Scratches : scratch[s].base = Null
  /\ First(pools) = {} /\ First(scanPools) = {}
  /\ phase' = "closed"
  /\ UNCHANGED <<arenaVars, direct, held, inflight, scratch, pools, scanPools>>

CleanupStep ==
  /\ phase = "closing"
  /\ \/ (FreeScratch \/ FreePool \/ FreeScanPool) /\ UNCHANGED phase
     \/ DestroyArena
  /\ UNCHANGED <<scanActive, stack, call>>
-----------------------------------------------------------------------------
Next ==
  \/ NoPoolInit \/ \E size \in PoolSizes : PoolInit(size)
  \/ \E d \in Domains, size \in PoolSizes : GetPool(d, size)
  \/ \E s \in Scratches, size \in ScratchSizes : EnsureScratch(s, size)
  \/ GrowFree \/ GrowAlloc
  \/ Compute \/ ComputeDone
  \/ "scan" \in BodyKinds /\ (EnterScan \/ LeaveScan)
  \/ "loop" \in BodyKinds /\ (EnterLoop \/ LeaveLoop)
  \/ Iterate \/ Launch \/ Retire
  \/ Cleanup \/ CleanupStep

Spec == Init /\ [][Next]_vars
-----------------------------------------------------------------------------
(* Properties *)

Pointers == Arena!Offsets \cup DirectAddrs \cup {Null}
PoolSets == [num : 0 .. NumDomains, base : [Domains -> Pointers], size : [Domains -> Nat]]

TypeOK ==
  /\ Arena!TypeOK
  /\ direct \in [DirectAddrs -> Nat] /\ held \in Nat
  /\ pools \in PoolSets /\ scanPools \in PoolSets /\ scanActive \in BOOLEAN
  /\ scratch \in [Scratches -> [base : Pointers, size : Nat]]
  /\ \A i \in 1 .. Top : /\ stack[i].fn \in {"main"} \cup BodyKinds
                         /\ stack[i].views \in [Domains -> Pointers \cup {Dangling}]
                         /\ stack[i].saved \in PoolSets
  /\ Top <= MaxDepth
  /\ call.at \in {"idle", "free", "alloc"}
  /\ inflight \subseteq (Pointers \cup {Dangling}) \ {Null}
  /\ phase \in {"new", "open", "aborted", "closing", "closed"}

\* The pool arrays alive at the moment.  While a Scan body runs, the cached
\* fields are a copy of the current ones and the caller's are in run_scan.
ScanFrame == CHOOSE i \in 1 .. Top : stack[i].fn = "scan"
PoolArrays ==
  [current |-> pools, other |-> IF scanActive THEN stack[ScanFrame].saved ELSE scanPools]

\* Who owns what: every slot with a buffer, less the pool that is between the
\* free and the allocation of its growth.
OwnsPool(a, d) ==
  /\ d < PoolArrays[a].num /\ PoolArrays[a].base[d] # Null
  /\ ~(a = "current" /\ call.at = "alloc" /\ call.kind = "pool" /\ call.id = d)
Owners ==
  {<<"scratch", s>> : s \in {t \in Scratches : scratch[t].base # Null}} \cup
  {o \in {"current", "other"} \X Domains : OwnsPool(o[1], o[2])}
Owned(o) == IF o[1] = "scratch" THEN scratch[o[2]]
            ELSE [base |-> PoolArrays[o[1]].base[o[2]], size |-> PoolArrays[o[1]].size[o[2]]]

\* Every block that is allocated belongs to exactly one slot, whose recorded
\* size it can hold: nothing leaks when a growth fails half way or a Scan
\* swaps the pools, and no two slots share a buffer.
SlotsOwnMemory ==
  /\ Allocated = {Owned(o).base : o \in Owners}
  /\ \A o, q \in Owners : Owned(o).base = Owned(q).base => o = q
  /\ \A o \in Owners : Owned(o).size <= BytesAt(Owned(o).base)

\* No kernel in flight refers to memory that was given back.  A Loop body that
\* grows its caller's pool leaves the caller a view that breaks this.
InFlightLive == inflight \subseteq Allocated

\* The bytes allocated at the addresses below a.
BytesBelow[a \in 0 .. Arena!NumUnits + NumDirect] ==
  IF a = 0 THEN 0 ELSE BytesBelow[a - 1] + BytesAt(a - 1)

\* The arena's live-bytes statistic is what is allocated, in the arena and
\* outside of it; device_free would otherwise wrap it below zero.
HeldIsOutstanding == held = BytesBelow[Arena!NumUnits + NumDirect]

\* What the comment in run_scan demands of a body: its temporaries take none
\* of the memory of a function that waits for it, and its growths free none.
CapturesIntact ==
  \A i \in 1 .. Top, d \in Domains :
    LET view == stack[i].views[d] IN
    /\ view # Dangling
    /\ view # Null =>
         \A j \in 1 .. Top, e \in Domains : stack[j].views[e] = view => i = j /\ d = e

\* The views of the functions that wait for a Scan are unlike those of its
\* body and of what the body calls.
ApartFromCallers ==
  scanActive =>
    \A i \in 1 .. ScanFrame - 1, j \in ScanFrame .. Top, d, e \in Domains :
      stack[i].views[d] = stack[j].views[e] => stack[i].views[d] \in {Null, Dangling}

\* While a Scan body runs, whatever runs inside it, the functions that wait for
\* it keep the memory they hold: the body and what it calls are given none of
\* it, and no growth of theirs takes a caller's view away.  Loops around the
\* Scan may have broken views before it began; the Scan breaks no more.
CallersIntact ==
  scanActive /\ scanActive' =>
    /\ ApartFromCallers'
    /\ \A i \in 1 .. ScanFrame - 1 : stack'[i].views = stack[i].views
ScanCapturesIntact == [][CallersIntact]_vars

\* The pools of the calling function are back, as it left them, when a Scan
\* is over: the pool a running function was given is the pool of its domain.
ViewsAreCurrent ==
  Running => \A d \in Domains :
               stack[Top].views[d] # Null => stack[Top].views[d] = pools.base[d]

\* Cleanup hands back every buffer before the arena goes.
NothingLeft == phase = "closed" => Allocated = {} /\ held = 0
=============================================================================
