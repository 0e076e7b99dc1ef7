------------------------------ MODULE LoopDriver ------------------------------
(***************************************************************************)
(* The ONNX Loop drivers of one session                                    *)
(* (lib/Runtime/hipdnn_ep_runtime_loop.cpp) and its stream.  The host      *)
(* submits one copy and one body per iteration; the GPU executes what was  *)
(* submitted, in order, at its own pace.  The copy reads the iteration     *)
(* number from a pinned array that a later loop may replace by a longer    *)
(* one; the condition lies in one byte that host and GPU share.            *)
(*                                                                         *)
(* A body is Kernels kernels, each of which reads the iteration number and *)
(* the condition; the last one writes the next condition, unless the loop  *)
(* is counted, which means that the condition passes through the body.     *)
(* Loops are not nested: hip-onnx-loop-outline rejects that.               *)
(***************************************************************************)
EXTENDS Naturals, Sequences

CONSTANTS MaxTrips,   \* bound: max_trip_count of a loop
          MaxLoops,   \* bound: driver calls of the session
          Kernels,    \* kernels of a body that read the iteration number
          Garbage,    \* what freed or uninitialised memory reads as
          None        \* no buffer

ASSUME LoopAssumption ==
  /\ MaxTrips \in Nat /\ MaxLoops \in Nat /\ Kernels \in Nat \ {0}
  /\ Garbage \notin Nat \cup BOOLEAN /\ None \notin Nat \cup BOOLEAN

VARIABLES
  pinned,     \* the pinned host arrays that are allocated: capacity -> contents
  capacity,   \* loop_iter_capacity, which names the array of loop_iter_cpu_buf
  iterDev,    \* loop_iter_dev: its contents, None while it is not allocated
  cond,       \* loop_cond_host / loop_cond_dev: likewise
  event,      \* loop_event exists
  stream,     \* what is submitted and not executed
  loops,      \* the calls of the drivers so far
  pc,         \* where the host is in the last of them
  i,          \* its iteration, and keep_going
  keepGoing,
  seen        \* what the last kernel to run has read

host == <<capacity, event, pc, i, keepGoing>>
vars == <<pinned, iterDev, cond, stream, loops, seen, host>>

Running == "running"
Policies == {"counted", "dynamic"}
Call == Len(loops)
This == loops[Call]

\* max_trip_count > 0 and more than the array holds.
TooShort(trips) == trips > capacity

Init ==
  /\ pinned = <<>> /\ capacity = 0
  /\ iterDev = None /\ cond = None /\ event = FALSE
  /\ stream = <<>> /\ loops = <<>>
  /\ pc = "idle" /\ i = 0 /\ keepGoing = TRUE
  /\ seen = None

(***************************************************************************)
(* runLoopImpl.  A negative max_trip_count, a null pointer and a false     *)
(* cond_init return before anything happens.                               *)
(***************************************************************************)
RunLoop(policy, trips) ==
  /\ pc = "idle" /\ Call < MaxLoops
  /\ loops' = Append(loops, [policy |-> policy, trips |-> trips, status |-> Running,
                             ran |-> 0, stop |-> 0])
  /\ pc' = "array"
  /\ UNCHANGED <<pinned, capacity, iterDev, cond, event, stream, i, keepGoing, seen>>

Return(status) ==
  /\ loops' = [loops EXCEPT ![Call].status = status]
  /\ pc' = "idle"

\* A step of ensureLoopBuffers fails; what earlier ones allocated stays.
EnsureFails ==
  /\ \/ pc = "array" /\ TooShort(This.trips)
     \/ pc = "iter" /\ iterDev = None
     \/ pc = "cond" /\ cond = None
     \/ pc = "event" /\ ~event
  /\ Return("failed")
  /\ UNCHANGED <<pinned, capacity, iterDev, cond, event, stream, i, keepGoing, seen>>

\* Slip: the new entries are counted from zero.
LongerFromZero(trips) ==
  [n \in 0 .. trips - 1 |-> IF n < capacity THEN pinned[capacity][n] ELSE n - capacity]

\* The longer array: the old entries are copied, the others filled in.
Longer(trips) ==
  [n \in 0 .. trips - 1 |-> IF n < capacity THEN pinned[capacity][n] ELSE n]

\* Slip: nobody waits for the copies that still read the old array.
EnsureArrayUndrained ==
  /\ pc = "array"
  /\ IF TooShort(This.trips)
     THEN /\ pinned' = [c \in {This.trips} |-> Longer(This.trips)]
          /\ capacity' = This.trips
     ELSE UNCHANGED <<pinned, capacity>>
  /\ pc' = "iter"
  /\ UNCHANGED <<iterDev, cond, event, stream, loops, i, keepGoing, seen>>

\* The stream is drained before the old array goes.
EnsureArray ==
  /\ pc = "array"
  /\ IF TooShort(This.trips)
     THEN /\ capacity > 0 => stream = <<>>
          /\ pinned' = [c \in {This.trips} |-> Longer(This.trips)]
          /\ capacity' = This.trips
     ELSE UNCHANGED <<pinned, capacity>>
  /\ pc' = "iter"
  /\ UNCHANGED <<iterDev, cond, event, stream, loops, i, keepGoing, seen>>

EnsureIterDev ==
  /\ pc = "iter"
  /\ iterDev' = IF iterDev = None THEN Garbage ELSE iterDev
  /\ pc' = "cond"
  /\ UNCHANGED <<pinned, capacity, cond, event, stream, loops, i, keepGoing, seen>>

EnsureCond ==
  /\ pc = "cond"
  /\ cond' = IF cond = None THEN Garbage ELSE cond
  /\ pc' = "event"
  /\ UNCHANGED <<pinned, capacity, iterDev, event, stream, loops, i, keepGoing, seen>>

\* With the event, everything is there: the host sets the condition.
EnsureEvent ==
  /\ pc = "event"
  /\ event' = TRUE
  /\ cond' = TRUE
  /\ i' = 0 /\ keepGoing' = TRUE /\ pc' = "loop"
  /\ UNCHANGED <<pinned, capacity, iterDev, stream, loops, seen>>

More == i < This.trips /\ (This.policy = "dynamic" => keepGoing)

\* What one iteration submits: the copy of its number, then its body.
Copy == [op |-> "copy", loop |-> Call, iter |-> i, from |-> capacity]
Body == [k \in 1 .. Kernels |->
           [op |-> "kernel", loop |-> Call, iter |-> i, last |-> k = Kernels]]

Iterate ==
  /\ pc = "loop" /\ More
  /\ stream' = stream \o <<Copy>> \o Body
  /\ IF This.policy = "dynamic"
     THEN pc' = "check" /\ UNCHANGED i
     ELSE i' = i + 1 /\ UNCHANGED pc
  /\ UNCHANGED <<pinned, capacity, iterDev, cond, event, loops, keepGoing, seen>>

\* hipMemcpyAsync fails, or the body does after some of its kernels.
IterateFails ==
  /\ pc = "loop" /\ More
  /\ \/ UNCHANGED stream
     \/ \E k \in 0 .. Kernels :
          stream' = stream \o <<Copy>> \o SubSeq(Body, 1, k)
  /\ Return("failed")
  /\ UNCHANGED <<pinned, capacity, iterDev, cond, event, i, keepGoing, seen>>

\* Slip: the condition is read without waiting for the event.
CheckCondAtOnce ==
  /\ pc = "check"
  /\ keepGoing' = cond
  /\ i' = i + 1 /\ pc' = "loop"
  /\ UNCHANGED <<pinned, capacity, iterDev, cond, event, stream, loops, seen>>

\* checkCond: the event behind the body is recorded and waited for.
CheckCond ==
  /\ pc = "check" /\ stream = <<>>
  /\ keepGoing' = cond
  /\ i' = i + 1 /\ pc' = "loop"
  /\ UNCHANGED <<pinned, capacity, iterDev, cond, event, stream, loops, seen>>

CheckCondFails ==
  /\ pc = "check"
  /\ Return("failed")
  /\ UNCHANGED <<pinned, capacity, iterDev, cond, event, stream, i, keepGoing, seen>>

LeaveLoop ==
  /\ pc = "loop" /\ ~More
  /\ Return("ok")
  /\ UNCHANGED <<pinned, capacity, iterDev, cond, event, stream, i, keepGoing, seen>>

\* hipdnn_ep_state_cleanup: the stream is drained first.
Cleanup ==
  /\ pc = "idle" /\ stream = <<>>
  /\ pc' = "gone"
  /\ pinned' = <<>> /\ capacity' = 0
  /\ iterDev' = None /\ cond' = None /\ event' = FALSE
  /\ UNCHANGED <<stream, loops, i, keepGoing, seen>>

(***************************************************************************)
(* The GPU.                                                                *)
(***************************************************************************)
Pinned(array, n) == IF array \in DOMAIN pinned THEN pinned[array][n] ELSE Garbage

ExecuteCopy ==
  /\ stream # <<>> /\ Head(stream).op = "copy"
  /\ iterDev' = Pinned(Head(stream).from, Head(stream).iter)
  /\ stream' = Tail(stream)
  /\ UNCHANGED <<pinned, cond, loops, seen, host>>

ExecuteKernel ==
  /\ stream # <<>> /\ Head(stream).op = "kernel"
  /\ LET k == Head(stream)
     IN /\ seen' = [loop |-> k.loop, own |-> k.iter, iter |-> iterDev, cond |-> cond]
        /\ \/ ~k.last /\ UNCHANGED <<cond, loops>>
           \/ /\ k.last /\ loops[k.loop].policy = "counted"
              /\ loops' = [loops EXCEPT ![k.loop].ran = @ + 1]
              /\ UNCHANGED cond
           \/ /\ k.last /\ loops[k.loop].policy = "dynamic"
              /\ cond' \in BOOLEAN
              /\ loops' = [loops EXCEPT ![k.loop].ran = @ + 1,
                             ![k.loop].stop = IF cond' \/ @ > 0 THEN @ ELSE k.iter + 1]
  /\ stream' = Tail(stream)
  /\ UNCHANGED <<pinned, iterDev, host>>

Driver ==
  \/ EnsureFails \/ EnsureArray \/ EnsureIterDev \/ EnsureCond \/ EnsureEvent
  \/ Iterate \/ IterateFails \/ CheckCond \/ CheckCondFails \/ LeaveLoop

Gpu == ExecuteCopy \/ ExecuteKernel

Next ==
  \/ \E policy \in Policies, trips \in 0 .. MaxTrips : RunLoop(policy, trips)
  \/ Driver \/ Gpu \/ Cleanup

\* A thread in a driver keeps running, and a GPU executes what it is given.
\* Nobody has to start another loop or to clean up.
Fairness == WF_vars(Driver) /\ WF_vars(Gpu)

Spec == Init /\ [][Next]_vars /\ Fairness
-----------------------------------------------------------------------------
Ops == [op : {"copy"}, loop : Nat, iter : Nat, from : Nat]
         \cup [op : {"kernel"}, loop : Nat, iter : Nat, last : BOOLEAN]

\* The types; the pinned array is one array, filled with its own indices.
TypeOK ==
  /\ capacity \in Nat
  /\ pinned = IF capacity = 0 THEN <<>> ELSE [c \in {capacity} |-> [n \in 0 .. capacity - 1 |-> n]]
  /\ iterDev \in Nat \cup {None, Garbage} /\ cond \in BOOLEAN \cup {None, Garbage}
  /\ event \in BOOLEAN /\ keepGoing \in BOOLEAN /\ i \in Nat
  /\ stream \in Seq(Ops)
  /\ loops \in Seq([policy : Policies, trips : Nat, ran : Nat, stop : Nat,
                    status : {Running, "ok", "failed"}])
  /\ pc \in {"idle", "array", "iter", "cond", "event", "loop", "check", "gone"}

\* A body kernel reads the number of its own iteration, however far the host
\* has run ahead of the GPU and whatever loops came since, and it runs only
\* while the condition holds.  The latter needs that no loop failed before:
\* nobody waits for the bodies a failed loop leaves on the stream.
BodiesReadOwnInputs ==
  seen # None =>
    /\ seen.iter = seen.own
    /\ (\A l \in 1 .. seen.loop - 1 : loops[l].status # "failed") => seen.cond = TRUE

\* Every loop returns; one that reports success runs, to the end, as often as
\* ONNX says: max_trip_count times, or up to the iteration whose condition is
\* false, also when the counted driver returned before a body had run.
LoopsComplete ==
  \A l \in 1 .. MaxLoops :
    /\ <>[](l <= Call => loops[l].status # Running)
    /\ <>[](l <= Call /\ loops[l].status = "ok" =>
             loops[l].ran = IF loops[l].stop > 0 THEN loops[l].stop ELSE loops[l].trips)
=============================================================================
