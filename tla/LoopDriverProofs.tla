--------------------------- MODULE LoopDriverProofs ---------------------------
(***************************************************************************)
(* For loops of any length and number, and bodies of any number of         *)
(* kernels: every body kernel reads the number of its own iteration, and   *)
(* runs only while the condition of its loop holds.                        *)
(*                                                                         *)
(* The invariant looks at the stream as a queue of promises.  An element   *)
(* finds in loop_iter_dev what the element before it leaves there; an      *)
(* element that will write the condition is last in the queue, because the *)
(* host waits for it, unless its loop failed.                              *)
(***************************************************************************)
EXTENDS LoopDriver, SequenceTheorems, TLAPS

InDriver == {"array", "iter", "cond", "event", "loop", "check"}

IsCopy(e) == e.op = "copy"
IsKernel(e) == e.op = "kernel"

\* The element writes the condition when it is executed.
Setter(e) == IsKernel(e) /\ e.last /\ loops[e.loop].policy = "dynamic"

NoFailureBefore(l) == \A m \in 1 .. l - 1 : loops[m].status # "failed"

HostInv ==
  /\ pc \in InDriver => Call > 0 /\ This.status = Running
  /\ pc \in InDriver \ {"array"} => This.trips <= capacity
  /\ pc \in {"loop", "check"} => cond \in BOOLEAN
  /\ pc = "check" => This.policy = "dynamic"

StreamInv ==
  \A p \in 1 .. Len(stream) :
    /\ stream[p].loop \in 1 .. Call
    /\ IsCopy(stream[p]) => stream[p].from = capacity /\ stream[p].iter < capacity
    /\ IsKernel(stream[p]) =>
         stream[p].iter = IF p = 1 THEN iterDev ELSE stream[p - 1].iter

CondHolds ==
  \A p \in 1 .. Len(stream) :
    IsKernel(stream[p]) /\ NoFailureBefore(stream[p].loop) =>
      cond = TRUE /\ \A q \in 1 .. p - 1 : ~Setter(stream[q])

SetterAwaited ==
  \A p \in 1 .. Len(stream) : Setter(stream[p]) =>
    \/ loops[stream[p].loop].status = "failed"
    \/ stream[p].loop = Call /\ pc = "check"

ReadyToIterate ==
  pc = "loop" /\ More /\ NoFailureBefore(Call) =>
    cond = TRUE /\ \A p \in 1 .. Len(stream) : ~Setter(stream[p])

SeenInv ==
  seen # None =>
    /\ seen.loop \in 1 .. Call /\ seen.iter = seen.own
    /\ NoFailureBefore(seen.loop) => seen.cond = TRUE

IInv == /\ TypeOK /\ HostInv /\ StreamInv /\ CondHolds /\ SetterAwaited /\ ReadyToIterate
        /\ SeenInv

Loops == [policy : Policies, trips : Nat, ran : Nat, stop : Nat,
          status : {Running, "ok", "failed"}]

\* No step changes what a driver call is, or forgets that it failed.
LoopsKept ==
  /\ Call \in Nat /\ Call' \in Nat /\ Call <= Call'
  /\ \A l \in 1 .. Call :
       /\ loops'[l].policy = loops[l].policy
       /\ loops[l].status = "failed" => loops'[l].status = "failed"

-----------------------------------------------------------------------------
LEMMA InitInv == Init => IInv
<1> SUFFICES ASSUME Init PROVE IInv
  OBVIOUS
<1>1. TypeOK
  BY EmptySeq DEF Init, TypeOK
<1>2. Len(stream) = 0
  BY EmptySeq DEF Init
<1> QED
  BY <1>1, <1>2 DEF Init, IInv, HostInv, StreamInv, CondHolds, SetterAwaited, ReadyToIterate,
     SeenInv, InDriver

\* What the typing of the stream says of an element.
LEMMA Elements ==
  ASSUME TypeOK, NEW p \in 1 .. Len(stream)
  PROVE  /\ stream[p] \in Ops /\ Len(stream) \in Nat
         /\ stream[p].op \in {"copy", "kernel"}
         /\ stream[p].loop \in Nat /\ stream[p].iter \in Nat
  BY ElementOfSeq DEF TypeOK, Ops

LEMMA LoopElements ==
  ASSUME TypeOK, NEW l \in 1 .. Call
  PROVE  loops[l] \in Loops /\ Call \in Nat
<1>1. loops \in Seq(Loops)
  BY DEF TypeOK, Loops
<1> QED
  BY <1>1, ElementOfSeq, LenProperties DEF Call

\* Ending a driver call leaves everything of the earlier calls as it is.
LEMMA Returned ==
  ASSUME TypeOK, HostInv, pc \in InDriver, NEW status \in {"ok", "failed"}, Return(status)
  PROVE  /\ loops' \in Seq(Loops) /\ Call' = Call /\ pc' = "idle" /\ LoopsKept
         /\ loops'[Call].status = status
<1>1. Call \in 1 .. Call /\ Call \in Nat /\ loops \in Seq(Loops)
  BY DEF HostInv, TypeOK, Loops, Call
<1>2. loops[Call] \in Loops
  BY <1>1, LoopElements
<1> DEFINE e == [loops[Call] EXCEPT !.status = status]
<1>3. e \in Loops
  BY <1>2 DEF Loops
<1>4. loops' = [loops EXCEPT ![Call] = e]
  BY DEF Return
<1>5. /\ loops' \in Seq(Loops) /\ Len(loops') = Call
      /\ \A l \in 1 .. Call : loops'[l] = IF l = Call THEN e ELSE loops[l]
  BY <1>1, <1>3, <1>4, ExceptSeq DEF Call
<1>6. e.policy = loops[Call].policy /\ e.status = status /\ loops[Call].status = Running
  BY <1>2 DEF Loops, HostInv, This
<1> QED
  BY <1>1, <1>5, <1>6 DEF Return, Call, Running, LoopsKept

LEMMA NoFailureKept ==
  ASSUME LoopsKept, NEW l \in 1 .. Call, NoFailureBefore(l)'
  PROVE  NoFailureBefore(l)
  BY DEF LoopsKept, NoFailureBefore

LEMMA SetterKept ==
  ASSUME LoopsKept, NEW e, e.loop \in 1 .. Call
  PROVE  Setter(e)' <=> Setter(e)
  BY DEF LoopsKept, Setter, IsKernel

LEMMA SeenKept ==
  ASSUME SeenInv, LoopsKept, UNCHANGED seen
  PROVE  SeenInv'
<1>1. CASE seen = None
  BY <1>1 DEF SeenInv
<1>2. CASE seen # None
  <2>1. seen.loop \in 1 .. Call /\ seen.iter = seen.own
    BY <1>2 DEF SeenInv
  <2>2. seen.loop \in 1 .. Call'
    BY <2>1 DEF LoopsKept
  <2>3. NoFailureBefore(seen.loop)' => NoFailureBefore(seen.loop)
    BY <2>1, NoFailureKept
  <2>4. NoFailureBefore(seen.loop)' => seen.cond = TRUE
    BY <1>2, <2>3 DEF SeenInv
  <2> QED
    BY <2>1, <2>2, <2>4 DEF SeenInv
<1> QED
  BY <1>1, <1>2

\* A step that submits nothing and leaves the condition alone keeps the
\* promises about the condition.
LEMMA CondKept ==
  ASSUME TypeOK, StreamInv, CondHolds, LoopsKept, UNCHANGED <<stream, cond>>
  PROVE  CondHolds'
<1> SUFFICES ASSUME NEW p \in 1 .. Len(stream), IsKernel(stream[p]),
                    NoFailureBefore(stream[p].loop)'
             PROVE  cond = TRUE /\ \A q \in 1 .. p - 1 : ~Setter(stream[q])'
  BY DEF CondHolds
<1>1. \A q \in 1 .. Len(stream) : stream[q].loop \in 1 .. Call
  BY DEF StreamInv
<1>2. NoFailureBefore(stream[p].loop)
  BY <1>1, NoFailureKept
<1>3. cond = TRUE /\ \A q \in 1 .. p - 1 : ~Setter(stream[q])
  BY <1>2 DEF CondHolds
<1>4. \A q \in 1 .. p - 1 : q \in 1 .. Len(stream)
  BY Elements
<1> QED
  BY <1>1, <1>3, <1>4, SetterKept

-----------------------------------------------------------------------------
\* A driver call that ends.  One that waits for a condition ends by failing.
LEMMA ReturnInv ==
  ASSUME IInv, pc \in InDriver, NEW status \in {"ok", "failed"}, Return(status),
         pc = "check" => status = "failed",
         UNCHANGED <<pinned, capacity, iterDev, cond, event, stream, i, keepGoing, seen>>
  PROVE  IInv'
<1> USE DEF IInv
<1>1. /\ loops' \in Seq(Loops) /\ Call' = Call /\ pc' = "idle" /\ LoopsKept
      /\ loops'[Call].status = status
  BY Returned
<1>2. TypeOK'
  BY <1>1 DEF TypeOK, Loops
<1>3. HostInv'
  BY <1>1 DEF HostInv, InDriver
<1>4. StreamInv'
  BY <1>1 DEF StreamInv, IsCopy, IsKernel
<1>5. CondHolds'
  BY <1>1, CondKept
<1>6. SetterAwaited'
  <2> SUFFICES ASSUME NEW p \in 1 .. Len(stream), Setter(stream[p])'
               PROVE  loops'[stream[p].loop].status = "failed"
    BY DEF SetterAwaited
  <2>1. stream[p].loop \in 1 .. Call
    BY DEF StreamInv
  <2>2. Setter(stream[p])
    BY <1>1, <2>1, SetterKept
  <2>3. \/ loops[stream[p].loop].status = "failed"
        \/ stream[p].loop = Call /\ pc = "check"
    BY <2>2 DEF SetterAwaited
  <2> QED
    BY <1>1, <2>1, <2>3 DEF LoopsKept
<1>7. ReadyToIterate'
  BY <1>1 DEF ReadyToIterate
<1>8. SeenInv'
  BY <1>1, SeenKept
<1> QED
  BY <1>2, <1>3, <1>4, <1>5, <1>6, <1>7, <1>8

\* A step of the host that leaves the calls and the stream alone, before the
\* loop is entered.
LEMMA EnsureKept ==
  ASSUME IInv, UNCHANGED <<stream, loops, seen>>
  PROVE  LoopsKept /\ SeenInv' /\ (UNCHANGED cond => CondHolds')
<1>1. Call \in Nat
  BY LenProperties DEF IInv, TypeOK, Call
<1>2. LoopsKept
  BY <1>1 DEF LoopsKept, Call
<1> QED
  BY <1>2, SeenKept, CondKept DEF IInv

\* With the calls and the stream, an element that writes the condition stays
\* awaited, unless the host gives up waiting.
LEMMA AwaitedKept ==
  ASSUME IInv, UNCHANGED <<stream, loops>>, pc = "check" => pc' = "check"
  PROVE  SetterAwaited'
  BY DEF IInv, SetterAwaited, Setter, IsKernel, Call

LEMMA EnsureArrayInv == ASSUME IInv, EnsureArray PROVE IInv'
<1> USE DEF IInv
<1>1. /\ UNCHANGED <<stream, loops, seen, cond, iterDev, i, keepGoing>>
      /\ pc = "array" /\ pc' = "iter"
  BY DEF EnsureArray
<1>2. LoopsKept /\ SeenInv' /\ CondHolds'
  BY <1>1, EnsureKept
<1>3. Call > 0 /\ This.status = Running /\ loops[Call] \in Loops /\ Call \in Nat
  <2>1. Call > 0 /\ This.status = Running /\ Call \in Nat
    BY <1>1, <1>2 DEF HostInv, InDriver, LoopsKept
  <2>2. Call \in 1 .. Call
    BY <2>1
  <2> QED
    BY <2>1, <2>2, LoopElements
<1>4. This.trips \in Nat
  BY <1>3 DEF This, Loops
<1>5. TypeOK' /\ This.trips <= capacity'
  <2>1. CASE TooShort(This.trips)
    <3>1. capacity' = This.trips /\ capacity' > 0
      BY <1>4, <2>1 DEF EnsureArray, TooShort, TypeOK
    <3>2. \A n \in 0 .. This.trips - 1 : n < capacity => pinned[capacity][n] = n
      BY <1>4 DEF TypeOK
    <3>3. Longer(This.trips) = [n \in 0 .. This.trips - 1 |-> n]
      BY <3>2 DEF Longer
    <3>4. pinned' = [c \in {This.trips} |-> [n \in 0 .. This.trips - 1 |-> n]]
      BY <2>1, <3>3 DEF EnsureArray
    <3> QED
      BY <1>1, <1>4, <3>1, <3>4 DEF TypeOK, EnsureArray
  <2>2. CASE ~TooShort(This.trips)
    <3>1. UNCHANGED <<pinned, capacity, event>>
      BY <2>2 DEF EnsureArray
    <3>2. TypeOK'
      BY <1>1, <3>1 DEF TypeOK
    <3>3. This.trips <= capacity
      BY <1>4, <2>2 DEF TooShort, TypeOK
    <3> QED
      BY <3>1, <3>2, <3>3
  <2> QED
    BY <2>1, <2>2
<1>6. HostInv'
  BY <1>1, <1>3, <1>5 DEF HostInv, InDriver, This, Call
<1>7. StreamInv'
  <2>1. CASE capacity > 0 /\ TooShort(This.trips)
    <3>1. stream = <<>>
      BY <2>1 DEF EnsureArray
    <3> QED
      BY <1>1, <3>1, EmptySeq DEF StreamInv
  <2>2. CASE capacity = 0
    <3>1. \A p \in 1 .. Len(stream) : ~IsCopy(stream[p])
      BY <2>2, Elements DEF StreamInv
    <3> QED
      BY <1>1, <3>1 DEF StreamInv, Call, IsCopy, IsKernel
  <2>3. CASE ~TooShort(This.trips)
    BY <1>1, <2>3 DEF EnsureArray, StreamInv, Call, IsCopy, IsKernel
  <2> QED
    BY <2>1, <2>2, <2>3 DEF TypeOK
<1>8. SetterAwaited'
  BY <1>1, AwaitedKept
<1> QED
  BY <1>1, <1>2, <1>5, <1>6, <1>7, <1>8 DEF ReadyToIterate

LEMMA EnsureIterDevInv == ASSUME IInv, EnsureIterDev PROVE IInv'
<1> USE DEF IInv
<1>1. /\ UNCHANGED <<pinned, capacity, event, stream, loops, seen, cond, i, keepGoing>>
      /\ pc = "iter" /\ pc' = "cond"
  BY DEF EnsureIterDev
<1>2. LoopsKept /\ SeenInv' /\ CondHolds'
  BY <1>1, EnsureKept
<1>3. TypeOK'
  BY <1>1 DEF EnsureIterDev, TypeOK
<1>4. HostInv'
  BY <1>1 DEF HostInv, InDriver, This, Call
<1>5. StreamInv'
  <2>1. \A p \in 1 .. Len(stream) : IsKernel(stream[p]) /\ p = 1 => iterDev # None
    BY LoopAssumption, Elements DEF StreamInv
  <2>2. \A p \in 1 .. Len(stream) : IsKernel(stream[p]) /\ p = 1 => iterDev' = iterDev
    BY <2>1 DEF EnsureIterDev
  <2> QED
    BY <1>1, <2>2 DEF StreamInv, Call, IsCopy, IsKernel
<1>6. SetterAwaited'
  BY <1>1, AwaitedKept
<1> QED
  BY <1>1, <1>2, <1>3, <1>4, <1>5, <1>6 DEF ReadyToIterate

LEMMA EnsureCondInv == ASSUME IInv, EnsureCond PROVE IInv'
<1> USE DEF IInv
<1>1. /\ UNCHANGED <<pinned, capacity, event, stream, loops, seen, iterDev, i, keepGoing>>
      /\ pc = "cond" /\ pc' = "event"
  BY DEF EnsureCond
<1>2. LoopsKept /\ SeenInv'
  BY <1>1, EnsureKept
<1>3. cond' \in BOOLEAN \cup {None, Garbage} /\ (cond = TRUE => cond' = TRUE)
  <2>1. TRUE # None
    BY LoopAssumption
  <2> QED
    BY <2>1 DEF EnsureCond, TypeOK
<1>4. TypeOK'
  BY <1>1, <1>3 DEF TypeOK
<1>5. HostInv'
  BY <1>1 DEF HostInv, InDriver, This, Call
<1>6. StreamInv'
  BY <1>1 DEF StreamInv, Call, IsCopy, IsKernel
<1>7. CondHolds'
  BY <1>1, <1>3 DEF CondHolds, NoFailureBefore, Setter, IsKernel
<1>8. SetterAwaited'
  BY <1>1, AwaitedKept
<1> QED
  BY <1>1, <1>2, <1>4, <1>5, <1>6, <1>7, <1>8 DEF ReadyToIterate

\* A writer of the condition that is still on the stream now belongs to a loop
\* that failed, so nothing is promised to the new loop.
LEMMA EnsureEventInv == ASSUME IInv, EnsureEvent PROVE IInv'
<1> USE DEF IInv
<1>1. /\ UNCHANGED <<pinned, capacity, stream, loops, seen, iterDev>>
      /\ pc = "event" /\ pc' = "loop" /\ cond' = TRUE
  BY DEF EnsureEvent
<1>2. LoopsKept /\ SeenInv'
  BY <1>1, EnsureKept
<1>3. TypeOK'
  BY <1>1 DEF EnsureEvent, TypeOK
<1>4. HostInv'
  BY <1>1 DEF HostInv, InDriver, This, Call
<1>5. StreamInv'
  BY <1>1 DEF StreamInv, Call, IsCopy, IsKernel
<1>6. CondHolds'
  BY <1>1 DEF CondHolds, NoFailureBefore, Setter, IsKernel
<1>7. SetterAwaited'
  BY <1>1, AwaitedKept
<1>8. ReadyToIterate'
  <2> SUFFICES ASSUME NoFailureBefore(Call), NEW p \in 1 .. Len(stream), Setter(stream[p])
               PROVE  FALSE
    BY <1>1 DEF ReadyToIterate, NoFailureBefore, Setter, IsKernel, Call
  <2>1. stream[p].loop \in 1 .. Call /\ loops[stream[p].loop].status = "failed"
    BY <1>1 DEF StreamInv, SetterAwaited
  <2>2. stream[p].loop # Call
    BY <1>1, <2>1 DEF HostInv, InDriver, This, Running
  <2> QED
    BY <1>2, <2>1, <2>2 DEF NoFailureBefore, LoopsKept
<1> QED
  BY <1>2, <1>3, <1>4, <1>5, <1>6, <1>7, <1>8

LEMMA EnsureFailsInv == ASSUME IInv, EnsureFails PROVE IInv'
<1>1. /\ pc \in InDriver /\ pc # "check" /\ Return("failed")
      /\ UNCHANGED <<pinned, capacity, iterDev, cond, event, stream, i, keepGoing, seen>>
  BY DEF EnsureFails, InDriver
<1> QED
  BY <1>1, ReturnInv

LEMMA CheckCondFailsInv == ASSUME IInv, CheckCondFails PROVE IInv'
<1>1. /\ pc \in InDriver /\ Return("failed")
      /\ UNCHANGED <<pinned, capacity, iterDev, cond, event, stream, i, keepGoing, seen>>
  BY DEF CheckCondFails, InDriver
<1> QED
  BY <1>1, ReturnInv

LEMMA LeaveLoopInv == ASSUME IInv, LeaveLoop PROVE IInv'
<1>1. /\ pc \in InDriver /\ pc # "check" /\ Return("ok")
      /\ UNCHANGED <<pinned, capacity, iterDev, cond, event, stream, i, keepGoing, seen>>
  BY DEF LeaveLoop, InDriver
<1> QED
  BY <1>1, ReturnInv

\* The event has been waited for: nothing is left on the stream.
LEMMA CheckCondInv == ASSUME IInv, CheckCond PROVE IInv'
<1> USE DEF IInv
<1>1. /\ UNCHANGED <<pinned, capacity, event, stream, loops, seen, iterDev, cond>>
      /\ pc = "check" /\ pc' = "loop" /\ stream = <<>> /\ keepGoing' = cond
  BY DEF CheckCond
<1>2. LoopsKept /\ SeenInv' /\ CondHolds'
  BY <1>1, EnsureKept
<1>3. cond \in BOOLEAN /\ This.policy = "dynamic"
  BY <1>1 DEF HostInv
<1>4. TypeOK'
  BY <1>1, <1>3 DEF CheckCond, TypeOK
<1>5. HostInv'
  BY <1>1, <1>3 DEF HostInv, InDriver, This, Call
<1>6. \A p \in 1 .. Len(stream) : FALSE
  BY <1>1, EmptySeq
<1>7. StreamInv' /\ SetterAwaited'
  BY <1>1, <1>6 DEF StreamInv, SetterAwaited
<1>8. ReadyToIterate'
  <2>1. More' => cond'
    BY <1>1, <1>3 DEF More, This, Call
  <2> QED
    BY <1>1, <1>3, <1>6, <2>1 DEF ReadyToIterate
<1> QED
  BY <1>2, <1>4, <1>5, <1>7, <1>8

LEMMA RunLoopInv ==
  ASSUME IInv, NEW policy \in Policies, NEW trips \in 0 .. MaxTrips, RunLoop(policy, trips)
  PROVE  IInv'
<1> USE DEF IInv
<1>1. /\ UNCHANGED <<pinned, capacity, event, stream, seen, iterDev, cond, i, keepGoing>>
      /\ pc = "idle" /\ pc' = "array"
  BY DEF RunLoop
<1> DEFINE new == [policy |-> policy, trips |-> trips, status |-> Running, ran |-> 0, stop |-> 0]
<1>2. loops \in Seq(Loops) /\ new \in Loops /\ Call \in Nat
  BY LoopAssumption, LenProperties DEF TypeOK, Loops, Call
<1>3. /\ loops' \in Seq(Loops) /\ Call' = Call + 1 /\ loops'[Call + 1] = new
      /\ \A l \in 1 .. Call : loops'[l] = loops[l]
  BY <1>2, AppendProperties DEF RunLoop, Call
<1>4. LoopsKept
  BY <1>2, <1>3 DEF LoopsKept
<1>5. TypeOK'
  BY <1>1, <1>3 DEF TypeOK, Loops
<1>6. HostInv'
  BY <1>1, <1>2, <1>3 DEF HostInv, InDriver, This
<1>7. StreamInv'
  BY <1>1, <1>2, <1>3 DEF StreamInv, IsCopy, IsKernel
<1>8. CondHolds' /\ SeenInv'
  BY <1>1, <1>4, CondKept, SeenKept
<1>9. SetterAwaited'
  <2> SUFFICES ASSUME NEW p \in 1 .. Len(stream), Setter(stream[p])'
               PROVE  loops'[stream[p].loop].status = "failed"
    BY <1>1 DEF SetterAwaited
  <2>1. stream[p].loop \in 1 .. Call
    BY DEF StreamInv
  <2>2. Setter(stream[p])
    BY <1>1, <1>4, <2>1, SetterKept
  <2> QED
    BY <1>1, <1>4, <2>1, <2>2 DEF SetterAwaited, LoopsKept
<1> QED
  BY <1>1, <1>5, <1>6, <1>7, <1>8, <1>9 DEF ReadyToIterate

LEMMA CleanupInv == ASSUME IInv, Cleanup PROVE IInv'
<1> USE DEF IInv
<1>1. /\ UNCHANGED <<stream, loops, seen>> /\ stream = <<>> /\ pc' = "gone"
  BY DEF Cleanup
<1>2. LoopsKept /\ SeenInv'
  BY <1>1, EnsureKept
<1>3. TypeOK'
  BY <1>1 DEF Cleanup, TypeOK
<1>4. \A p \in 1 .. Len(stream) : FALSE
  BY <1>1, EmptySeq
<1>5. StreamInv' /\ SetterAwaited' /\ CondHolds'
  BY <1>1, <1>4 DEF StreamInv, SetterAwaited, CondHolds
<1>6. HostInv' /\ ReadyToIterate'
  BY <1>1 DEF HostInv, InDriver, ReadyToIterate
<1> QED
  BY <1>2, <1>3, <1>5, <1>6

-----------------------------------------------------------------------------
\* The stream without its first element keeps its promises to the others.
LEMMA Popped ==
  ASSUME TypeOK, stream # <<>>, stream' = Tail(stream)
  PROVE  /\ stream' \in Seq(Ops) /\ Len(stream) \in Nat \ {0}
         /\ Len(stream') = Len(stream) - 1
         /\ \A p \in 1 .. Len(stream') : p + 1 \in 1 .. Len(stream) /\ stream'[p] = stream[p + 1]
         /\ Head(stream) = stream[1] /\ 1 \in 1 .. Len(stream)
<1>1. stream \in Seq(Ops)
  BY DEF TypeOK
<1>2. Len(stream) \in Nat \ {0}
  BY <1>1, EmptySeq
<1> QED
  BY <1>1, <1>2, HeadTailProperties

LEMMA ExecuteCopyInv == ASSUME IInv, ExecuteCopy PROVE IInv'
<1> USE DEF IInv
<1>1. /\ UNCHANGED <<pinned, capacity, event, loops, seen, cond, pc, i, keepGoing>>
      /\ stream # <<>> /\ stream' = Tail(stream)
  BY DEF ExecuteCopy, host
<1>2. /\ stream' \in Seq(Ops) /\ Len(stream) \in Nat /\ Len(stream') = Len(stream) - 1
      /\ \A p \in 1 .. Len(stream') : p + 1 \in 1 .. Len(stream) /\ stream'[p] = stream[p + 1]
      /\ Head(stream) = stream[1] /\ 1 \in 1 .. Len(stream)
  BY <1>1, Popped
<1>3. iterDev' = stream[1].iter /\ iterDev' \in Nat
  <2>1. IsCopy(stream[1])
    BY <1>2 DEF ExecuteCopy, IsCopy
  <2>2. stream[1].from = capacity /\ stream[1].iter < capacity /\ stream[1].iter \in Nat
    BY <1>2, <2>1, Elements DEF StreamInv
  <2>3. capacity # 0 /\ stream[1].iter \in 0 .. capacity - 1
    BY <2>2 DEF TypeOK
  <2>4. pinned = [c \in {capacity} |-> [n \in 0 .. capacity - 1 |-> n]]
    BY <2>3 DEF TypeOK
  <2>5. Pinned(capacity, stream[1].iter) = stream[1].iter
    BY <2>3, <2>4 DEF Pinned
  <2> QED
    BY <1>2, <2>2, <2>5 DEF ExecuteCopy
<1>4. TypeOK'
  BY <1>1, <1>2, <1>3 DEF TypeOK
<1>5. HostInv'
  BY <1>1 DEF HostInv, This, Call
<1>6. StreamInv'
  <2> SUFFICES ASSUME NEW p \in 1 .. Len(stream')
               PROVE  /\ stream'[p].loop \in 1 .. Call
                      /\ IsCopy(stream'[p]) =>
                           stream'[p].from = capacity /\ stream'[p].iter < capacity
                      /\ IsKernel(stream'[p]) =>
                           stream'[p].iter = IF p = 1 THEN iterDev' ELSE stream'[p - 1].iter
    BY <1>1 DEF StreamInv, IsCopy, IsKernel, Call
  <2>1. stream'[p] = stream[p + 1] /\ p + 1 \in 1 .. Len(stream) /\ p + 1 # 1
    BY <1>2
  <2>2. p # 1 => stream'[p - 1] = stream[p]
    BY <1>2
  <2> QED
    BY <1>3, <2>1, <2>2 DEF StreamInv
<1>7. LoopsKept /\ SeenInv'
  <2>1. LoopsKept
    BY <1>1, LenProperties DEF LoopsKept, Call, TypeOK
  <2> QED
    BY <1>1, <2>1, SeenKept
<1>8. \A e : (Setter(e)' <=> Setter(e)) /\ (IsKernel(e)' <=> IsKernel(e))
  BY <1>1 DEF Setter, IsKernel
<1>9. CondHolds'
  <2> SUFFICES ASSUME NEW p \in 1 .. Len(stream'), IsKernel(stream'[p]),
                      NoFailureBefore(stream'[p].loop)
               PROVE  cond = TRUE /\ \A q \in 1 .. p - 1 : ~Setter(stream'[q])
    BY <1>1 DEF CondHolds, NoFailureBefore, Setter, IsKernel
  <2>1. cond = TRUE /\ \A q \in 1 .. p : ~Setter(stream[q])
    BY <1>2 DEF CondHolds
  <2> QED
    BY <1>2, <2>1
<1>10. SetterAwaited'
  BY <1>1, <1>2 DEF SetterAwaited, Setter, IsKernel, Call
<1>11. ReadyToIterate'
  BY <1>1, <1>2 DEF ReadyToIterate, More, This, NoFailureBefore, Setter, IsKernel, Call
<1> QED
  BY <1>4, <1>5, <1>6, <1>7, <1>9, <1>10, <1>11

\* Counting an iteration of a loop changes nothing else of it.
LEMMA CountedRan ==
  ASSUME NEW r \in Loops
  PROVE  /\ [r EXCEPT !.ran = r.ran + 1] \in Loops
         /\ [r EXCEPT !.ran = r.ran + 1].policy = r.policy
         /\ [r EXCEPT !.ran = r.ran + 1].trips = r.trips
         /\ [r EXCEPT !.ran = r.ran + 1].status = r.status
  BY DEF Loops

LEMMA CountedStop ==
  ASSUME NEW r \in Loops, NEW n \in Nat
  PROVE  /\ [r EXCEPT !.stop = n] \in Loops
         /\ [r EXCEPT !.stop = n].policy = r.policy
         /\ [r EXCEPT !.stop = n].trips = r.trips
         /\ [r EXCEPT !.stop = n].status = r.status
  BY DEF Loops

LEMMA Counted ==
  ASSUME TypeOK, NEW l \in 1 .. Call, NEW e \in Loops, loops' = [loops EXCEPT ![l] = e],
         e.policy = loops[l].policy, e.trips = loops[l].trips, e.status = loops[l].status
  PROVE  /\ loops' \in Seq(Loops) /\ Call' = Call /\ LoopsKept
         /\ \A m \in 1 .. Call : /\ loops'[m].status = loops[m].status
                                 /\ loops'[m].trips = loops[m].trips
<1>1. loops \in Seq(Loops)
  BY DEF TypeOK, Loops
<1>2. /\ loops' \in Seq(Loops) /\ Len(loops') = Call
      /\ \A m \in 1 .. Call : loops'[m] = IF m = l THEN e ELSE loops[m]
  BY <1>1, ExceptSeq DEF Call
<1>3. Call \in Nat
  BY <1>1, LenProperties DEF Call
<1> QED
  BY <1>2, <1>3 DEF Call, LoopsKept

LEMMA Executed ==
  ASSUME IInv, ExecuteKernel
  PROVE  /\ loops' \in Seq(Loops) /\ Call' = Call /\ LoopsKept
         /\ \A m \in 1 .. Call : /\ loops'[m].status = loops[m].status
                                 /\ loops'[m].trips = loops[m].trips
<1> USE DEF IInv
<1> DEFINE k == Head(stream)
<1>1. stream # <<>> /\ stream' = Tail(stream) /\ k.op = "kernel"
  BY DEF ExecuteKernel
<1>2. k = stream[1] /\ 1 \in 1 .. Len(stream)
  BY <1>1, Popped
<1>3. k.loop \in 1 .. Call /\ k.iter \in Nat
  BY <1>2, Elements DEF StreamInv
<1>4. loops[k.loop] \in Loops /\ Call \in Nat /\ loops \in Seq(Loops)
  BY <1>3, LoopElements DEF TypeOK, Loops
<1>5. CASE UNCHANGED loops
  BY <1>4, <1>5 DEF LoopsKept, Call
<1> DEFINE r == loops[k.loop]
           e == [r EXCEPT !.ran = r.ran + 1]
<1>6. e \in Loops /\ e.policy = r.policy /\ e.trips = r.trips /\ e.status = r.status
  BY <1>4, CountedRan
<1>7. CASE loops' = [loops EXCEPT ![k.loop].ran = @ + 1]
  <2>1. loops' = [loops EXCEPT ![k.loop] = e]
    BY <1>7
  <2> HIDE DEF e
  <2> QED
    BY <1>3, <1>6, <2>1, Counted
<1>8. CASE loops' = [loops EXCEPT ![k.loop].ran = @ + 1,
                       ![k.loop].stop = IF cond' \/ @ > 0 THEN @ ELSE k.iter + 1]
  <2>1. PICK n \in Nat : loops' = [loops EXCEPT ![k.loop].ran = @ + 1, ![k.loop].stop = n]
    <3> DEFINE f == [loops EXCEPT ![k.loop].ran = @ + 1]
               n == IF cond' \/ f[k.loop].stop > 0 THEN f[k.loop].stop ELSE k.iter + 1
    <3>1. f[k.loop] = e
      BY <1>3, <1>4, LenProperties DEF Call
    <3>2. n \in Nat
      BY <1>3, <1>6, <3>1 DEF Loops
    <3>3. loops' = [loops EXCEPT ![k.loop].ran = @ + 1, ![k.loop].stop = n]
      BY <1>8
    <3> QED
      BY <3>2, <3>3
  <2> DEFINE g == [e EXCEPT !.stop = n]
  <2>2. g \in Loops /\ g.policy = e.policy /\ g.trips = e.trips /\ g.status = e.status
    <3> HIDE DEF e
    <3> QED
      BY <1>6, CountedStop
  <2>3. loops' = [loops EXCEPT ![k.loop] = g]
    BY <1>3, <1>4, <2>1, LenProperties DEF Call
  <2> HIDE DEF e, g
  <2> QED
    BY <1>3, <1>6, <2>2, <2>3, Counted
<1> QED
  BY <1>5, <1>7, <1>8 DEF ExecuteKernel

LEMMA ExecuteKernelInv == ASSUME IInv, ExecuteKernel PROVE IInv'
<1> USE DEF IInv
<1> DEFINE k == Head(stream)
<1>1. /\ UNCHANGED <<pinned, capacity, event, iterDev, pc, i, keepGoing>>
      /\ stream # <<>> /\ stream' = Tail(stream) /\ IsKernel(k)
      /\ seen' = [loop |-> k.loop, own |-> k.iter, iter |-> iterDev, cond |-> cond]
  BY DEF ExecuteKernel, host, IsKernel
<1>2. /\ stream' \in Seq(Ops) /\ Len(stream) \in Nat /\ Len(stream') = Len(stream) - 1
      /\ \A p \in 1 .. Len(stream') : p + 1 \in 1 .. Len(stream) /\ stream'[p] = stream[p + 1]
      /\ k = stream[1] /\ 1 \in 1 .. Len(stream)
  BY <1>1, Popped
<1>3. /\ loops' \in Seq(Loops) /\ Call' = Call /\ LoopsKept
      /\ \A m \in 1 .. Call : loops'[m].status = loops[m].status /\ loops'[m].trips = loops[m].trips
  BY Executed
<1>4. k.loop \in 1 .. Call /\ k.iter = iterDev
  BY <1>1, <1>2 DEF StreamInv
<1>5. Setter(k) => cond' \in BOOLEAN
  BY <1>1 DEF ExecuteKernel, Setter
<1>6. ~Setter(k) => UNCHANGED cond
  BY <1>1 DEF ExecuteKernel, Setter
<1>7. TypeOK'
  BY <1>1, <1>2, <1>3, <1>5, <1>6 DEF TypeOK, Loops
<1>8. HostInv'
  <2>1. pc \in InDriver => Call \in 1 .. Call
    BY <1>3 DEF HostInv, LoopsKept
  <2>2. pc \in {"loop", "check"} => cond' \in BOOLEAN
    BY <1>5, <1>6 DEF HostInv
  <2>3. pc \in InDriver => /\ loops'[Call].status = loops[Call].status
                           /\ loops'[Call].trips = loops[Call].trips
                           /\ loops'[Call].policy = loops[Call].policy
    BY <1>3, <2>1 DEF LoopsKept
  <2> QED
    BY <1>1, <1>3, <2>2, <2>3 DEF HostInv, This, InDriver
<1>9. StreamInv'
  <2> SUFFICES ASSUME NEW p \in 1 .. Len(stream')
               PROVE  /\ stream'[p].loop \in 1 .. Call
                      /\ IsCopy(stream'[p]) =>
                           stream'[p].from = capacity /\ stream'[p].iter < capacity
                      /\ IsKernel(stream'[p]) =>
                           stream'[p].iter = IF p = 1 THEN iterDev ELSE stream'[p - 1].iter
    BY <1>1, <1>3 DEF StreamInv, IsCopy, IsKernel
  <2>1. stream'[p] = stream[p + 1] /\ p + 1 \in 1 .. Len(stream) /\ p + 1 # 1
    BY <1>2
  <2>2. p # 1 => stream'[p - 1] = stream[p]
    BY <1>2
  <2>3. p = 1 => stream[p].iter = iterDev
    BY <1>2, <1>4
  <2> QED
    BY <2>1, <2>2, <2>3 DEF StreamInv
<1>10. \A l \in 1 .. Call : NoFailureBefore(l)' => NoFailureBefore(l)
  BY <1>3, NoFailureKept
<1>11. \A p \in 1 .. Len(stream) : stream[p].loop \in 1 .. Call
  BY DEF StreamInv
<1>12. \A p \in 1 .. Len(stream') : Setter(stream[p])' => Setter(stream[p + 1])
  <2> SUFFICES ASSUME NEW p \in 1 .. Len(stream'), Setter(stream[p])'
               PROVE  Setter(stream[p + 1])
    OBVIOUS
  <2> DEFINE e == stream[p + 1]
  <2>1. stream'[p] = e /\ e.loop \in 1 .. Call
    BY <1>2, <1>11
  <2>2. IsKernel(e) /\ e.last /\ loops'[e.loop].policy = "dynamic"
    BY <2>1 DEF Setter, IsKernel
  <2>3. loops'[e.loop].policy = loops[e.loop].policy
    BY <1>3, <2>1 DEF LoopsKept
  <2> QED
    BY <2>2, <2>3 DEF Setter
<1>13. CondHolds'
  <2> SUFFICES ASSUME NEW p \in 1 .. Len(stream'), IsKernel(stream'[p]),
                      NoFailureBefore(stream[p].loop)'
               PROVE  cond' = TRUE /\ \A q \in 1 .. p - 1 : ~Setter(stream[q])'
    BY DEF CondHolds, IsKernel
  <2>1. stream'[p] = stream[p + 1] /\ p + 1 \in 1 .. Len(stream)
    BY <1>2
  <2>2. NoFailureBefore(stream[p + 1].loop)
    BY <1>10, <1>11, <2>1 DEF NoFailureBefore
  <2>3. cond = TRUE /\ \A q \in 1 .. p : ~Setter(stream[q])
    BY <2>1, <2>2 DEF CondHolds
  <2>4. ~Setter(k)
    BY <1>2, <2>1, <2>3
  <2>5. \A q \in 1 .. p - 1 : q \in 1 .. Len(stream') /\ q + 1 \in 1 .. p
    BY <1>2
  <2> QED
    BY <1>6, <1>12, <2>3, <2>4, <2>5
<1>14. SetterAwaited'
  <2> SUFFICES ASSUME NEW p \in 1 .. Len(stream'), Setter(stream[p])'
               PROVE  \/ loops'[stream'[p].loop].status = "failed"
                      \/ stream'[p].loop = Call' /\ pc' = "check"
    BY DEF SetterAwaited
  <2>1. stream'[p] = stream[p + 1] /\ p + 1 \in 1 .. Len(stream)
    BY <1>2
  <2>2. \/ loops[stream[p + 1].loop].status = "failed"
        \/ stream[p + 1].loop = Call /\ pc = "check"
    BY <1>12, <2>1 DEF SetterAwaited
  <2> QED
    BY <1>1, <1>3, <1>11, <2>1, <2>2
<1>15. ReadyToIterate'
  <2> SUFFICES ASSUME pc = "loop", More', NoFailureBefore(Call)'
               PROVE  cond' = TRUE /\ \A p \in 1 .. Len(stream') : ~Setter(stream[p])'
    BY <1>1 DEF ReadyToIterate
  <2>1. Call \in 1 .. Call
    BY <1>3 DEF HostInv, InDriver, LoopsKept
  <2>2. More /\ NoFailureBefore(Call)
    BY <1>1, <1>3, <1>10, <2>1 DEF More, This, LoopsKept, NoFailureBefore
  <2>3. cond = TRUE /\ \A p \in 1 .. Len(stream) : ~Setter(stream[p])
    BY <2>2 DEF ReadyToIterate
  <2> QED
    BY <1>2, <1>6, <1>12, <2>3
<1>16. SeenInv'
  <2>1. seen'.loop = k.loop /\ seen'.iter = seen'.own /\ seen'.cond = cond
    BY <1>1, <1>4
  <2>2. NoFailureBefore(k.loop) => cond = TRUE
    BY <1>1, <1>2 DEF CondHolds
  <2>3. NoFailureBefore(seen.loop)' => NoFailureBefore(k.loop)
    BY <1>4, <1>10, <2>1 DEF NoFailureBefore
  <2> QED
    BY <1>3, <1>4, <2>1, <2>2, <2>3 DEF SeenInv
<1> QED
  BY <1>7, <1>8, <1>9, <1>13, <1>14, <1>15, <1>16

-----------------------------------------------------------------------------
LEMMA BodyElements ==
  ASSUME TypeOK, Call \in Nat
  PROVE  /\ Copy \in Ops /\ Body \in Seq(Ops) /\ Len(Body) = Kernels
         /\ \A j \in 1 .. Kernels : /\ Body[j].op = "kernel" /\ Body[j].loop = Call
                                    /\ Body[j].iter = i /\ (Body[j].last <=> j = Kernels)
<1>1. Copy \in Ops
  BY DEF Copy, Ops, TypeOK
<1>2. \A j \in 1 .. Kernels :
        [op |-> "kernel", loop |-> Call, iter |-> i, last |-> j = Kernels] \in Ops
  <2> SUFFICES ASSUME NEW j \in 1 .. Kernels
               PROVE  [op |-> "kernel", loop |-> Call, iter |-> i, last |-> j = Kernels] \in Ops
    OBVIOUS
  <2>1. (j = Kernels) \in BOOLEAN
    OBVIOUS
  <2> QED
    BY <2>1 DEF Ops, TypeOK
<1>3. Body \in [1 .. Kernels -> Ops]
  BY <1>2 DEF Body
<1>4. Body \in Seq(Ops) /\ Len(Body) = Kernels
  <2>1. Body \in Seq(Ops)
    BY <1>3, SeqDef, LoopAssumption
  <2>2. DOMAIN Body = 1 .. Kernels /\ DOMAIN Body = 1 .. Len(Body) /\ Len(Body) \in Nat
    BY <1>3, <2>1, LenProperties
  <2> QED
    BY <2>1, <2>2, LoopAssumption
<1>5. \A j \in 1 .. Kernels : /\ Body[j].op = "kernel" /\ Body[j].loop = Call
                              /\ Body[j].iter = i /\ (Body[j].last <=> j = Kernels)
  BY DEF Body
<1> QED
  BY <1>1, <1>4, <1>5

\* What a submission, complete or cut short, adds to the stream.
LEMMA Submitted ==
  ASSUME TypeOK, Call \in Nat, NEW k \in 0 .. Kernels,
         stream' = stream \o <<Copy>> \o SubSeq(Body, 1, k)
  PROVE  /\ stream' \in Seq(Ops) /\ Len(stream) \in Nat /\ Len(stream') = Len(stream) + 1 + k
         /\ \A p \in 1 .. Len(stream) : stream'[p] = stream[p]
         /\ stream'[Len(stream) + 1] = Copy
         /\ \A p \in Len(stream) + 2 .. Len(stream') :
              p - Len(stream) - 1 \in 1 .. k /\ stream'[p] = Body[p - Len(stream) - 1]
<1> DEFINE part == SubSeq(Body, 1, k)
           with == stream \o <<Copy>>
<1>1. /\ Copy \in Ops /\ Body \in Seq(Ops) /\ Len(Body) = Kernels
  BY BodyElements
<1>2. stream \in Seq(Ops) /\ Len(stream) \in Nat
  BY LenProperties DEF TypeOK
<1>3. <<Copy>> \in Seq(Ops) /\ Len(<<Copy>>) = 1 /\ <<Copy>>[1] = Copy
  BY <1>1
<1>4. /\ with \in Seq(Ops) /\ Len(with) = Len(stream) + 1
      /\ \A p \in 1 .. Len(stream) : with[p] = stream[p]
      /\ with[Len(stream) + 1] = Copy
  <2> HIDE DEF Copy
  <2> QED
    BY <1>2, <1>3, ConcatProperties
<1>5. \A j \in 1 .. k : Body[j] \in Ops
  BY <1>1, ElementOfSeq, LoopAssumption
<1>6. /\ part \in Seq(Ops) /\ Len(part) = k
      /\ \A j \in 1 .. k : part[j] = Body[j]
  BY <1>5, SubSeqProperties, LoopAssumption
<1> HIDE DEF part, with
<1>7. stream' = with \o part
  BY DEF part, with
<1>8. /\ stream' \in Seq(Ops) /\ Len(stream') = Len(with) + Len(part)
      /\ \A p \in 1 .. Len(with) + Len(part) :
           stream'[p] = IF p <= Len(with) THEN with[p] ELSE part[p - Len(with)]
  <2>1. with \in Seq(Ops) /\ part \in Seq(Ops)
    BY <1>4, <1>6
  <2>2. /\ with \o part \in Seq(Ops) /\ Len(with \o part) = Len(with) + Len(part)
        /\ \A p \in 1 .. Len(with) + Len(part) :
             (with \o part)[p] = IF p <= Len(with) THEN with[p] ELSE part[p - Len(with)]
    BY <2>1, ConcatProperties
  <2> QED
    BY <1>7, <2>2
<1> QED
  BY <1>2, <1>4, <1>6, <1>8, LoopAssumption

\* A submission makes promises that hold: its copy reads inside the array, its
\* kernels follow it, and its writer of the condition comes last.
LEMMA SubmitInv ==
  ASSUME IInv, pc = "loop", More, NEW k \in 0 .. Kernels,
         stream' = stream \o <<Copy>> \o SubSeq(Body, 1, k),
         LoopsKept, Call' = Call, UNCHANGED <<capacity, iterDev, cond>>
  PROVE  /\ stream' \in Seq(Ops) /\ StreamInv' /\ CondHolds'
         /\ \A p \in 1 .. Len(stream') : Setter(stream[p])' =>
              \/ loops[stream'[p].loop].status = "failed" /\ stream'[p].loop \in 1 .. Call
              \/ stream'[p].loop = Call /\ This.policy = "dynamic"
         /\ This.policy # "dynamic" /\ NoFailureBefore(Call) =>
              cond = TRUE /\ \A p \in 1 .. Len(stream') : ~Setter(stream[p])'
<1> USE DEF IInv
<1> DEFINE n == Len(stream)
<1>0. k \in Nat /\ k <= Kernels /\ Kernels \in Nat
  BY LoopAssumption
<1>1. /\ stream' \in Seq(Ops) /\ n \in Nat /\ Len(stream') = n + 1 + k
      /\ \A p \in 1 .. n : stream'[p] = stream[p]
      /\ stream'[n + 1] = Copy
      /\ \A p \in n + 2 .. n + 1 + k :
           p - n - 1 \in 1 .. k /\ stream'[p] = Body[p - n - 1]
  BY Submitted DEF LoopsKept
<1>2. Call \in 1 .. Call /\ Call \in Nat /\ i \in Nat /\ This.trips \in Nat
      /\ i < This.trips /\ This.trips <= capacity /\ capacity \in Nat
  <2>1. Call \in 1 .. Call /\ Call \in Nat
    BY DEF HostInv, InDriver, LoopsKept
  <2>2. This.trips \in Nat
    BY <2>1, LoopElements DEF Loops, This
  <2> QED
    BY <2>1, <2>2 DEF HostInv, InDriver, More, TypeOK
<1>3. Copy.op = "copy" /\ Copy.loop = Call /\ Copy.iter = i /\ Copy.from = capacity
  BY DEF Copy
<1>4. \A p \in n + 2 .. n + 1 + k :
        /\ stream'[p].op = "kernel" /\ stream'[p].loop = Call /\ stream'[p].iter = i
        /\ stream'[p].last => p = n + 1 + k
  <2> SUFFICES ASSUME NEW p \in n + 2 .. n + 1 + k
               PROVE  /\ stream'[p].op = "kernel" /\ stream'[p].loop = Call
                      /\ stream'[p].iter = i /\ (stream'[p].last => p = n + 1 + k)
    OBVIOUS
  <2> DEFINE j == p - n - 1
  <2>1. j \in 1 .. k /\ j \in 1 .. Kernels /\ stream'[p] = Body[j]
    BY <1>0, <1>1
  <2>2. /\ Body[j].op = "kernel" /\ Body[j].loop = Call /\ Body[j].iter = i
        /\ Body[j].last <=> j = Kernels
    BY <1>2, <2>1, BodyElements
  <2>3. j = Kernels => p = n + 1 + k
    <3>1. n \in Int /\ p \in Int /\ p <= n + 1 + k
      BY <1>0, <1>1
    <3>2. p - n - 1 \in 1 .. k
      BY <2>1
    <3> HIDE DEF n
    <3> QED
      BY <1>0, <3>1, <3>2
  <2> QED
    BY <2>1, <2>2, <2>3
<1>5. \A p \in 1 .. n : stream[p].loop \in 1 .. Call
  BY DEF StreamInv
<1>6. StreamInv'
  <2> SUFFICES ASSUME NEW p \in 1 .. n + 1 + k
               PROVE  /\ stream'[p].loop \in 1 .. Call
                      /\ IsCopy(stream'[p]) =>
                           stream'[p].from = capacity /\ stream'[p].iter < capacity
                      /\ IsKernel(stream'[p]) =>
                           stream'[p].iter = IF p = 1 THEN iterDev ELSE stream'[p - 1].iter
    BY <1>1 DEF StreamInv, IsCopy, IsKernel
  <2>1. CASE p \in 1 .. n
    <3>1. stream'[p] = stream[p] /\ (p # 1 => stream'[p - 1] = stream[p - 1])
      BY <1>1, <2>1
    <3> QED
      BY <2>1, <3>1 DEF StreamInv
  <2>2. CASE p = n + 1
    BY <1>1, <1>2, <1>3, <2>2 DEF IsCopy, IsKernel
  <2>3. CASE p \in n + 2 .. n + 1 + k
    <3>1. stream'[p - 1].iter = i
      <4>1. CASE p = n + 2
        BY <1>0, <1>1, <1>3, <4>1
      <4>2. CASE p # n + 2
        <5>1. p - 1 \in n + 2 .. n + 1 + k
          BY <1>0, <1>1, <2>3, <4>2
        <5> QED
          BY <1>4, <5>1
      <4> QED
        BY <4>1, <4>2
    <3>2. p # 1 /\ stream'[p].op = "kernel" /\ stream'[p].loop = Call /\ stream'[p].iter = i
      BY <1>0, <1>1, <1>4, <2>3
    <3> QED
      BY <1>2, <3>1, <3>2 DEF IsCopy, IsKernel
  <2> QED
    BY <1>0, <1>1, <2>1, <2>2, <2>3
<1>7. \A p \in 1 .. n : Setter(stream[p])' => Setter(stream[p])
  <2> SUFFICES ASSUME NEW p \in 1 .. n, Setter(stream[p])'
               PROVE  Setter(stream[p])
    OBVIOUS
  <2>1. stream'[p] = stream[p] /\ stream[p].loop \in 1 .. Call
    BY <1>1, <1>5
  <2>2. loops'[stream[p].loop].policy = loops[stream[p].loop].policy
    BY <2>1 DEF LoopsKept
  <2> QED
    BY <2>1, <2>2 DEF Setter, IsKernel
<1>8. \A p \in n + 1 .. n + 1 + k : Setter(stream[p])' =>
        p = n + 1 + k /\ stream'[p].loop = Call /\ This.policy = "dynamic"
  <2> SUFFICES ASSUME NEW p \in n + 1 .. n + 1 + k, Setter(stream[p])'
               PROVE  p = n + 1 + k /\ stream'[p].loop = Call /\ This.policy = "dynamic"
    OBVIOUS
  <2>1. /\ stream'[p].op = "kernel" /\ stream'[p].last
        /\ loops'[stream'[p].loop].policy = "dynamic"
    BY DEF Setter, IsKernel
  <2>2. p \in n + 2 .. n + 1 + k
    BY <1>1, <1>3, <2>1
  <2>3. loops'[Call].policy = This.policy
    BY <1>2 DEF LoopsKept, This
  <2> QED
    BY <1>4, <2>1, <2>2, <2>3
<1>9. \A l \in 1 .. Call : NoFailureBefore(l)' => NoFailureBefore(l)
  BY NoFailureKept
<1>10. CondHolds'
  <2> SUFFICES ASSUME NEW p \in 1 .. n + 1 + k, IsKernel(stream'[p]),
                      NoFailureBefore(stream[p].loop)'
               PROVE  cond = TRUE /\ \A q \in 1 .. p - 1 : ~Setter(stream[q])'
    BY <1>1 DEF CondHolds, IsKernel
  <2>1. CASE p \in 1 .. n
    <3>1. NoFailureBefore(stream[p].loop)
      BY <1>1, <1>5, <1>9, <2>1 DEF NoFailureBefore
    <3>2. cond = TRUE /\ \A q \in 1 .. p - 1 : ~Setter(stream[q])
      BY <1>1, <2>1, <3>1 DEF CondHolds
    <3> QED
      BY <1>1, <1>7, <2>1, <3>2
  <2>2. CASE p \in n + 1 .. n + 1 + k
    <3>1. stream'[p].loop = Call
      BY <1>0, <1>1, <1>3, <1>4, <2>2
    <3>2. NoFailureBefore(Call)
      BY <1>2, <1>9, <3>1 DEF NoFailureBefore
    <3>3. cond = TRUE /\ \A q \in 1 .. n : ~Setter(stream[q])
      BY <3>2 DEF ReadyToIterate
    <3> QED
      BY <1>1, <1>7, <1>8, <2>2, <3>3
  <2>3. p \in 1 .. n \/ p \in n + 1 .. n + 1 + k
    BY <1>0, <1>1
  <2> QED
    BY <2>1, <2>2, <2>3
<1>11. ASSUME NEW p \in 1 .. Len(stream'), Setter(stream[p])'
       PROVE  \/ loops[stream'[p].loop].status = "failed" /\ stream'[p].loop \in 1 .. Call
              \/ stream'[p].loop = Call /\ This.policy = "dynamic"
  <2>1. CASE p \in 1 .. n
    <3>1. Setter(stream[p])
      BY <1>7, <1>11, <2>1
    <3> QED
      BY <1>1, <1>5, <2>1, <3>1 DEF SetterAwaited
  <2>2. CASE p \in n + 1 .. n + 1 + k
    BY <1>8, <1>11, <2>2
  <2> QED
    BY <1>0, <1>1, <2>1, <2>2
<1>12. ASSUME This.policy # "dynamic", NoFailureBefore(Call)
       PROVE  cond = TRUE /\ \A p \in 1 .. Len(stream') : ~Setter(stream[p])'
  <2>1. cond = TRUE /\ \A p \in 1 .. n : ~Setter(stream[p])
    BY <1>12 DEF ReadyToIterate
  <2> QED
    BY <1>1, <1>7, <1>8, <1>12, <2>1
<1> QED
  BY <1>1, <1>6, <1>10, <1>11, <1>12

LEMMA IterateInv == ASSUME IInv, Iterate PROVE IInv'
<1> USE DEF IInv
<1>1. /\ pc = "loop" /\ More
      /\ UNCHANGED <<pinned, capacity, iterDev, cond, event, loops, keepGoing, seen>>
  BY DEF Iterate
<1>2. Kernels \in 0 .. Kernels
  BY LoopAssumption
<1>3. Call \in Nat /\ Call' = Call /\ LoopsKept
  <2>1. Call \in Nat
    BY LenProperties DEF TypeOK, Call
  <2> QED
    BY <1>1, <2>1 DEF LoopsKept, Call
<1>4. stream' = stream \o <<Copy>> \o SubSeq(Body, 1, Kernels)
  <2>1. SubSeq(Body, 1, Kernels) = Body
    BY <1>3, BodyElements, SubSeqFull
  <2> QED
    BY <2>1 DEF Iterate
<1>5. /\ stream' \in Seq(Ops) /\ StreamInv' /\ CondHolds'
      /\ \A p \in 1 .. Len(stream') : Setter(stream[p])' =>
           \/ loops[stream'[p].loop].status = "failed" /\ stream'[p].loop \in 1 .. Call
           \/ stream'[p].loop = Call /\ This.policy = "dynamic"
      /\ This.policy # "dynamic" /\ NoFailureBefore(Call) =>
           cond = TRUE /\ \A p \in 1 .. Len(stream') : ~Setter(stream[p])'
  BY <1>1, <1>2, <1>3, <1>4, SubmitInv
<1>6. SeenInv'
  BY <1>1, <1>3, SeenKept
<1>7. CASE This.policy = "dynamic"
  <2>1. pc' = "check" /\ i' = i
    BY <1>7 DEF Iterate
  <2>2. TypeOK'
    BY <1>1, <1>5, <2>1 DEF TypeOK
  <2>3. HostInv'
    BY <1>1, <1>7, <2>1 DEF HostInv, InDriver, This, Call
  <2>4. SetterAwaited'
    BY <1>1, <1>3, <1>5, <2>1 DEF SetterAwaited
  <2> QED
    BY <1>5, <1>6, <2>1, <2>2, <2>3, <2>4 DEF ReadyToIterate
<1>8. CASE This.policy # "dynamic"
  <2>1. pc' = pc /\ i' = i + 1
    BY <1>8 DEF Iterate
  <2>2. TypeOK'
    BY <1>1, <1>5, <2>1 DEF TypeOK
  <2>3. HostInv'
    BY <1>1, <2>1 DEF HostInv, InDriver, This, Call
  <2>4. SetterAwaited'
    BY <1>1, <1>3, <1>5, <1>8 DEF SetterAwaited
  <2>5. ReadyToIterate'
    <3>1. NoFailureBefore(Call)' => NoFailureBefore(Call)
      BY <1>1, <1>3 DEF NoFailureBefore
    <3> QED
      BY <1>1, <1>5, <1>8, <3>1 DEF ReadyToIterate
  <2> QED
    BY <1>5, <1>6, <2>2, <2>3, <2>4, <2>5
<1> QED
  BY <1>7, <1>8

LEMMA IterateFailsInv == ASSUME IInv, IterateFails PROVE IInv'
<1> USE DEF IInv
<1>1. /\ pc = "loop" /\ pc \in InDriver /\ More /\ Return("failed")
      /\ UNCHANGED <<pinned, capacity, iterDev, cond, event, i, keepGoing, seen>>
  BY DEF IterateFails, InDriver
<1>2. /\ loops' \in Seq(Loops) /\ Call' = Call /\ pc' = "idle" /\ LoopsKept
      /\ loops'[Call].status = "failed"
  BY <1>1, Returned
<1>3. CASE UNCHANGED stream
  BY <1>1, <1>3, ReturnInv
<1>4. ASSUME NEW k \in 0 .. Kernels, stream' = stream \o <<Copy>> \o SubSeq(Body, 1, k)
      PROVE  IInv'
  <2>1. /\ stream' \in Seq(Ops) /\ StreamInv' /\ CondHolds'
        /\ \A p \in 1 .. Len(stream') : Setter(stream[p])' =>
             \/ loops[stream'[p].loop].status = "failed" /\ stream'[p].loop \in 1 .. Call
             \/ stream'[p].loop = Call /\ This.policy = "dynamic"
    BY <1>1, <1>2, <1>4, SubmitInv
  <2>2. TypeOK'
    BY <1>1, <1>2, <2>1 DEF TypeOK, Loops
  <2>3. HostInv' /\ ReadyToIterate'
    BY <1>2 DEF HostInv, InDriver, ReadyToIterate
  <2>4. SetterAwaited'
    BY <1>2, <2>1 DEF SetterAwaited, LoopsKept
  <2>5. SeenInv'
    BY <1>1, <1>2, SeenKept
  <2> QED
    BY <2>1, <2>2, <2>3, <2>4, <2>5
<1> QED
  BY <1>3, <1>4 DEF IterateFails

-----------------------------------------------------------------------------
LEMMA NextInv == IInv /\ [Next]_vars => IInv'
<1> SUFFICES ASSUME IInv, [Next]_vars PROVE IInv'
  OBVIOUS
<1>1. ASSUME NEW policy \in Policies, NEW trips \in 0 .. MaxTrips, RunLoop(policy, trips)
      PROVE  IInv'
  BY <1>1, RunLoopInv
<1>2. CASE Driver
  BY <1>2, EnsureFailsInv, EnsureArrayInv, EnsureIterDevInv, EnsureCondInv, EnsureEventInv,
     IterateInv, IterateFailsInv, CheckCondInv, CheckCondFailsInv, LeaveLoopInv DEF Driver
<1>3. CASE Gpu
  BY <1>3, ExecuteCopyInv, ExecuteKernelInv DEF Gpu
<1>4. CASE Cleanup
  BY <1>4, CleanupInv
<1>5. CASE UNCHANGED vars
  <2>1. UNCHANGED <<pinned, capacity, iterDev, cond, event, stream, loops, pc, i, keepGoing, seen>>
    BY <1>5 DEF vars, host
  <2>2. TypeOK' /\ HostInv'
    BY <2>1 DEF IInv, TypeOK, HostInv, This, Call
  <2>3. StreamInv' /\ SetterAwaited'
    BY <2>1, AwaitedKept DEF IInv, StreamInv, IsCopy, IsKernel, Call
  <2>4. CondHolds' /\ SeenInv'
    BY <2>1, EnsureKept
  <2>5. ReadyToIterate'
    BY <2>1 DEF IInv, ReadyToIterate, More, This, Call, NoFailureBefore, Setter, IsKernel
  <2> QED
    BY <2>2, <2>3, <2>4, <2>5 DEF IInv
<1> QED
  BY <1>1, <1>2, <1>3, <1>4, <1>5 DEF Next

\* The types of the driver's state; in particular the pinned array is one array
\* that holds its own indices, however often it grew.
THEOREM LoopTypes == Spec => []TypeOK
<1>1. IInv => TypeOK
  BY DEF IInv
<1> QED
  BY <1>1, InitInv, NextInv, PTL DEF Spec

\* For any number of iterations, loops and kernels, a body kernel reads the
\* number of its own iteration, and while no loop has failed it runs only under
\* a condition that holds.
THEOREM LoopBodiesReadOwnInputs == Spec => []BodiesReadOwnInputs
<1>1. IInv => BodiesReadOwnInputs
  BY DEF IInv, SeenInv, BodiesReadOwnInputs, NoFailureBefore
<1> QED
  BY <1>1, InitInv, NextInv, PTL DEF Spec
=============================================================================
