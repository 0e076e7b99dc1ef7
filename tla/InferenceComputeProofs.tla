------------------------ MODULE InferenceComputeProofs ------------------------
(***************************************************************************)
(* Proofs about one inference, for every number of sessions, threads,      *)
(* inputs, outputs, buffers and runs.                                      *)
(*                                                                         *)
(* Two inductive invariants.  FaultInv holds whatever fails: it foresees   *)
(* what the device error flag will be when the queued work is done, and    *)
(* ties it to the failures of the inference in progress.  OperatorInv adds *)
(* what becomes of the staging buffers, and holds when nothing fails but   *)
(* operators: the error paths before the final synchronisation give the    *)
(* inputs back while copies are still queued, and TensorBuffers that were  *)
(* never filled with them.                                                 *)
(***************************************************************************)
EXTENDS InferenceCompute, SequenceTheorems, TLAPS

(***************************************************************************)
(* What holds whatever fails.                                              *)
(***************************************************************************)
Ops == [kind : {"h2d", "memset", "kernel", "raise", "memrefCopy"},
        id : Sessions \X Nat, bufs : SUBSET (Buffers \cup {Wild}),
        bad : BOOLEAN]

Runs == [pc : PCs, thread : Threads \cup {None}, n : 0 .. MaxRuns,
         next : 1 .. Inputs + 1,
         todo : SUBSET ({"kernel", "memrefCopy"} \cup Outputs),
         ret : {0, 1}, failed : BOOLEAN, reported : BOOLEAN]

\* An operation that leaves the flag set.
Raises(op) == op.kind = "raise" \/ (op.kind = "kernel" /\ op.bad)

\* No clearing of the flag is queued behind position k of the work w.
Final(w, k) == \A j \in 1 .. Len(w) : j > k => w[j].kind # "memset"

\* What a flag will be when the work w has been done.
Outcome(flag, w) ==
  \/ flag /\ Final(w, 0)
  \/ \E k \in 1 .. Len(w) : Raises(w[k]) /\ Final(w, k)

Pending(q) == Outcome(device_error_flag[q], stream[q])

\* The flag the inference waits for tells what was reported to it, and only
\* failures of its own; the code it returns is what the flag or a failing call
\* said.  The operator that may raise the flag reports before it is done.
ReportInv(s) ==
  /\ run[s].pc \in {"graph", "raising", "read"} =>
       (run[s].reported => Pending(s)) /\ (Pending(s) => run[s].failed)
  /\ run[s].pc = "raising" => Pending(s) /\ "kernel" \notin run[s].todo
  /\ run[s].pc \in {"prepare", "free"} => ~run[s].reported
  /\ (run[s].pc = "graph" /\ "kernel" \in run[s].todo) => ~run[s].reported
  /\ run[s].pc = "error" => run[s].failed
  /\ run[s].pc = "returned" => /\ run[s].reported => run[s].ret # 0
                               /\ run[s].ret # 0 => run[s].failed

\* While a session is busy its thread's current stream is its own, and the
\* slot names its inference.
SlotInv(s) ==
  IF run[s].pc = "idle"
    THEN output_allocator[s] = None
    ELSE /\ output_allocator[s] = run[s].n /\ run[s].n > 0
         /\ run[s].thread \in Threads
         /\ current_stream[run[s].thread] = s

SessionInv(s) ==
  /\ run[s] \in Runs /\ stream[s] \in Seq(Ops)
  /\ device_error_flag[s] \in BOOLEAN
  /\ ReportInv(s) /\ SlotInv(s)

DomainsInv ==
  /\ DOMAIN run = Sessions /\ DOMAIN stream = Sessions
  /\ DOMAIN inputs = Sessions /\ DOMAIN output_allocator = Sessions
  /\ device_error_flag \in [Sessions -> BOOLEAN]
  /\ current_stream \in [Threads -> Sessions \cup {None}]
  /\ aborted \in BOOLEAN

FaultInv == DomainsInv /\ \A s \in Sessions : SessionInv(s)

(***************************************************************************)
(* What holds when nothing but operators fails.                            *)
(***************************************************************************)
\* Inputs are prepared in order and given back all together.
InputsInv(s) ==
  /\ inputs[s] \in [1 .. Inputs -> Buffers \cup {Unprepared, Empty, Aliased}]
  /\ run[s].pc = "prepare" =>
       \A i \in 1 .. Inputs : inputs[s][i] # Unprepared <=> i < run[s].next
  /\ run[s].pc \in {"graph", "raising", "read", "free", "error"} =>
       \A i \in 1 .. Inputs : inputs[s][i] # Unprepared
  /\ run[s].pc \in {"idle", "returned"} =>
       \A i \in 1 .. Inputs : inputs[s][i] = Unprepared

Working == {"prepare", "graph", "raising"}

\* What the work w of session s's stream may be, while the inference id is at
\* pc with the staging buffers mine: that inference's own work on its own
\* buffers, until the inference has waited for it, and clearings of the flag.
WorkFits(w, s, id, pc, mine) ==
  /\ \A k \in 1 .. Len(w) :
       /\ w[k].id[1] = s /\ w[k].bufs \subseteq mine
       /\ w[k].kind = "memset" => w[k].bufs = {}
       /\ w[k].kind # "memset" => w[k].id = id /\ pc \in Working
       /\ pc = "prepare" => w[k].kind \in {"memset", "h2d"}
  /\ \A j, k \in 1 .. Len(w) :
       w[j].kind = "h2d" /\ w[k].kind = "kernel" => j < k

StreamInv(s) == WorkFits(stream[s], s, Id(s), run[s].pc, Staged(s))

\* Each staged input has reached its buffer, or its copy is queued in w.
InputsComing(w, c, id, mine) ==
  \A b \in mine :
    \/ c[b] = id
    \/ \E k \in 1 .. Len(w) : w[k].kind = "h2d" /\ b \in w[k].bufs

ContentInv(s) ==
  run[s].pc \in Working => InputsComing(stream[s], content, Id(s), Staged(s))

PoolInv ==
  /\ g_gpu_buffer_pool \subseteq allocated /\ allocated \subseteq Buffers
  /\ DOMAIN content = Buffers
  /\ \A s, r \in Sessions, i, j \in 1 .. Inputs :
       inputs[s][i] \in Buffers =>
         /\ inputs[s][i] \in allocated \ g_gpu_buffer_pool
         /\ inputs[s][i] = inputs[r][j] => s = r /\ i = j

OperatorInv ==
  /\ FaultInv /\ PoolInv
  /\ \A s \in Sessions : InputsInv(s) /\ StreamInv(s) /\ ContentInv(s)

(***************************************************************************)
(* What the error flag will be.                                            *)
(***************************************************************************)
\* Queueing an operation: a clearing decides, anything else can only raise.
LEMMA AppendOutcome ==
  ASSUME NEW flag \in BOOLEAN, NEW w \in Seq(Ops), NEW op \in Ops
  PROVE  Outcome(flag, Append(w, op)) <=>
           op.kind # "memset" /\ (Outcome(flag, w) \/ Raises(op))
<1> DEFINE n == Len(w)
           v == Append(w, op)
<1>1. /\ n \in Nat /\ Len(v) = n + 1 /\ v[n + 1] = op
      /\ \A k \in 1 .. n : v[k] = w[k]
  OBVIOUS
<1> HIDE DEF v, n
<1>2. \A k \in 0 .. n : Final(v, k) <=> Final(w, k) /\ op.kind # "memset"
  <2>1. \A j \in 1 .. (n + 1) : j \in 1 .. n \/ j = n + 1
    BY <1>1
  <2>2. ASSUME NEW k \in 0 .. n, Final(v, k)
        PROVE  Final(w, k) /\ op.kind # "memset"
    <3>1. n + 1 \in 1 .. (n + 1) /\ n + 1 > k /\ 1 .. n \subseteq 1 .. (n + 1)
      BY <1>1
    <3> QED
      BY <1>1, <2>2, <3>1 DEF Final, n
  <2>3. ASSUME NEW k \in 0 .. n, Final(w, k), op.kind # "memset"
        PROVE  Final(v, k)
    BY <1>1, <2>1, <2>3 DEF Final, n
  <2> QED
    BY <2>2, <2>3
<1>3. Final(v, n + 1)
  <2> SUFFICES ASSUME NEW j \in 1 .. (n + 1), j > n + 1 PROVE FALSE
    BY <1>1 DEF Final
  <2> QED
    BY <1>1
<1>4. Raises(op) => op.kind # "memset"
  BY DEF Raises
<1>5. ASSUME Raises(op) PROVE Outcome(flag, v)
  <2>1. n + 1 \in 1 .. Len(v)
    BY <1>1
  <2> QED
    BY <1>1, <1>3, <1>5, <2>1 DEF Outcome
<1>6. ASSUME Outcome(flag, w), op.kind # "memset" PROVE Outcome(flag, v)
  <2>1. CASE flag /\ Final(w, 0)
    BY <1>1, <1>2, <1>6, <2>1 DEF Outcome
  <2>2. ASSUME NEW k \in 1 .. n, Raises(w[k]), Final(w, k)
        PROVE  Outcome(flag, v)
    <3>1. k \in 0 .. n /\ k \in 1 .. Len(v)
      BY <1>1
    <3> QED
      BY <1>1, <1>2, <1>6, <2>2, <3>1 DEF Outcome
  <2> QED
    BY <1>6, <2>1, <2>2 DEF Outcome, n
<1>7. ASSUME Outcome(flag, v)
      PROVE  op.kind # "memset" /\ (Outcome(flag, w) \/ Raises(op))
  <2>1. CASE flag /\ Final(v, 0)
    BY <1>1, <1>2, <2>1 DEF Outcome
  <2>2. ASSUME NEW k \in 1 .. (n + 1), Raises(v[k]), Final(v, k)
        PROVE  op.kind # "memset" /\ (Outcome(flag, w) \/ Raises(op))
    <3>1. CASE k = n + 1
      BY <1>1, <1>4, <2>2, <3>1
    <3>2. CASE k # n + 1
      <4>1. k \in 1 .. n /\ k \in 0 .. n
        BY <1>1, <3>2
      <4> QED
        BY <1>1, <1>2, <2>2, <4>1 DEF Outcome, n
    <3> QED
      BY <3>1, <3>2
  <2> QED
    BY <1>1, <1>7, <2>1, <2>2 DEF Outcome
<1> QED
  BY <1>4, <1>5, <1>6, <1>7 DEF v

\* Completing the first operation does what was foreseen.
LEMMA TailOutcome ==
  ASSUME NEW flag \in BOOLEAN, NEW w \in Seq(Ops), w # <<>>,
         NEW new \in BOOLEAN,
         new <=> /\ Head(w).kind # "memset"
                 /\ flag \/ Raises(Head(w))
  PROVE  Outcome(new, Tail(w)) <=> Outcome(flag, w)
<1> DEFINE n == Len(w)
           v == Tail(w)
<1>1. /\ n \in Nat \ {0} /\ Len(v) = n - 1 /\ Head(w) = w[1]
      /\ \A k \in 1 .. (n - 1) : v[k] = w[k + 1]
  OBVIOUS
<1> HIDE DEF v, n
<1>2. \A k \in 0 .. (n - 1) : Final(v, k) <=> Final(w, k + 1)
  <2>1. ASSUME NEW k \in 0 .. (n - 1), Final(v, k), NEW j \in 1 .. n, j > k + 1
        PROVE  w[j].kind # "memset"
    <3>1. j - 1 \in 1 .. (n - 1) /\ j - 1 > k /\ (j - 1) + 1 = j
      BY <1>1, <2>1
    <3> QED
      BY <1>1, <2>1, <3>1 DEF Final
  <2>2. ASSUME NEW k \in 0 .. (n - 1), Final(w, k + 1),
               NEW j \in 1 .. (n - 1), j > k
        PROVE  v[j].kind # "memset"
    <3>1. j + 1 \in 1 .. n /\ j + 1 > k + 1
      BY <1>1, <2>2
    <3> QED
      BY <1>1, <2>2, <3>1 DEF Final, n
  <2> QED
    BY <1>1, <2>1, <2>2 DEF Final, n
<1>3. Final(w, 0) <=> Final(w, 1) /\ w[1].kind # "memset"
  <2>1. \A j \in 1 .. n : j > 0 /\ (j > 1 \/ j = 1)
    BY <1>1
  <2>2. 1 \in 1 .. n
    BY <1>1
  <2> QED
    BY <2>1, <2>2 DEF Final, n
<1>4. Final(v, 0) <=> Final(w, 1)
  BY <1>1, <1>2
<1>5. Raises(w[1]) => w[1].kind # "memset"
  BY DEF Raises
<1>6. ASSUME Outcome(new, v) PROVE Outcome(flag, w)
  <2>1. CASE new /\ Final(v, 0)
    <3>1. 1 \in 1 .. Len(w)
      BY <1>1 DEF n
    <3> QED
      BY <1>1, <1>3, <1>4, <2>1, <3>1 DEF Outcome
  <2>2. ASSUME NEW k \in 1 .. (n - 1), Raises(v[k]), Final(v, k)
        PROVE  Outcome(flag, w)
    <3>1. k + 1 \in 1 .. Len(w) /\ k \in 0 .. (n - 1)
      BY <1>1 DEF n
    <3> QED
      BY <1>1, <1>2, <2>2, <3>1 DEF Outcome
  <2> QED
    BY <1>1, <1>6, <2>1, <2>2 DEF Outcome
<1>7. ASSUME Outcome(flag, w) PROVE Outcome(new, v)
  <2>1. CASE flag /\ Final(w, 0)
    BY <1>1, <1>3, <1>4, <2>1 DEF Outcome
  <2>2. ASSUME NEW k \in 1 .. n, Raises(w[k]), Final(w, k)
        PROVE  Outcome(new, v)
    <3>1. CASE k = 1
      BY <1>1, <1>4, <1>5, <2>2, <3>1 DEF Outcome
    <3>2. CASE k # 1
      <4>1. /\ k - 1 \in 1 .. Len(v) /\ k - 1 \in 0 .. (n - 1)
            /\ k - 1 \in 1 .. (n - 1) /\ (k - 1) + 1 = k
        BY <1>1, <3>2
      <4>2. v[k - 1] = w[k] /\ Final(v, k - 1)
        BY <1>1, <1>2, <2>2, <4>1
      <4> QED
        BY <2>2, <4>1, <4>2 DEF Outcome
    <3> QED
      BY <3>1, <3>2
  <2> QED
    BY <1>7, <2>1, <2>2 DEF Outcome, n
<1> QED
  BY <1>6, <1>7 DEF v

\* Work that is done has nothing left to say.
LEMMA DrainedOutcome ==
  ASSUME NEW flag \in BOOLEAN
  PROVE  Outcome(flag, <<>>) <=> flag
<1>1. Len(<<>>) = 0
  OBVIOUS
<1> QED
  BY <1>1 DEF Outcome, Final

(***************************************************************************)
(* Steps, whatever fails.                                                  *)
(***************************************************************************)
\* A step of one session's inference or stream leaves the other sessions to
\* themselves.
LEMMA OthersKept ==
  ASSUME NEW s \in Sessions, FaultInv, DomainsInv', (SessionInv(s))',
         \A r \in Sessions \ {s} :
           /\ run'[r] = run[r] /\ stream'[r] = stream[r]
           /\ device_error_flag'[r] = device_error_flag[r]
           /\ output_allocator'[r] = output_allocator[r]
           /\ run[r].pc # "idle" =>
                current_stream'[run[r].thread] = current_stream[run[r].thread]
  PROVE  FaultInv'
<1>1. ASSUME NEW r \in Sessions, r # s
      PROVE  (SessionInv(r))'
  <2>1. SessionInv(r)
    BY DEF FaultInv
  <2>2. (Pending(r))' <=> Pending(r)
    BY <1>1 DEF Pending
  <2>3. (ReportInv(r))'
    BY <1>1, <2>1, <2>2 DEF SessionInv, ReportInv
  <2>4. (SlotInv(r))'
    BY <1>1, <2>1 DEF SessionInv, SlotInv
  <2> QED
    BY <1>1, <2>1, <2>3, <2>4 DEF SessionInv
<1> QED
  BY <1>1 DEF FaultInv

\* The fields of a run after an update of some of them.
LEMMA GotoRun ==
  ASSUME NEW s \in Sessions, NEW pc \in PCs, FaultInv, Goto(s, pc)
  PROVE  /\ DOMAIN run' = Sessions /\ run'[s] \in Runs /\ run'[s].pc = pc
         /\ run'[s].failed = run[s].failed /\ run'[s].n = run[s].n
         /\ run'[s].reported = run[s].reported
         /\ run'[s].thread = run[s].thread /\ run'[s].ret = run[s].ret
         /\ run'[s].next = run[s].next /\ run'[s].todo = run[s].todo
         /\ \A r \in Sessions \ {s} : run'[r] = run[r]
<1>1. run[s] \in Runs /\ DOMAIN run = Sessions
  BY DEF FaultInv, DomainsInv, SessionInv
<1>2. /\ run'[s] = [run[s] EXCEPT !.pc = pc] /\ DOMAIN run' = Sessions
      /\ \A r \in Sessions \ {s} : run'[r] = run[r]
  BY <1>1 DEF Goto
<1> QED
  BY <1>1, <1>2 DEF Runs

LEMMA FailRun ==
  ASSUME NEW s \in Sessions, FaultInv, Fail(s)
  PROVE  /\ DOMAIN run' = Sessions /\ run'[s] \in Runs /\ run'[s].pc = "error"
         /\ run'[s].failed = TRUE /\ run'[s].n = run[s].n
         /\ run'[s].thread = run[s].thread
         /\ \A r \in Sessions \ {s} : run'[r] = run[r]
<1>1. run[s] \in Runs /\ DOMAIN run = Sessions
  BY DEF FaultInv, DomainsInv, SessionInv
<1>2. /\ run'[s] = [run[s] EXCEPT !.pc = "error", !.ret = 1,
                                  !.failed = TRUE, !.reported = TRUE]
      /\ DOMAIN run' = Sessions
      /\ \A r \in Sessions \ {s} : run'[r] = run[r]
  BY <1>1 DEF Fail
<1> QED
  BY <1>1, <1>2 DEF Runs, PCs

LEMMA DoneRun ==
  ASSUME NEW s \in Sessions, NEW task, NEW failed \in BOOLEAN,
         NEW reported \in BOOLEAN, FaultInv, Done(s, task, failed, reported)
  PROVE  /\ DOMAIN run' = Sessions /\ run'[s] \in Runs
         /\ run'[s].pc = run[s].pc /\ run'[s].n = run[s].n
         /\ run'[s].failed <=> run[s].failed \/ failed
         /\ run'[s].reported <=> run[s].reported \/ reported
         /\ run'[s].todo = run[s].todo \ {task}
         /\ run'[s].thread = run[s].thread
         /\ \A r \in Sessions \ {s} : run'[r] = run[r]
<1>1. run[s] \in Runs /\ DOMAIN run = Sessions
  BY DEF FaultInv, DomainsInv, SessionInv
<1>2. /\ run'[s] = [run[s] EXCEPT !.todo = @ \ {task},
                                  !.failed = @ \/ failed,
                                  !.reported = @ \/ reported]
      /\ DOMAIN run' = Sessions
      /\ \A r \in Sessions \ {s} : run'[r] = run[r]
  BY <1>1 DEF Done
<1>3. /\ run'[s].pc = run[s].pc /\ run'[s].n = run[s].n
      /\ run'[s].thread = run[s].thread
      /\ run'[s].todo = run[s].todo \ {task}
      /\ run'[s].failed = (run[s].failed \/ failed)
      /\ run'[s].reported = (run[s].reported \/ reported)
  BY <1>1, <1>2 DEF Runs
<1>4. /\ run[s].failed \in BOOLEAN /\ run[s].reported \in BOOLEAN
      /\ run'[s].todo \subseteq run[s].todo
  BY <1>1, <1>3 DEF Runs
<1>5. (run[s].failed \/ failed) \in BOOLEAN /\ (run[s].reported \/ reported) \in BOOLEAN
  BY <1>4
<1>6. run'[s] \in Runs
  BY <1>1, <1>2, <1>4, <1>5 DEF Runs
<1> QED
  BY <1>2, <1>3, <1>6

\* An operation joins the queue of its session.
LEMMA Enqueued ==
  ASSUME NEW s \in Sessions, NEW op \in Ops, FaultInv, Enqueue(s, op),
         UNCHANGED device_error_flag
  PROVE  /\ DOMAIN stream' = Sessions /\ stream'[s] \in Seq(Ops)
         /\ stream'[s] = Append(stream[s], op)
         /\ (Pending(s))' <=> op.kind # "memset" /\ (Pending(s) \/ Raises(op))
         /\ \A r \in Sessions \ {s} : stream'[r] = stream[r]
<1>1. /\ stream[s] \in Seq(Ops) /\ DOMAIN stream = Sessions
      /\ device_error_flag[s] \in BOOLEAN
  BY DEF FaultInv, DomainsInv, SessionInv
<1>2. /\ DOMAIN stream' = Sessions /\ stream'[s] = Append(stream[s], op)
      /\ \A r \in Sessions \ {s} : stream'[r] = stream[r]
  BY <1>1 DEF Enqueue
<1>3. stream'[s] \in Seq(Ops)
  BY <1>1, <1>2
<1>4. (Pending(s))' <=> op.kind # "memset" /\ (Pending(s) \/ Raises(op))
  BY <1>1, <1>2, AppendOutcome DEF Pending
<1> QED
  BY <1>2, <1>3, <1>4

LEMMA OpTyped ==
  ASSUME NEW s \in Sessions, NEW bufs \in SUBSET (Buffers \cup {Wild}),
         NEW kind \in {"h2d", "memset", "kernel", "raise", "memrefCopy"},
         FaultInv
  PROVE  /\ Op(s, kind, bufs) \in Ops
         /\ Op(s, kind, bufs).kind = kind
         /\ Raises(Op(s, kind, bufs)) <=> kind = "raise"
<1>1. Id(s) \in Sessions \X Nat
  BY CountsAreNumbers DEF FaultInv, SessionInv, Runs, Id
<1> QED
  BY <1>1 DEF Op, Ops, Raises

LEMMA BeginFault ==
  ASSUME NEW s \in Sessions, NEW t \in Threads, FaultInv, Begin(t, s)
  PROVE  FaultInv'
<1>1. /\ run[s] \in Runs /\ DOMAIN run = Sessions
      /\ current_stream \in [Threads -> Sessions \cup {None}]
      /\ DOMAIN output_allocator = Sessions /\ DOMAIN inputs = Sessions
  BY DEF FaultInv, DomainsInv, SessionInv
<1>2. /\ current_stream' = [current_stream EXCEPT ![t] = s]
      /\ run[s].pc = "idle" /\ run[s].n < MaxRuns /\ ~Busy(t)
      /\ output_allocator' = [output_allocator EXCEPT ![s] = run[s].n + 1]
      /\ inputs' = [inputs EXCEPT ![s] = [i \in 1 .. Inputs |-> Unprepared]]
      /\ UNCHANGED <<gpu, aborted>>
  BY DEF Begin, Install
<1>3. /\ run'[s] = [pc |-> "prepare", thread |-> t, n |-> run[s].n + 1,
                    next |-> 1,
                    todo |-> {"kernel", "memrefCopy"} \cup Outputs, ret |-> 0,
                    failed |-> FALSE, reported |-> FALSE]
      /\ DOMAIN run' = Sessions
      /\ \A r \in Sessions \ {s} : run'[r] = run[r]
  BY <1>1 DEF Begin, Install
<1>4. run'[s] \in Runs
  <2>1. run[s].n + 1 \in 0 .. MaxRuns /\ 1 \in 1 .. Inputs + 1
    BY <1>1, <1>2, CountsAreNumbers DEF Runs
  <2> QED
    BY <1>3, <2>1 DEF Runs, PCs
<1>5. run'[s].pc = "prepare" /\ ~run'[s].reported /\ run'[s].thread = t
      /\ run'[s].n = run[s].n + 1 /\ run[s].n \in Nat
  BY <1>1, <1>3 DEF Runs
<1>6. (ReportInv(s))'
  BY <1>5 DEF ReportInv
<1>7. (SlotInv(s))'
  BY <1>1, <1>2, <1>5 DEF SlotInv
<1>8. (SessionInv(s))'
  BY <1>2, <1>4, <1>6, <1>7 DEF FaultInv, SessionInv, gpu
<1>9. DomainsInv'
  BY <1>1, <1>2, <1>3 DEF FaultInv, DomainsInv, gpu
<1>10. \A r \in Sessions \ {s} :
         /\ stream'[r] = stream[r]
         /\ device_error_flag'[r] = device_error_flag[r]
         /\ output_allocator'[r] = output_allocator[r]
         /\ run[r].pc # "idle" =>
              current_stream'[run[r].thread] = current_stream[run[r].thread]
  BY <1>1, <1>2 DEF gpu, Busy
<1> QED
  BY <1>3, <1>8, <1>9, <1>10, OthersKept

\* Giving up goes to the cleanup block with the failure on record.
LEMMA FailFault ==
  ASSUME NEW s \in Sessions, FaultInv, Fail(s), run[s].pc # "idle",
         DOMAIN inputs' = Sessions, aborted' = aborted,
         UNCHANGED <<stream, device_error_flag, output_allocator, current_stream>>
  PROVE  FaultInv'
<1>1. /\ DOMAIN run' = Sessions /\ run'[s] \in Runs /\ run'[s].pc = "error"
      /\ run'[s].failed = TRUE /\ run'[s].n = run[s].n
      /\ run'[s].thread = run[s].thread
      /\ \A r \in Sessions \ {s} : run'[r] = run[r]
  BY FailRun
<1>2. (ReportInv(s))' /\ (SlotInv(s))'
  BY <1>1 DEF FaultInv, SessionInv, ReportInv, SlotInv
<1>3. (SessionInv(s))'
  BY <1>1, <1>2 DEF FaultInv, SessionInv
<1>4. DomainsInv'
  BY <1>1 DEF FaultInv, DomainsInv
<1> QED
  BY <1>1, <1>3, <1>4, OthersKept

LEMMA PrepareFault ==
  ASSUME NEW s \in Sessions, FaultInv, Prepare(s)
  PROVE  FaultInv'
<1>1. /\ run[s] \in Runs /\ DOMAIN run = Sessions /\ DOMAIN inputs = Sessions
      /\ ReportInv(s) /\ SlotInv(s)
  BY DEF FaultInv, DomainsInv, SessionInv
<1>2. UNCHANGED <<output_allocator, current_stream, last, aborted>>
  BY DEF Prepare
<1>3. run[s].pc = "prepare" /\ run[s].next \in 1 .. Inputs
  BY <1>1, CountsAreNumbers DEF Prepare, PrepareInPlace, PrepareStaged,
     PrepareCopyFails, PrepareFails, Preparing, Running, Runs
<1>4. ASSUME NEW b, Prepared(s, b)
      PROVE  /\ DOMAIN run' = Sessions /\ run'[s] \in Runs
             /\ run'[s].pc = "prepare" /\ run'[s].n = run[s].n
             /\ run'[s].failed = run[s].failed
             /\ run'[s].reported = run[s].reported
             /\ run'[s].thread = run[s].thread
             /\ \A r \in Sessions \ {s} : run'[r] = run[r]
             /\ DOMAIN inputs' = Sessions
             /\ (ReportInv(s))' /\ (SlotInv(s))'
  <2>1. /\ run'[s] = [run[s] EXCEPT !.next = @ + 1] /\ DOMAIN run' = Sessions
        /\ \A r \in Sessions \ {s} : run'[r] = run[r]
        /\ DOMAIN inputs' = Sessions
    BY <1>1, <1>4 DEF Prepared
  <2>2. run[s].next + 1 \in 1 .. Inputs + 1
    BY <1>3, CountsAreNumbers
  <2>3. /\ run'[s] \in Runs /\ run'[s].pc = "prepare" /\ run'[s].n = run[s].n
        /\ run'[s].failed = run[s].failed /\ run'[s].thread = run[s].thread
        /\ run'[s].reported = run[s].reported
    BY <1>1, <1>3, <2>1, <2>2 DEF Runs
  <2> QED
    BY <1>1, <1>2, <1>3, <2>1, <2>3 DEF ReportInv, SlotInv
<1>5. CASE PrepareInPlace(s)
  <2>1. PICK b : Prepared(s, b)
    BY <1>5 DEF PrepareInPlace
  <2>2. UNCHANGED gpu
    BY <1>5 DEF PrepareInPlace
  <2>3. (SessionInv(s))'
    BY <1>4, <2>1, <2>2 DEF FaultInv, SessionInv, gpu
  <2>4. DomainsInv'
    BY <1>2, <1>4, <2>1, <2>2 DEF FaultInv, DomainsInv, gpu
  <2> QED
    BY <1>2, <1>4, <2>1, <2>2, <2>3, <2>4, OthersKept DEF gpu
<1>6. CASE PrepareStaged(s)
  <2>1. PICK b \in Buffers \cup {Wild} : /\ Prepared(s, b)
                                         /\ Enqueue(s, Op(s, "h2d", {b}))
    BY <1>6 DEF PrepareStaged
  <2>2. UNCHANGED device_error_flag
    BY <1>6 DEF PrepareStaged
  <2>3. Op(s, "h2d", {b}) \in Ops
    BY OpTyped
  <2>4. /\ DOMAIN stream' = Sessions /\ stream'[s] \in Seq(Ops)
        /\ \A r \in Sessions \ {s} : stream'[r] = stream[r]
    BY <2>1, <2>2, <2>3, Enqueued
  <2>5. (SessionInv(s))'
    BY <1>4, <2>1, <2>2, <2>4 DEF FaultInv, SessionInv
  <2>6. DomainsInv'
    BY <1>2, <1>4, <2>1, <2>2, <2>4 DEF FaultInv, DomainsInv
  <2> QED
    BY <1>2, <1>4, <2>1, <2>2, <2>4, <2>5, <2>6, OthersKept
<1>7. CASE PrepareCopyFails(s) \/ PrepareFails(s)
  <2>1. Fail(s) /\ UNCHANGED <<inputs, gpu>>
    BY <1>7 DEF PrepareCopyFails, PrepareFails
  <2> QED
    BY <1>1, <1>2, <1>3, <2>1, FailFault DEF gpu
<1> QED
  BY <1>5, <1>6, <1>7 DEF Prepare

LEMMA ResetErrorFlagFault ==
  ASSUME NEW s \in Sessions, FaultInv, ResetErrorFlag(s)
  PROVE  FaultInv'
<1>1. /\ run[s].pc = "prepare" /\ DOMAIN inputs = Sessions
      /\ UNCHANGED <<inputs, device_error_flag, output_allocator,
                     current_stream, aborted>>
      /\ ReportInv(s) /\ SlotInv(s)
  BY DEF ResetErrorFlag, Running, FaultInv, DomainsInv, SessionInv
<1>2. CASE Enqueue(s, Op(s, "memset", {})) /\ Goto(s, "graph")
  <2>1. Op(s, "memset", {}) \in Ops /\ Op(s, "memset", {}).kind = "memset"
    BY OpTyped
  <2>2. /\ DOMAIN stream' = Sessions /\ stream'[s] \in Seq(Ops)
        /\ ~(Pending(s))'
        /\ \A r \in Sessions \ {s} : stream'[r] = stream[r]
    BY <1>1, <1>2, <2>1, Enqueued
  <2>3. /\ DOMAIN run' = Sessions /\ run'[s] \in Runs /\ run'[s].pc = "graph"
        /\ run'[s].failed = run[s].failed /\ run'[s].n = run[s].n
        /\ run'[s].reported = run[s].reported /\ run'[s].thread = run[s].thread
        /\ \A r \in Sessions \ {s} : run'[r] = run[r]
    BY <1>2, GotoRun DEF PCs
  <2>4. (ReportInv(s))' /\ (SlotInv(s))'
    BY <1>1, <2>2, <2>3 DEF ReportInv, SlotInv
  <2>5. (SessionInv(s))'
    BY <1>1, <2>2, <2>3, <2>4 DEF FaultInv, SessionInv
  <2>6. DomainsInv'
    BY <1>1, <2>2, <2>3 DEF FaultInv, DomainsInv
  <2> QED
    BY <1>1, <2>2, <2>3, <2>5, <2>6, OthersKept
<1>3. CASE Fail(s) /\ UNCHANGED stream
  BY <1>1, <1>3, FailFault
<1> QED
  BY <1>2, <1>3 DEF ResetErrorFlag

\* An operator of the graph queues work, or sets the flag, and notes whether
\* it failed and whether it said so: the flag to come tells as much.
LEMMA OperatorFault ==
  ASSUME NEW s \in Sessions, FaultInv, NEW pc \in {"graph", "raising"},
         run[s].pc = "graph", DOMAIN run' = Sessions, run'[s] \in Runs,
         run'[s].pc = pc, run'[s].n = run[s].n,
         run'[s].thread = run[s].thread,
         \A r \in Sessions \ {s} : run'[r] = run[r] /\ stream'[r] = stream[r],
         DOMAIN stream' = Sessions, stream'[s] \in Seq(Ops),
         run'[s].reported => (Pending(s))', (Pending(s))' => run'[s].failed,
         pc = "raising" => (Pending(s))' /\ "kernel" \notin run'[s].todo,
         "kernel" \in run'[s].todo => ~run'[s].reported,
         UNCHANGED <<device_error_flag, output_allocator, current_stream,
                     inputs, aborted>>
  PROVE  FaultInv'
<1>1. (ReportInv(s))' /\ (SlotInv(s))'
  BY DEF FaultInv, SessionInv, ReportInv, SlotInv
<1>2. (SessionInv(s))'
  BY <1>1 DEF FaultInv, SessionInv
<1>3. DomainsInv'
  BY DEF FaultInv, DomainsInv
<1> QED
  BY <1>2, <1>3, OthersKept

LEMMA StagedBuffers == \A s : Staged(s) \in SUBSET (Buffers \cup {Wild})
BY DEF Staged

LEMMA GraphFault ==
  ASSUME NEW s \in Sessions, FaultInv, Graph(s)
  PROVE  FaultInv'
<1>1. /\ UNCHANGED <<g_gpu_buffer_pool, allocated, current_stream, inputs,
                     last, aborted>>
      /\ run[s] \in Runs /\ DOMAIN stream = Sessions /\ DOMAIN run = Sessions
      /\ stream[s] \in Seq(Ops) /\ ReportInv(s) /\ SlotInv(s)
  BY DEF Graph, FaultInv, DomainsInv, SessionInv
<1>2. CASE LaunchKernel(s)
  <2>1. PICK bad \in BOOLEAN :
          /\ Enqueue(s, [Op(s, "kernel", Staged(s)) EXCEPT !.bad = bad])
          /\ Done(s, "kernel", bad, bad)
    BY <1>2 DEF LaunchKernel
  <2>2. /\ run[s].pc = "graph" /\ "kernel" \in run[s].todo
        /\ UNCHANGED <<device_error_flag, output_allocator>>
    BY <1>2 DEF LaunchKernel, Doing, Running
  <2> DEFINE op == [Op(s, "kernel", Staged(s)) EXCEPT !.bad = bad]
  <2>3. op \in Ops /\ op.kind = "kernel" /\ (Raises(op) <=> bad)
    <3>1. Op(s, "kernel", Staged(s)) \in Ops
          /\ Op(s, "kernel", Staged(s)).kind = "kernel"
      BY OpTyped, StagedBuffers
    <3>2. op \in Ops /\ op.kind = "kernel" /\ (op.bad <=> bad)
      BY <3>1 DEF Ops
    <3> QED
      BY <3>2 DEF Raises
  <2> HIDE DEF op
  <2>4. /\ DOMAIN stream' = Sessions /\ stream'[s] \in Seq(Ops)
        /\ (Pending(s))' <=> Pending(s) \/ bad
        /\ \A r \in Sessions \ {s} : stream'[r] = stream[r]
    BY <2>1, <2>2, <2>3, Enqueued DEF op
  <2>5. /\ DOMAIN run' = Sessions /\ run'[s] \in Runs
        /\ run'[s].pc = run[s].pc /\ run'[s].n = run[s].n
        /\ run'[s].failed <=> run[s].failed \/ bad
        /\ run'[s].reported <=> run[s].reported \/ bad
        /\ run'[s].todo = run[s].todo \ {"kernel"}
        /\ run'[s].thread = run[s].thread
        /\ \A r \in Sessions \ {s} : run'[r] = run[r]
    <3>1. CASE bad = TRUE
      <4>1. Done(s, "kernel", TRUE, TRUE)
        BY <2>1, <3>1
      <4> QED
        BY <3>1, <4>1, DoneRun
    <3>2. CASE bad = FALSE
      <4>1. Done(s, "kernel", FALSE, FALSE)
        BY <2>1, <3>2
      <4> QED
        BY <3>2, <4>1, DoneRun
    <3> QED
      BY <3>1, <3>2
  <2>6. /\ run'[s].reported => (Pending(s))'
        /\ (Pending(s))' => run'[s].failed
    BY <1>1, <2>2, <2>4, <2>5 DEF ReportInv
  <2>7. "kernel" \notin run'[s].todo
    BY <2>5
  <2> QED
    BY <1>1, <2>2, <2>4, <2>5, <2>6, <2>7, OperatorFault
<1>3. ASSUME Doing(s, "kernel"), Done(s, "kernel", TRUE, FALSE),
             UNCHANGED <<device_error_flag, output_allocator>>,
             \/ UNCHANGED stream
             \/ \E kind \in {"raise", "memset"} : Enqueue(s, Op(s, kind, {}))
      PROVE  FaultInv'
  <2>1. run[s].pc = "graph" /\ ~run[s].reported
    BY <1>1, <1>3 DEF Doing, Running, ReportInv
  <2>2. /\ DOMAIN run' = Sessions /\ run'[s] \in Runs
        /\ run'[s].pc = run[s].pc /\ run'[s].n = run[s].n
        /\ run'[s].failed /\ ~run'[s].reported
        /\ run'[s].thread = run[s].thread
        /\ \A r \in Sessions \ {s} : run'[r] = run[r]
    BY <1>3, <2>1, DoneRun
  <2>3. /\ DOMAIN stream' = Sessions /\ stream'[s] \in Seq(Ops)
        /\ \A r \in Sessions \ {s} : stream'[r] = stream[r]
    <3>1. ASSUME NEW kind \in {"raise", "memset"},
                 Enqueue(s, Op(s, kind, {}))
          PROVE  /\ DOMAIN stream' = Sessions /\ stream'[s] \in Seq(Ops)
                 /\ \A r \in Sessions \ {s} : stream'[r] = stream[r]
      <4>1. Op(s, kind, {}) \in Ops
        BY OpTyped
      <4> QED
        BY <1>3, <3>1, <4>1, Enqueued
    <3> QED
      BY <1>1, <1>3, <3>1
  <2> QED
    BY <1>1, <1>3, <2>1, <2>2, <2>3, OperatorFault
<1>4. CASE DropStatus(s)
  BY <1>3, <1>4 DEF DropStatus, gpu
<1>5. CASE SetErrorFlag(s)
  <2>1. CASE /\ Enqueue(s, Op(s, "raise", {}))
             /\ run' = [run EXCEPT ![s].pc = "raising", ![s].failed = TRUE,
                                   ![s].todo = @ \ {"kernel"}]
    <3>1. /\ run[s].pc = "graph"
          /\ UNCHANGED <<device_error_flag, output_allocator>>
      BY <1>5 DEF SetErrorFlag, Doing, Running
    <3>2. /\ Op(s, "raise", {}) \in Ops /\ Op(s, "raise", {}).kind = "raise"
          /\ Raises(Op(s, "raise", {}))
      BY OpTyped
    <3>3. /\ DOMAIN stream' = Sessions /\ stream'[s] \in Seq(Ops)
          /\ (Pending(s))'
          /\ \A r \in Sessions \ {s} : stream'[r] = stream[r]
      BY <2>1, <3>1, <3>2, Enqueued
    <3>4. /\ run'[s] = [run[s] EXCEPT !.pc = "raising", !.failed = TRUE,
                                      !.todo = @ \ {"kernel"}]
          /\ DOMAIN run' = Sessions
          /\ \A r \in Sessions \ {s} : run'[r] = run[r]
      BY <1>1, <2>1
    <3>5. /\ run'[s] \in Runs /\ run'[s].pc = "raising"
          /\ run'[s].n = run[s].n /\ run'[s].failed
          /\ "kernel" \notin run'[s].todo
          /\ run'[s].thread = run[s].thread
      BY <1>1, <3>4 DEF Runs, PCs
    <3> QED
      BY <1>1, <3>1, <3>3, <3>4, <3>5, OperatorFault
  <2>2. CASE /\ \/ UNCHANGED stream
                \/ \E kind \in {"raise", "memset"} : Enqueue(s, Op(s, kind, {}))
             /\ Done(s, "kernel", TRUE, FALSE)
    BY <1>3, <1>5, <2>2 DEF SetErrorFlag
  <2> QED
    BY <1>5, <2>1, <2>2 DEF SetErrorFlag
<1>6. CASE ErrorFlagSet(s)
  <2>1. /\ run[s].pc = "raising" /\ UNCHANGED <<gpu, output_allocator>>
        /\ run' = [run EXCEPT ![s].pc = "graph", ![s].reported = TRUE]
    BY <1>6 DEF ErrorFlagSet, Running
  <2>2. /\ run'[s] = [run[s] EXCEPT !.pc = "graph", !.reported = TRUE]
        /\ DOMAIN run' = Sessions
        /\ \A r \in Sessions \ {s} : run'[r] = run[r]
    BY <1>1, <2>1
  <2>3. /\ run'[s] \in Runs /\ run'[s].pc = "graph"
        /\ run'[s].failed = run[s].failed /\ run'[s].n = run[s].n
        /\ run'[s].todo = run[s].todo /\ run'[s].thread = run[s].thread
    BY <1>1, <2>2 DEF Runs, PCs
  <2>4. (Pending(s))' <=> Pending(s)
    BY <2>1 DEF Pending, gpu
  <2>5. "kernel" \notin run[s].todo
    BY <1>1, <2>1 DEF ReportInv
  <2>6. (ReportInv(s))' /\ (SlotInv(s))'
    BY <1>1, <2>1, <2>3, <2>4, <2>5 DEF ReportInv, SlotInv
  <2>7. (SessionInv(s))'
    BY <2>1, <2>3, <2>6 DEF FaultInv, SessionInv, gpu
  <2>8. DomainsInv'
    BY <1>1, <2>1, <2>2 DEF FaultInv, DomainsInv, gpu
  <2> QED
    BY <1>1, <2>1, <2>2, <2>7, <2>8, OthersKept DEF gpu
<1>7. CASE MemrefCopy(s)
  <2> DEFINE op == Op(s, "memrefCopy", {})
  <2>1. /\ run[s].pc = "graph"
        /\ Enqueue(current_stream[run[s].thread], op) \/ UNCHANGED stream
        /\ UNCHANGED <<device_error_flag, output_allocator>>
    BY <1>7 DEF MemrefCopy, Doing, Running
  <2>2. \E failed \in BOOLEAN : Done(s, "memrefCopy", failed, FALSE)
    BY <1>7 DEF MemrefCopy
  <2>3. current_stream[run[s].thread] = s
    BY <1>1, <2>1 DEF SlotInv
  <2>4. op \in Ops /\ op.kind = "memrefCopy" /\ ~Raises(op)
    BY OpTyped
  <2> HIDE DEF op
  <2>5. /\ DOMAIN stream' = Sessions /\ stream'[s] \in Seq(Ops)
        /\ (Pending(s))' <=> Pending(s)
        /\ \A r \in Sessions \ {s} : stream'[r] = stream[r]
    <3>1. CASE Enqueue(s, op)
      BY <2>1, <2>4, <3>1, Enqueued
    <3>2. CASE UNCHANGED stream
      BY <1>1, <2>1, <3>2 DEF Pending
    <3> QED
      BY <2>1, <2>3, <3>1, <3>2
  <2>6. /\ DOMAIN run' = Sessions /\ run'[s] \in Runs
        /\ run'[s].pc = run[s].pc /\ run'[s].n = run[s].n
        /\ run[s].failed => run'[s].failed
        /\ run'[s].reported <=> run[s].reported
        /\ run'[s].todo \subseteq run[s].todo
        /\ run'[s].thread = run[s].thread
        /\ \A r \in Sessions \ {s} : run'[r] = run[r]
    <3>1. CASE Done(s, "memrefCopy", TRUE, FALSE)
      BY <3>1, DoneRun
    <3>2. CASE Done(s, "memrefCopy", FALSE, FALSE)
      BY <3>2, DoneRun
    <3> QED
      BY <2>2, <3>1, <3>2
  <2>7. /\ run'[s].reported => (Pending(s))'
        /\ (Pending(s))' => run'[s].failed
        /\ "kernel" \in run'[s].todo => ~run'[s].reported
    BY <1>1, <2>1, <2>5, <2>6 DEF ReportInv
  <2> QED
    BY <1>1, <2>1, <2>5, <2>6, <2>7, OperatorFault
<1>8. CASE AllocOutput(s)
  <2>1. PICK o : Done(s, o, FALSE, FALSE)
    BY <1>8 DEF AllocOutput
  <2>2. run[s].pc = "graph" /\ UNCHANGED <<gpu, output_allocator>>
    BY <1>8 DEF AllocOutput, Doing, Running
  <2>3. /\ DOMAIN run' = Sessions /\ run'[s] \in Runs
        /\ run'[s].pc = run[s].pc /\ run'[s].n = run[s].n
        /\ run'[s].failed <=> run[s].failed
        /\ run'[s].reported <=> run[s].reported
        /\ run'[s].todo \subseteq run[s].todo
        /\ run'[s].thread = run[s].thread
        /\ \A r \in Sessions \ {s} : run'[r] = run[r]
    BY <2>1, DoneRun
  <2>4. /\ run'[s].reported => (Pending(s))'
        /\ (Pending(s))' => run'[s].failed
        /\ "kernel" \in run'[s].todo => ~run'[s].reported
    BY <1>1, <2>2, <2>3 DEF ReportInv, Pending, gpu
  <2> QED
    BY <1>1, <2>2, <2>3, <2>4, OperatorFault DEF gpu
<1> QED
  BY <1>2, <1>4, <1>5, <1>6, <1>7, <1>8 DEF Graph

LEMMA StreamSyncFault ==
  ASSUME NEW s \in Sessions, FaultInv, StreamSync(s)
  PROVE  FaultInv'
<1>1. /\ run[s].pc = "graph" /\ DOMAIN inputs = Sessions
      /\ UNCHANGED <<inputs, gpu, output_allocator, current_stream, aborted>>
      /\ ReportInv(s) /\ SlotInv(s)
  BY DEF StreamSync, Running, FaultInv, DomainsInv, SessionInv
<1>2. CASE Goto(s, "read")
  <2>1. /\ DOMAIN run' = Sessions /\ run'[s] \in Runs /\ run'[s].pc = "read"
        /\ run'[s].failed = run[s].failed /\ run'[s].n = run[s].n
        /\ run'[s].reported = run[s].reported /\ run'[s].thread = run[s].thread
        /\ \A r \in Sessions \ {s} : run'[r] = run[r]
    BY <1>2, GotoRun DEF PCs
  <2>2. (Pending(s))' <=> Pending(s)
    BY <1>1 DEF Pending, gpu
  <2>3. (ReportInv(s))' /\ (SlotInv(s))'
    BY <1>1, <2>1, <2>2 DEF ReportInv, SlotInv
  <2>4. (SessionInv(s))'
    BY <1>1, <2>1, <2>3 DEF FaultInv, SessionInv, gpu
  <2>5. DomainsInv'
    BY <1>1, <2>1 DEF FaultInv, DomainsInv, gpu
  <2> QED
    BY <1>1, <2>1, <2>4, <2>5, OthersKept DEF gpu
<1>3. CASE Fail(s)
  BY <1>1, <1>3, FailFault DEF gpu
<1> QED
  BY <1>2, <1>3 DEF StreamSync

LEMMA ReadErrorFlagFault ==
  ASSUME NEW s \in Sessions, FaultInv, ReadErrorFlag(s)
  PROVE  FaultInv'
<1>1. /\ run[s].pc = "read" /\ DOMAIN inputs = Sessions
      /\ UNCHANGED <<inputs, device_error_flag, output_allocator,
                     current_stream, aborted>>
      /\ ReportInv(s) /\ SlotInv(s) /\ device_error_flag[s] \in BOOLEAN
  BY DEF ReadErrorFlag, Running, FaultInv, DomainsInv, SessionInv
<1>2. stream[s] = <<>> => /\ run[s].reported => device_error_flag[s]
                          /\ device_error_flag[s] => run[s].failed
  BY <1>1, DrainedOutcome DEF ReportInv, Pending
<1>3. CASE /\ stream[s] = <<>> /\ device_error_flag[s]
           /\ Goto(s, "error") /\ UNCHANGED stream
  <2>1. /\ DOMAIN run' = Sessions /\ run'[s] \in Runs /\ run'[s].pc = "error"
        /\ run'[s].failed = run[s].failed /\ run'[s].n = run[s].n
        /\ run'[s].reported = run[s].reported /\ run'[s].thread = run[s].thread
        /\ \A r \in Sessions \ {s} : run'[r] = run[r]
    BY <1>3, GotoRun DEF PCs
  <2>2. (ReportInv(s))' /\ (SlotInv(s))'
    BY <1>1, <1>2, <1>3, <2>1 DEF ReportInv, SlotInv
  <2>3. (SessionInv(s))'
    BY <1>1, <1>3, <2>1, <2>2 DEF FaultInv, SessionInv
  <2>4. DomainsInv'
    BY <1>1, <1>3, <2>1 DEF FaultInv, DomainsInv
  <2> QED
    BY <1>1, <1>3, <2>1, <2>3, <2>4, OthersKept
<1>4. CASE /\ stream[s] = <<>> /\ ~device_error_flag[s]
           /\ Enqueue(s, Op(s, "memset", {})) /\ Goto(s, "free")
  <2>1. Op(s, "memset", {}) \in Ops
    BY OpTyped
  <2>2. /\ DOMAIN stream' = Sessions /\ stream'[s] \in Seq(Ops)
        /\ \A r \in Sessions \ {s} : stream'[r] = stream[r]
    BY <1>1, <1>4, <2>1, Enqueued
  <2>3. /\ DOMAIN run' = Sessions /\ run'[s] \in Runs /\ run'[s].pc = "free"
        /\ run'[s].failed = run[s].failed /\ run'[s].n = run[s].n
        /\ run'[s].reported = run[s].reported /\ run'[s].thread = run[s].thread
        /\ \A r \in Sessions \ {s} : run'[r] = run[r]
    BY <1>4, GotoRun DEF PCs
  <2>4. (ReportInv(s))' /\ (SlotInv(s))'
    BY <1>1, <1>2, <1>4, <2>3 DEF ReportInv, SlotInv
  <2>5. (SessionInv(s))'
    BY <1>1, <2>2, <2>3, <2>4 DEF FaultInv, SessionInv
  <2>6. DomainsInv'
    BY <1>1, <2>2, <2>3 DEF FaultInv, DomainsInv
  <2> QED
    BY <1>1, <2>2, <2>3, <2>5, <2>6, OthersKept
<1>5. CASE Fail(s) /\ UNCHANGED stream
  BY <1>1, <1>5, FailFault
<1> QED
  BY <1>3, <1>4, <1>5 DEF ReadErrorFlag

LEMMA FreeInputsFault ==
  ASSUME NEW s \in Sessions, FaultInv, FreeInputs(s)
  PROVE  FaultInv'
<1>1. /\ run[s].pc \in {"free", "error"}
      /\ inputs' = [inputs EXCEPT ![s] = [i \in 1 .. Inputs |-> Unprepared]]
      /\ UNCHANGED <<gpu, output_allocator, current_stream, aborted>>
      /\ ReportInv(s) /\ SlotInv(s) /\ DOMAIN run = Sessions
      /\ DOMAIN inputs = Sessions /\ run[s] \in Runs
  BY DEF FreeInputs, Running, FaultInv, DomainsInv, SessionInv
<1>2. /\ run'[s] = [run[s] EXCEPT !.pc = "returned",
                      !.ret = IF run[s].pc = "error" THEN 1 ELSE 0]
      /\ DOMAIN run' = Sessions
      /\ \A r \in Sessions \ {s} : run'[r] = run[r]
  BY <1>1 DEF FreeInputs
<1>3. /\ run'[s] \in Runs /\ run'[s].pc = "returned"
      /\ (run'[s].ret # 0) <=> (run[s].pc = "error")
      /\ run'[s].failed = run[s].failed /\ run'[s].n = run[s].n
      /\ run'[s].reported = run[s].reported /\ run'[s].thread = run[s].thread
  <2>1. CASE run[s].pc = "error"
    <3>1. run'[s] = [run[s] EXCEPT !.pc = "returned", !.ret = 1]
      BY <1>2, <2>1
    <3>2. run'[s] \in Runs
      BY <1>1, <3>1 DEF Runs, PCs
    <3>3. /\ run'[s].pc = "returned" /\ run'[s].ret = 1
          /\ run'[s].failed = run[s].failed /\ run'[s].n = run[s].n
          /\ run'[s].reported = run[s].reported /\ run'[s].thread = run[s].thread
      BY <1>1, <3>1 DEF Runs
    <3> QED
      BY <2>1, <3>2, <3>3
  <2>2. CASE run[s].pc # "error"
    <3>1. run'[s] = [run[s] EXCEPT !.pc = "returned", !.ret = 0]
      BY <1>2, <2>2
    <3>2. run'[s] \in Runs
      BY <1>1, <3>1 DEF Runs, PCs
    <3>3. /\ run'[s].pc = "returned" /\ run'[s].ret = 0
          /\ run'[s].failed = run[s].failed /\ run'[s].n = run[s].n
          /\ run'[s].reported = run[s].reported /\ run'[s].thread = run[s].thread
      BY <1>1, <3>1 DEF Runs
    <3> QED
      BY <2>2, <3>2, <3>3
  <2> QED
    BY <2>1, <2>2
<1>4. (ReportInv(s))' /\ (SlotInv(s))'
  BY <1>1, <1>3 DEF ReportInv, SlotInv
<1>5. (SessionInv(s))'
  BY <1>1, <1>3, <1>4 DEF FaultInv, SessionInv, gpu
<1>6. DomainsInv'
  BY <1>1, <1>2 DEF FaultInv, DomainsInv, gpu
<1> QED
  BY <1>1, <1>2, <1>5, <1>6, OthersKept DEF gpu

LEMMA ReturnFault ==
  ASSUME NEW s \in Sessions, FaultInv, Return(s)
  PROVE  FaultInv'
<1>1. /\ run[s].pc = "returned" /\ Goto(s, "idle")
      /\ output_allocator' = [output_allocator EXCEPT ![s] = None]
      /\ UNCHANGED <<gpu, current_stream, inputs>>
      /\ DOMAIN output_allocator = Sessions
  BY DEF Return, Finish, Running, FaultInv, DomainsInv
<1>2. aborted' \in BOOLEAN
  BY DEF Return, Finish, FaultInv, DomainsInv
<1>3. /\ DOMAIN run' = Sessions /\ run'[s] \in Runs /\ run'[s].pc = "idle"
      /\ \A r \in Sessions \ {s} : run'[r] = run[r]
  BY <1>1, GotoRun DEF PCs
<1>4. (ReportInv(s))' /\ (SlotInv(s))'
  BY <1>1, <1>3 DEF ReportInv, SlotInv
<1>5. (SessionInv(s))'
  BY <1>1, <1>3, <1>4 DEF FaultInv, SessionInv, gpu
<1>6. DomainsInv'
  BY <1>1, <1>2, <1>3 DEF FaultInv, DomainsInv, gpu
<1> QED
  BY <1>1, <1>3, <1>5, <1>6, OthersKept DEF gpu

LEMMA GpuFault ==
  ASSUME NEW s \in Sessions, FaultInv, Gpu(s)
  PROVE  FaultInv'
<1> DEFINE op == Head(stream[s])
<1>1. /\ stream[s] # <<>> /\ stream[s] \in Seq(Ops)
      /\ DOMAIN stream = Sessions
      /\ device_error_flag \in [Sessions -> BOOLEAN]
      /\ device_error_flag[s] \in BOOLEAN
      /\ UNCHANGED <<output_allocator, current_stream, inputs, run, aborted>>
      /\ ReportInv(s) /\ SlotInv(s)
  BY DEF Gpu, FaultInv, DomainsInv, SessionInv
<1>2. op \in Ops
  BY <1>1
<1>3. /\ stream'[s] = Tail(stream[s]) /\ DOMAIN stream' = Sessions
      /\ \A r \in Sessions \ {s} : stream'[r] = stream[r]
  BY <1>1 DEF Gpu
<1>4. /\ device_error_flag' \in [Sessions -> BOOLEAN]
      /\ \A r \in Sessions \ {s} : device_error_flag'[r] = device_error_flag[r]
      /\ device_error_flag'[s] \in BOOLEAN
      /\ device_error_flag'[s] <=> /\ op.kind # "memset"
                                   /\ device_error_flag[s] \/ Raises(op)
  <2> HIDE DEF op
  <2>1. CASE op.kind = "memset"
    <3>1. device_error_flag' = [device_error_flag EXCEPT ![s] = FALSE]
      BY <2>1 DEF Gpu, op
    <3> QED
      BY <1>1, <2>1, <3>1
  <2>2. CASE op.kind # "memset"
    <3>1. device_error_flag' =
            [device_error_flag EXCEPT ![s] = device_error_flag[s] \/ Raises(op)]
      <4>1. device_error_flag' =
              [device_error_flag EXCEPT ![s] =
                 @ \/ op.kind = "raise" \/ (op.kind = "kernel" /\ op.bad)]
        BY <2>2 DEF Gpu, op
      <4> QED
        BY <4>1 DEF Raises
    <3>2. PICK v \in BOOLEAN : v <=> device_error_flag[s] \/ Raises(op)
      OBVIOUS
    <3>3. device_error_flag' = [device_error_flag EXCEPT ![s] = v]
      BY <3>1, <3>2
    <3> QED
      BY <1>1, <2>2, <3>2, <3>3
  <2> QED
    BY <2>1, <2>2
<1>5. stream'[s] \in Seq(Ops)
  BY <1>1, <1>3
<1>6. (Pending(s))' <=> Pending(s)
  BY <1>1, <1>3, <1>4, TailOutcome DEF Pending
<1>7. (ReportInv(s))' /\ (SlotInv(s))'
  BY <1>1, <1>6 DEF ReportInv, SlotInv
<1>8. (SessionInv(s))'
  BY <1>1, <1>4, <1>5, <1>7 DEF FaultInv, SessionInv
<1>9. DomainsInv'
  BY <1>1, <1>3, <1>4 DEF FaultInv, DomainsInv
<1> QED
  BY <1>1, <1>3, <1>4, <1>8, <1>9, OthersKept

LEMMA FaultInvInit == Init => FaultInv
<1> SUFFICES ASSUME Init PROVE FaultInv
  OBVIOUS
<1>1. DomainsInv
  BY DEF Init, DomainsInv
<1>2. ASSUME NEW s \in Sessions
      PROVE  SessionInv(s)
  <2>1. /\ run[s] = [pc |-> "idle", thread |-> None, n |-> 0, next |-> 1,
                     todo |-> {}, ret |-> 0, failed |-> FALSE,
                     reported |-> FALSE]
        /\ stream[s] = <<>> /\ device_error_flag[s] = FALSE
        /\ output_allocator[s] = None
    BY DEF Init
  <2>2. 1 \in 1 .. Inputs + 1 /\ 0 \in 0 .. MaxRuns
    BY CountsAreNumbers
  <2>3. run[s] \in Runs
    BY <2>1, <2>2 DEF Runs, PCs
  <2>4. ReportInv(s) /\ SlotInv(s)
    BY <2>1 DEF ReportInv, SlotInv
  <2>5. stream[s] \in Seq(Ops)
    BY <2>1
  <2>6. device_error_flag[s] \in BOOLEAN
    BY <2>1
  <2> QED
    BY <2>3, <2>4, <2>5, <2>6 DEF SessionInv
<1> QED
  BY <1>1, <1>2 DEF FaultInv

LEMMA FaultInvStep == FaultInv /\ [Next]_vars => FaultInv'
<1> SUFFICES ASSUME FaultInv, [Next]_vars PROVE FaultInv'
  OBVIOUS
<1>1. ASSUME NEW s \in Sessions, NEW t \in Threads, Begin(t, s)
      PROVE  FaultInv'
  BY <1>1, BeginFault
<1>2. ASSUME NEW s \in Sessions,
             \/ Prepare(s) \/ ResetErrorFlag(s) \/ Graph(s) \/ StreamSync(s)
             \/ ReadErrorFlag(s) \/ FreeInputs(s) \/ Return(s) \/ Gpu(s)
      PROVE  FaultInv'
  BY <1>2, PrepareFault, ResetErrorFlagFault, GraphFault, StreamSyncFault,
     ReadErrorFlagFault, FreeInputsFault, ReturnFault, GpuFault
<1>3. CASE UNCHANGED vars
  <2>1. DomainsInv'
    BY <1>3 DEF FaultInv, DomainsInv, vars, gpu
  <2>2. \A s \in Sessions : (SessionInv(s))'
    BY <1>3 DEF FaultInv, SessionInv, ReportInv, SlotInv, Pending, vars, gpu
  <2> QED
    BY <2>1, <2>2 DEF FaultInv
<1> QED
  BY <1>1, <1>2, <1>3 DEF Next

LEMMA FaultInvariant == Spec => []FaultInv
BY FaultInvInit, FaultInvStep, PTL DEF Spec

\* A failure that was reported makes inference_compute's code nonzero, and a
\* nonzero code means that something failed in this inference and not in an
\* earlier one, whatever fails: operators, inputs, memory, copies or streams.
THEOREM ComputeErrorReturned == Spec => []ErrorReturned
<1>1. FaultInv => ErrorReturned
  BY DEF FaultInv, SessionInv, ReportInv, ErrorReturned
<1> QED
  BY <1>1, FaultInvariant, PTL

\* The output-allocator slot names the context of the inference in progress
\* and nothing else, whatever fails.
THEOREM ComputeCallbackLive == Spec => []CallbackLive
<1>1. FaultInv => CallbackLive
  BY DEF FaultInv, SessionInv, SlotInv, CallbackLive
<1> QED
  BY <1>1, FaultInvariant, PTL

OperatorFaultsOnly == Faults \subseteq {"op"}

\* The work of a stream fits the next place of its inference: from preparing
\* the inputs to running the graph, with more staging buffers.
LEMMA FitsMove ==
  ASSUME NEW w, NEW s, NEW id, NEW pc \in Working, NEW mine,
         NEW to \in Working, NEW more, WorkFits(w, s, id, pc, mine),
         to = "prepare" => pc = "prepare", mine \subseteq more
  PROVE  WorkFits(w, s, id, to, more)
BY DEF WorkFits

\* What remains once the inference has waited fits any inference.
LEMMA FitsIdle ==
  ASSUME NEW w, NEW s, NEW id, NEW pc, NEW mine, NEW id2, NEW to, NEW more,
         WorkFits(w, s, id, pc, mine), pc \notin Working
  PROVE  WorkFits(w, s, id2, to, more)
<1>1. \A k \in 1 .. Len(w) : w[k].kind = "memset" /\ w[k].bufs = {}
                             /\ w[k].id[1] = s
  BY DEF WorkFits
<1> QED
  BY <1>1 DEF WorkFits

LEMMA FitsEmpty ==
  ASSUME NEW s, NEW id, NEW pc, NEW mine
  PROVE  WorkFits(<<>>, s, id, pc, mine)
<1>1. 1 .. Len(<<>>) = {}
  OBVIOUS
<1> QED
  BY <1>1 DEF WorkFits

LEMMA FitsAppend ==
  ASSUME NEW w \in Seq(Ops), NEW op \in Ops, NEW s, NEW id, NEW pc, NEW mine,
         WorkFits(w, s, id, pc, mine),
         op.id = id, id[1] = s, op.bufs \subseteq mine,
         op.kind = "memset" => op.bufs = {},
         op.kind # "memset" => pc \in Working,
         pc = "prepare" => op.kind \in {"memset", "h2d"},
         op.kind = "h2d" => pc = "prepare"
  PROVE  WorkFits(Append(w, op), s, id, pc, mine)
<1> DEFINE v == Append(w, op)
           n == Len(w)
<1>1. /\ n \in Nat /\ Len(v) = n + 1 /\ v[n + 1] = op
      /\ \A k \in 1 .. n : v[k] = w[k]
  OBVIOUS
<1>2. \A k \in 1 .. (n + 1) : k \in 1 .. n \/ k = n + 1
  BY <1>1
<1> HIDE DEF v
<1>3. ASSUME NEW k \in 1 .. (n + 1)
      PROVE  /\ v[k].id[1] = s /\ v[k].bufs \subseteq mine
             /\ v[k].kind = "memset" => v[k].bufs = {}
             /\ v[k].kind # "memset" => v[k].id = id /\ pc \in Working
             /\ pc = "prepare" => v[k].kind \in {"memset", "h2d"}
  BY <1>1, <1>2 DEF WorkFits
<1>4. ASSUME NEW j \in 1 .. (n + 1), NEW k \in 1 .. (n + 1),
             v[j].kind = "h2d", v[k].kind = "kernel"
      PROVE  j < k
  <2>1. CASE j = n + 1
    <3>1. pc = "prepare"
      BY <1>1, <1>4, <2>1
    <3> QED
      BY <1>3, <1>4, <3>1
  <2>2. CASE j \in 1 .. n /\ k = n + 1
    BY <1>1, <2>2
  <2>3. CASE j \in 1 .. n /\ k \in 1 .. n
    BY <1>1, <1>4, <2>3 DEF WorkFits
  <2> QED
    BY <1>2, <2>1, <2>2, <2>3
<1>5. WorkFits(v, s, id, pc, mine)
  BY <1>1, <1>3, <1>4 DEF WorkFits
<1> QED
  BY <1>5 DEF v

LEMMA FitsTail ==
  ASSUME NEW w \in Seq(Ops), w # <<>>, NEW s, NEW id, NEW pc, NEW mine,
         WorkFits(w, s, id, pc, mine)
  PROVE  WorkFits(Tail(w), s, id, pc, mine)
<1> DEFINE v == Tail(w)
           n == Len(w)
<1>1. /\ n \in Nat \ {0} /\ Len(v) = n - 1
      /\ \A k \in 1 .. (n - 1) : v[k] = w[k + 1]
  OBVIOUS
<1>2. \A k \in 1 .. (n - 1) : k + 1 \in 1 .. n
  BY <1>1
<1> HIDE DEF v
<1>3. ASSUME NEW k \in 1 .. (n - 1)
      PROVE  /\ v[k].id[1] = s /\ v[k].bufs \subseteq mine
             /\ v[k].kind = "memset" => v[k].bufs = {}
             /\ v[k].kind # "memset" => v[k].id = id /\ pc \in Working
             /\ pc = "prepare" => v[k].kind \in {"memset", "h2d"}
  BY <1>1, <1>2 DEF WorkFits
<1>4. ASSUME NEW j \in 1 .. (n - 1), NEW k \in 1 .. (n - 1),
             v[j].kind = "h2d", v[k].kind = "kernel"
      PROVE  j < k
  <2>1. j + 1 < k + 1
    BY <1>1, <1>2, <1>4 DEF WorkFits
  <2> QED
    BY <1>1, <2>1
<1>5. WorkFits(v, s, id, pc, mine)
  BY <1>1, <1>3, <1>4 DEF WorkFits
<1> QED
  BY <1>5 DEF v

\* Queueing an operation keeps the inputs coming.
LEMMA ComingAppend ==
  ASSUME NEW w \in Seq(Ops), NEW op \in Ops, NEW c, NEW id, NEW mine,
         InputsComing(w, c, id, mine), NEW more,
         \A b \in more \ mine : op.kind = "h2d" /\ b \in op.bufs
  PROVE  InputsComing(Append(w, op), c, id, more)
<1> DEFINE v == Append(w, op)
           n == Len(w)
<1>1. /\ n \in Nat /\ Len(v) = n + 1 /\ v[n + 1] = op
      /\ \A k \in 1 .. n : v[k] = w[k]
  OBVIOUS
<1>2. n + 1 \in 1 .. (n + 1) /\ \A k \in 1 .. n : k \in 1 .. (n + 1)
  BY <1>1
<1> HIDE DEF v
<1>3. ASSUME NEW b \in more
      PROVE  \/ c[b] = id
             \/ \E k \in 1 .. (n + 1) : v[k].kind = "h2d" /\ b \in v[k].bufs
  <2>1. CASE b \in mine
    <3>1. CASE c[b] = id
      BY <3>1
    <3>2. CASE c[b] # id
      <4>1. PICK k \in 1 .. n : w[k].kind = "h2d" /\ b \in w[k].bufs
        BY <2>1, <3>2 DEF InputsComing
      <4> QED
        BY <1>1, <1>2, <4>1
    <3> QED
      BY <3>1, <3>2
  <2>2. CASE b \notin mine
    BY <1>1, <1>2, <2>2
  <2> QED
    BY <2>1, <2>2
<1>4. InputsComing(v, c, id, more)
  BY <1>1, <1>3 DEF InputsComing
<1> QED
  BY <1>4 DEF v

\* Completing the first operation keeps them coming.
LEMMA ComingTail ==
  ASSUME NEW w \in Seq(Ops), w # <<>>, NEW c, NEW new, NEW id, NEW mine,
         InputsComing(w, c, id, mine),
         Head(w).kind # "memset" => Head(w).id = id,
         \A b \in mine :
           new[b] = IF Head(w).kind = "h2d" /\ b \in Head(w).bufs
                      THEN Head(w).id ELSE c[b]
  PROVE  InputsComing(Tail(w), new, id, mine)
<1> DEFINE v == Tail(w)
           n == Len(w)
<1>1. /\ n \in Nat \ {0} /\ Len(v) = n - 1 /\ Head(w) = w[1]
      /\ \A k \in 1 .. (n - 1) : v[k] = w[k + 1]
  OBVIOUS
<1> HIDE DEF v
<1>2. ASSUME NEW b \in mine
      PROVE  \/ new[b] = id
             \/ \E k \in 1 .. (n - 1) : v[k].kind = "h2d" /\ b \in v[k].bufs
  <2>1. CASE w[1].kind = "h2d" /\ b \in w[1].bufs
    BY <1>1, <2>1
  <2>2. CASE ~(w[1].kind = "h2d" /\ b \in w[1].bufs)
    <3>1. new[b] = c[b]
      BY <1>1, <2>2
    <3>2. CASE c[b] = id
      BY <3>1, <3>2
    <3>3. CASE c[b] # id
      <4>1. PICK k \in 1 .. n : w[k].kind = "h2d" /\ b \in w[k].bufs
        BY <3>3 DEF InputsComing
      <4>2. k # 1
        BY <2>2, <4>1
      <4>3. k - 1 \in 1 .. (n - 1) /\ (k - 1) + 1 = k
        BY <1>1, <4>1, <4>2
      <4>4. v[k - 1] = w[k]
        BY <1>1, <4>3
      <4> QED
        BY <4>1, <4>3, <4>4
    <3> QED
      BY <3>2, <3>3
  <2> QED
    BY <2>1, <2>2
<1>3. InputsComing(v, new, id, mine)
  BY <1>1, <1>2 DEF InputsComing
<1> QED
  BY <1>3 DEF v

(***************************************************************************)
(* Steps, when only operators fail.                                        *)
(***************************************************************************)
\* A step of one session's inference or stream leaves the other sessions'
\* inputs and work to themselves.
LEMMA StepFramed ==
  ASSUME NEW s \in Sessions, OperatorInv, FaultInv', PoolInv',
         (InputsInv(s))', (StreamInv(s))', (ContentInv(s))',
         \A r \in Sessions \ {s} :
           /\ run'[r] = run[r] /\ stream'[r] = stream[r]
           /\ inputs'[r] = inputs[r]
           /\ \A b \in Staged(r) : content'[b] = content[b]
  PROVE  OperatorInv'
<1>1. ASSUME NEW r \in Sessions, r # s
      PROVE  (InputsInv(r))' /\ (StreamInv(r))' /\ (ContentInv(r))'
  <2>1. InputsInv(r) /\ StreamInv(r) /\ ContentInv(r)
    BY DEF OperatorInv
  <2>2. (Staged(r))' = Staged(r) /\ (Id(r))' = Id(r)
    BY <1>1 DEF Staged, Id
  <2>3. (InputsInv(r))'
    BY <1>1, <2>1 DEF InputsInv
  <2>4. (StreamInv(r))'
    BY <1>1, <2>1, <2>2 DEF StreamInv
  <2>5. (ContentInv(r))'
    BY <1>1, <2>1, <2>2 DEF ContentInv, InputsComing
  <2> QED
    BY <2>3, <2>4, <2>5
<1> QED
  BY <1>1 DEF OperatorInv

\* What the invariant says of one session, unpacked.
LEMMA SessionFacts ==
  ASSUME NEW s \in Sessions, OperatorInv
  PROVE  /\ run[s] \in Runs /\ stream[s] \in Seq(Ops)
         /\ InputsInv(s) /\ StreamInv(s) /\ ContentInv(s)
         /\ FaultInv /\ PoolInv
         /\ DOMAIN run = Sessions /\ DOMAIN stream = Sessions
         /\ DOMAIN inputs = Sessions
         /\ Id(s) \in Sessions \X Nat /\ Id(s)[1] = s
<1>1. run[s] \in Runs /\ run[s].n \in Nat
  BY CountsAreNumbers DEF OperatorInv, FaultInv, SessionInv, Runs
<1>2. Id(s) \in Sessions \X Nat /\ Id(s)[1] = s
  BY <1>1 DEF Id
<1> QED
  BY <1>1, <1>2 DEF OperatorInv, FaultInv, SessionInv, DomainsInv

\* A step that leaves the buffers, the inputs and the other sessions alone.
LEMMA BuffersKept ==
  ASSUME NEW s \in Sessions, OperatorInv, FaultInv',
         UNCHANGED <<g_gpu_buffer_pool, allocated, content>>,
         \A r \in Sessions : inputs'[r] = inputs[r],
         \A r \in Sessions \ {s} : run'[r] = run[r] /\ stream'[r] = stream[r],
         (InputsInv(s))', (StreamInv(s))', (ContentInv(s))'
  PROVE  OperatorInv'
<1>1. PoolInv'
  BY DEF OperatorInv, PoolInv
<1> QED
  BY <1>1, StepFramed

LEMMA BeginOperator ==
  ASSUME NEW s \in Sessions, NEW t \in Threads, OperatorInv, FaultInv',
         Begin(t, s)
  PROVE  OperatorInv'
<1>1. /\ run[s].pc = "idle" /\ UNCHANGED <<g_gpu_buffer_pool, allocated, gpu>>
      /\ InputsInv(s) /\ StreamInv(s) /\ DOMAIN run = Sessions
      /\ DOMAIN inputs = Sessions
  BY SessionFacts DEF Begin, Install
<1>2. \A r \in Sessions : inputs'[r] = inputs[r]
  <2>1. inputs[s] = [i \in 1 .. Inputs |-> Unprepared]
    BY <1>1 DEF InputsInv
  <2> QED
    BY <1>1, <2>1 DEF Begin, Install
<1>3. /\ run'[s].pc = "prepare" /\ run'[s].next = 1
      /\ \A r \in Sessions \ {s} : run'[r] = run[r]
  BY <1>1 DEF Begin, Install
<1>4. (InputsInv(s))'
  <2>1. /\ inputs'[s] \in
             [1 .. Inputs -> Buffers \cup {Unprepared, Empty, Aliased}]
        /\ \A i \in 1 .. Inputs : inputs'[s][i] = Unprepared
    BY <1>1, <1>2 DEF InputsInv
  <2>2. \A i \in 1 .. Inputs : ~(i < 1)
    BY CountsAreNumbers
  <2> QED
    BY <1>3, <2>1, <2>2 DEF InputsInv
<1>5. (StreamInv(s))'
  <2>1. run[s].pc \notin Working
    BY <1>1 DEF Working
  <2> QED
    BY <1>1, <2>1, FitsIdle DEF StreamInv, gpu
<1>6. (ContentInv(s))'
  <2>1. (Staged(s))' = {}
    <3>1. \A i \in 1 .. Inputs : inputs'[s][i] = Unprepared
      BY <1>1, <1>2 DEF InputsInv
    <3> QED
      BY <3>1, MarkersDiffer DEF Staged
  <2> QED
    BY <2>1 DEF ContentInv, InputsComing
<1> QED
  BY <1>1, <1>2, <1>3, <1>4, <1>5, <1>6, BuffersKept DEF gpu

\* The next input gets the value b.
LEMMA PreparedInputs ==
  ASSUME NEW s \in Sessions, OperatorInv, Preparing(s),
         NEW b \in Buffers \cup {Empty, Aliased}, Prepared(s, b)
  PROVE  /\ run'[s].pc = "prepare" /\ run[s].pc = "prepare"
         /\ run[s].next \in 1 .. Inputs /\ inputs[s][run[s].next] = Unprepared
         /\ (Id(s))' = Id(s) /\ (InputsInv(s))'
         /\ \A r \in Sessions \ {s} :
              run'[r] = run[r] /\ inputs'[r] = inputs[r]
         /\ \A i \in 1 .. Inputs :
              inputs'[s][i] = IF i = run[s].next THEN b ELSE inputs[s][i]
         /\ (Staged(s))' = Staged(s) \cup ({b} \cap Buffers)
<1> DEFINE k == run[s].next
<1>1. /\ run[s] \in Runs /\ InputsInv(s) /\ DOMAIN run = Sessions
      /\ DOMAIN inputs = Sessions
  BY SessionFacts
<1>2. run[s].pc = "prepare" /\ k \in 1 .. Inputs
  BY <1>1, CountsAreNumbers DEF Preparing, Running, Runs
<1>3. /\ run'[s] = [run[s] EXCEPT !.next = @ + 1]
      /\ \A r \in Sessions \ {s} : run'[r] = run[r] /\ inputs'[r] = inputs[r]
      /\ inputs'[s] = [inputs[s] EXCEPT ![k] = b]
  BY <1>1 DEF Prepared
<1>4. /\ run'[s].pc = "prepare" /\ run'[s].next = k + 1
      /\ run'[s].n = run[s].n
  BY <1>1, <1>2, <1>3 DEF Runs
<1>5. /\ inputs[s] \in [1 .. Inputs -> Buffers \cup {Unprepared, Empty, Aliased}]
      /\ \A i \in 1 .. Inputs : inputs[s][i] # Unprepared <=> i < k
  BY <1>1, <1>2 DEF InputsInv
<1>6. /\ inputs'[s] \in [1 .. Inputs -> Buffers \cup {Unprepared, Empty, Aliased}]
      /\ \A i \in 1 .. Inputs :
           inputs'[s][i] = IF i = k THEN b ELSE inputs[s][i]
  BY <1>2, <1>3, <1>5
<1>7. b # Unprepared
  BY MarkersDiffer
<1> HIDE DEF k
<1>8. \A i \in 1 .. Inputs : inputs'[s][i] # Unprepared <=> i < k + 1
  BY <1>2, <1>5, <1>6, <1>7
<1>9. (InputsInv(s))'
  BY <1>4, <1>6, <1>8 DEF InputsInv
<1>10. inputs[s][k] = Unprepared
  BY <1>2, <1>5
<1>11. (Staged(s))' = Staged(s) \cup ({b} \cap Buffers)
  <2>1. ASSUME NEW x \in Buffers
        PROVE  (\E i \in 1 .. Inputs : inputs'[s][i] = x) <=>
                 (\E i \in 1 .. Inputs : inputs[s][i] = x) \/ x = b
    <3>1. x # Unprepared
      BY MarkersDiffer
    <3> QED
      BY <1>2, <1>6, <1>10, <3>1
  <2> QED
    BY <2>1 DEF Staged
<1> QED
  BY <1>2, <1>3, <1>4, <1>6, <1>9, <1>10, <1>11 DEF Id, k

LEMMA PrepareOperator ==
  ASSUME NEW s \in Sessions, OperatorInv, FaultInv', OperatorFaultsOnly,
         Prepare(s)
  PROVE  OperatorInv'
<1>1. /\ run[s] \in Runs /\ stream[s] \in Seq(Ops) /\ StreamInv(s)
      /\ ContentInv(s) /\ PoolInv /\ DOMAIN stream = Sessions
      /\ Id(s) \in Sessions \X Nat /\ Id(s)[1] = s /\ FaultInv
  BY SessionFacts
<1>2. CASE PrepareInPlace(s)
  <2>1. PICK b \in {Empty, Aliased} : Prepared(s, b)
    BY <1>2 DEF PrepareInPlace
  <2>2. Preparing(s) /\ UNCHANGED <<g_gpu_buffer_pool, allocated, gpu>>
    BY <1>2 DEF PrepareInPlace
  <2>3. b \notin Buffers
    BY MarkersDiffer
  <2>4. /\ run'[s].pc = run[s].pc /\ (Id(s))' = Id(s) /\ (InputsInv(s))'
        /\ \A r \in Sessions \ {s} : run'[r] = run[r] /\ inputs'[r] = inputs[r]
        /\ (Staged(s))' = Staged(s)
        /\ \A i \in 1 .. Inputs : inputs'[s][i] \in {b, inputs[s][i]}
    BY <2>1, <2>2, <2>3, PreparedInputs
  <2>5. PoolInv'
    BY <1>1, <2>2, <2>3, <2>4 DEF PoolInv, gpu
  <2>6. (StreamInv(s))' /\ (ContentInv(s))'
    BY <1>1, <2>2, <2>4 DEF StreamInv, ContentInv, gpu
  <2> QED
    BY <2>2, <2>4, <2>5, <2>6, StepFramed DEF gpu
<1>3. CASE PrepareStaged(s)
  <2>1. PICK b \in Buffers \cup {Wild} : /\ PoolAlloc(b) /\ Prepared(s, b)
                                         /\ Enqueue(s, Op(s, "h2d", {b}))
    BY <1>3 DEF PrepareStaged
  <2>2. Preparing(s) /\ UNCHANGED content
    BY <1>3 DEF PrepareStaged
  <2>3. /\ b \in Buffers
        /\ \A r \in Sessions, i \in 1 .. Inputs : inputs[r][i] # b
        /\ g_gpu_buffer_pool' \subseteq g_gpu_buffer_pool \ {b}
        /\ allocated' = allocated \cup {b} /\ g_gpu_buffer_pool' \subseteq allocated
    BY <1>1, <2>1 DEF PoolAlloc, PoolInv
  <2>4. /\ run'[s].pc = "prepare" /\ run[s].pc = "prepare"
        /\ (Id(s))' = Id(s) /\ (InputsInv(s))'
        /\ \A r \in Sessions \ {s} : run'[r] = run[r] /\ inputs'[r] = inputs[r]
        /\ (Staged(s))' = Staged(s) \cup {b}
        /\ run[s].next \in 1 .. Inputs
        /\ \A i \in 1 .. Inputs :
             inputs'[s][i] = IF i = run[s].next THEN b ELSE inputs[s][i]
    BY <2>1, <2>2, <2>3, PreparedInputs
  <2>5. PoolInv'
    <3>1. /\ g_gpu_buffer_pool' \subseteq allocated' /\ allocated' \subseteq Buffers
          /\ DOMAIN content' = Buffers
      BY <1>1, <2>2, <2>3 DEF PoolInv
    <3>2. ASSUME NEW q \in Sessions, NEW i \in 1 .. Inputs,
                 inputs'[q][i] \in Buffers
          PROVE  /\ inputs'[q][i] \in allocated' \ g_gpu_buffer_pool'
                 /\ \/ inputs'[q][i] = b /\ q = s /\ i = run[s].next
                    \/ inputs'[q][i] # b /\ inputs'[q][i] = inputs[q][i]
      BY <1>1, <2>3, <2>4, <3>2 DEF PoolInv
    <3>3. ASSUME NEW q \in Sessions, NEW r \in Sessions,
                 NEW i \in 1 .. Inputs, NEW j \in 1 .. Inputs,
                 inputs'[q][i] \in Buffers, inputs'[q][i] = inputs'[r][j]
          PROVE  q = r /\ i = j
      <4>1. inputs'[r][j] \in Buffers
        BY <3>3
      <4>2. CASE inputs'[q][i] = b
        <5>1. q = s /\ i = run[s].next
          BY <3>2, <3>3, <4>2
        <5>2. r = s /\ j = run[s].next
          BY <3>2, <3>3, <4>1, <4>2
        <5> QED
          BY <5>1, <5>2
      <4>3. CASE inputs'[q][i] # b
        <5>1. inputs'[q][i] = inputs[q][i] /\ inputs'[r][j] = inputs[r][j]
          BY <3>2, <3>3, <4>1, <4>3
        <5>2. inputs[q][i] \in Buffers /\ inputs[q][i] = inputs[r][j]
          BY <3>3, <5>1
        <5>3. PoolInv
          BY <1>1
        <5> QED
          BY <5>2, <5>3 DEF PoolInv
      <4> QED
        BY <4>2, <4>3
    <3> QED
      BY <3>1, <3>2, <3>3 DEF PoolInv
  <2> DEFINE op == Op(s, "h2d", {b})
  <2>6. op \in Ops /\ op.kind = "h2d" /\ op.id = Id(s) /\ op.bufs = {b}
    BY <1>1, OpTyped DEF Op
  <2>7. /\ stream'[s] = Append(stream[s], op)
        /\ \A r \in Sessions \ {s} : stream'[r] = stream[r]
    BY <1>1, <2>1 DEF Enqueue
  <2> HIDE DEF op
  <2>8. (StreamInv(s))'
    <3>1. WorkFits(stream[s], s, Id(s), "prepare", Staged(s) \cup {b})
      BY <1>1, <2>4, FitsMove DEF StreamInv, Working
    <3>2. WorkFits(Append(stream[s], op), s, Id(s), "prepare", Staged(s) \cup {b})
      BY <1>1, <2>6, <3>1, FitsAppend DEF Working
    <3> QED
      BY <2>4, <2>7, <3>2 DEF StreamInv
  <2>9. (ContentInv(s))'
    <3>1. InputsComing(stream[s], content, Id(s), Staged(s))
      BY <1>1, <2>4 DEF ContentInv, Working
    <3>2. InputsComing(Append(stream[s], op), content, Id(s), Staged(s) \cup {b})
      BY <1>1, <2>6, <3>1, ComingAppend
    <3> QED
      BY <2>2, <2>4, <2>7, <3>2 DEF ContentInv
  <2> QED
    BY <2>2, <2>4, <2>5, <2>7, <2>8, <2>9, StepFramed
<1>4. ~PrepareCopyFails(s) /\ ~PrepareFails(s)
  BY DEF OperatorFaultsOnly, PrepareCopyFails, PrepareFails
<1> QED
  BY <1>2, <1>3, <1>4 DEF Prepare

LEMMA ResetErrorFlagOperator ==
  ASSUME NEW s \in Sessions, OperatorInv, FaultInv', OperatorFaultsOnly,
         ResetErrorFlag(s)
  PROVE  OperatorInv'
<1>1. /\ run[s] \in Runs /\ stream[s] \in Seq(Ops) /\ StreamInv(s)
      /\ ContentInv(s) /\ InputsInv(s) /\ DOMAIN stream = Sessions
      /\ Id(s) \in Sessions \X Nat /\ Id(s)[1] = s /\ FaultInv
  BY SessionFacts
<1>2. /\ run[s].pc = "prepare" /\ run[s].next > Inputs
      /\ Enqueue(s, Op(s, "memset", {})) /\ Goto(s, "graph")
      /\ UNCHANGED <<g_gpu_buffer_pool, allocated, content, inputs>>
  BY DEF ResetErrorFlag, Running, OperatorFaultsOnly
<1>3. /\ run'[s].pc = "graph" /\ run'[s].n = run[s].n
      /\ \A r \in Sessions \ {s} : run'[r] = run[r]
  BY <1>1, <1>2, GotoRun DEF PCs
<1> DEFINE op == Op(s, "memset", {})
<1>4. op \in Ops /\ op.kind = "memset" /\ op.id = Id(s) /\ op.bufs = {}
  BY <1>1, OpTyped DEF Op
<1>5. /\ stream'[s] = Append(stream[s], op)
      /\ \A r \in Sessions \ {s} : stream'[r] = stream[r]
  BY <1>1, <1>2 DEF Enqueue
<1> HIDE DEF op
<1>6. (Id(s))' = Id(s) /\ (Staged(s))' = Staged(s)
  BY <1>2, <1>3 DEF Id, Staged
<1>7. (InputsInv(s))'
  <2>1. \A i \in 1 .. Inputs : i < run[s].next
    BY <1>1, <1>2, CountsAreNumbers DEF Runs
  <2> QED
    BY <1>1, <1>2, <1>3, <2>1 DEF InputsInv
<1>8. (StreamInv(s))'
  <2>1. WorkFits(stream[s], s, Id(s), "graph", Staged(s))
    BY <1>1, <1>2, FitsMove DEF StreamInv, Working
  <2>2. WorkFits(Append(stream[s], op), s, Id(s), "graph", Staged(s))
    BY <1>1, <1>4, <2>1, FitsAppend
  <2> QED
    BY <1>3, <1>5, <1>6, <2>2 DEF StreamInv
<1>9. (ContentInv(s))'
  <2>1. InputsComing(stream[s], content, Id(s), Staged(s))
    BY <1>1, <1>2 DEF ContentInv, Working
  <2>2. InputsComing(Append(stream[s], op), content, Id(s), Staged(s))
    BY <1>1, <1>4, <2>1, ComingAppend
  <2> QED
    BY <1>2, <1>5, <1>6, <2>2 DEF ContentInv
<1> QED
  BY <1>2, <1>3, <1>5, <1>7, <1>8, <1>9, BuffersKept

\* An operator queues op, which reads no more than the staged inputs.
LEMMA OperatorQueued ==
  ASSUME NEW s \in Sessions, OperatorInv, FaultInv', run[s].pc = "graph",
         NEW op \in Ops, op.kind \in {"kernel", "raise", "memrefCopy"},
         op.id = Id(s), op.bufs \subseteq Staged(s), Enqueue(s, op),
         run'[s].pc \in {"graph", "raising"}, run'[s].n = run[s].n,
         \A r \in Sessions \ {s} : run'[r] = run[r],
         UNCHANGED <<g_gpu_buffer_pool, allocated, content, inputs>>
  PROVE  OperatorInv'
<1>1. /\ stream[s] \in Seq(Ops) /\ StreamInv(s) /\ ContentInv(s)
      /\ InputsInv(s) /\ DOMAIN stream = Sessions /\ Id(s)[1] = s
  BY SessionFacts
<1>2. /\ stream'[s] = Append(stream[s], op)
      /\ \A r \in Sessions \ {s} : stream'[r] = stream[r]
  BY <1>1 DEF Enqueue
<1>3. (Id(s))' = Id(s) /\ (Staged(s))' = Staged(s)
  BY DEF Id, Staged
<1>4. (InputsInv(s))'
  BY <1>1 DEF InputsInv
<1>5. (StreamInv(s))'
  <2>1. WorkFits(stream[s], s, Id(s), run'[s].pc, Staged(s))
    BY <1>1, FitsMove DEF StreamInv, Working
  <2>2. WorkFits(Append(stream[s], op), s, Id(s), run'[s].pc, Staged(s))
    BY <1>1, <2>1, FitsAppend DEF Working
  <2> QED
    BY <1>2, <1>3, <2>2 DEF StreamInv
<1>6. (ContentInv(s))'
  <2>1. InputsComing(stream[s], content, Id(s), Staged(s))
    BY <1>1 DEF ContentInv, Working
  <2>2. InputsComing(Append(stream[s], op), content, Id(s), Staged(s))
    BY <1>1, <2>1, ComingAppend
  <2> QED
    BY <1>2, <1>3, <2>2 DEF ContentInv
<1> QED
  BY <1>2, <1>4, <1>5, <1>6, BuffersKept

\* A session's own progress, its stream untouched and its inputs kept.
LEMMA WorkKept ==
  ASSUME NEW s \in Sessions, OperatorInv, FaultInv',
         run[s].pc \in {"graph", "raising"},
         run'[s].pc \in {"graph", "raising"}, run'[s].n = run[s].n,
         \A r \in Sessions \ {s} : run'[r] = run[r],
         UNCHANGED <<g_gpu_buffer_pool, allocated, gpu, inputs>>
  PROVE  OperatorInv'
<1>1. StreamInv(s) /\ ContentInv(s) /\ InputsInv(s)
  BY SessionFacts
<1>2. (Id(s))' = Id(s) /\ (Staged(s))' = Staged(s)
  BY DEF Id, Staged
<1>3. (InputsInv(s))'
  BY <1>1 DEF InputsInv
<1>4. (StreamInv(s))'
  <2>1. WorkFits(stream[s], s, Id(s), run'[s].pc, Staged(s))
    BY <1>1, FitsMove DEF StreamInv, Working
  <2> QED
    BY <1>2, <2>1 DEF StreamInv, gpu
<1>5. (ContentInv(s))'
  BY <1>1, <1>2 DEF ContentInv, Working, gpu
<1> QED
  BY <1>3, <1>4, <1>5, BuffersKept DEF gpu

\* The same, when the operator fails before it queues anything.
LEMMA OperatorDone ==
  ASSUME NEW s \in Sessions, OperatorInv, FaultInv', run[s].pc = "graph",
         NEW task, NEW failed \in BOOLEAN, NEW reported \in BOOLEAN,
         Done(s, task, failed, reported),
         UNCHANGED <<g_gpu_buffer_pool, allocated, content, inputs>>,
         \/ UNCHANGED gpu
         \/ \E op \in Ops :
              /\ op.kind \in {"kernel", "raise", "memrefCopy"}
              /\ op.id = Id(s) /\ op.bufs \subseteq Staged(s)
              /\ Enqueue(s, op)
  PROVE  OperatorInv'
<1>1. FaultInv
  BY SessionFacts
<1>2. /\ run'[s].pc = run[s].pc /\ run'[s].n = run[s].n
      /\ \A r \in Sessions \ {s} : run'[r] = run[r]
  <2>1. run[s] \in Runs /\ DOMAIN run = Sessions
    BY <1>1 DEF FaultInv, DomainsInv, SessionInv
  <2>2. /\ run'[s] = [run[s] EXCEPT !.todo = @ \ {task},
                                    !.failed = @ \/ failed,
                                    !.reported = @ \/ reported]
        /\ \A r \in Sessions \ {s} : run'[r] = run[r]
    BY <2>1 DEF Done
  <2> QED
    BY <2>1, <2>2 DEF Runs
<1>3. CASE UNCHANGED gpu
  BY <1>2, <1>3, WorkKept
<1>4. ASSUME NEW op \in Ops, op.kind \in {"kernel", "raise", "memrefCopy"},
             op.id = Id(s), op.bufs \subseteq Staged(s), Enqueue(s, op)
      PROVE  OperatorInv'
  BY <1>2, <1>4, OperatorQueued
<1> QED
  BY <1>3, <1>4

LEMMA GraphOperator ==
  ASSUME NEW s \in Sessions, OperatorInv, FaultInv', OperatorFaultsOnly,
         Graph(s)
  PROVE  OperatorInv'
<1>1. /\ UNCHANGED <<g_gpu_buffer_pool, allocated, inputs>>
      /\ FaultInv /\ run[s] \in Runs /\ DOMAIN run = Sessions
      /\ Id(s) \in Sessions \X Nat
  BY SessionFacts DEF Graph
<1>2. CASE LaunchKernel(s)
  <2>1. PICK bad \in BOOLEAN :
          /\ Enqueue(s, [Op(s, "kernel", Staged(s)) EXCEPT !.bad = bad])
          /\ Done(s, "kernel", bad, bad)
    BY <1>2 DEF LaunchKernel
  <2>2. run[s].pc = "graph" /\ UNCHANGED content
    BY <1>2 DEF LaunchKernel, Doing, Running
  <2> DEFINE op == [Op(s, "kernel", Staged(s)) EXCEPT !.bad = bad]
  <2>3. op \in Ops /\ op.kind = "kernel" /\ op.id = Id(s) /\ op.bufs = Staged(s)
    BY <1>1, StagedBuffers DEF Op, Ops
  <2> HIDE DEF op
  <2>4. Enqueue(s, op)
    BY <2>1 DEF op
  <2> QED
    BY <1>1, <2>1, <2>2, <2>3, <2>4, OperatorDone
<1>3. CASE DropStatus(s)
  BY <1>1, <1>3, OperatorDone DEF DropStatus, Doing, Running, gpu
<1>4. CASE SetErrorFlag(s)
  <2>1. /\ run[s].pc = "graph" /\ Enqueue(s, Op(s, "raise", {}))
        /\ UNCHANGED content
    BY <1>4 DEF SetErrorFlag, Doing, Running, OperatorFaultsOnly
  <2>2. /\ Op(s, "raise", {}) \in Ops /\ Op(s, "raise", {}).kind = "raise"
        /\ Op(s, "raise", {}).id = Id(s) /\ Op(s, "raise", {}).bufs = {}
    BY <1>1, OpTyped DEF Op
  <2>3. /\ run'[s].pc = "raising" /\ run'[s].n = run[s].n
        /\ \A r \in Sessions \ {s} : run'[r] = run[r]
    <3>1. /\ run'[s] = [run[s] EXCEPT !.pc = "raising", !.failed = TRUE,
                                      !.todo = @ \ {"kernel"}]
          /\ \A r \in Sessions \ {s} : run'[r] = run[r]
      BY <1>1, <1>4 DEF SetErrorFlag, OperatorFaultsOnly
    <3> QED
      BY <1>1, <3>1 DEF Runs
  <2> QED
    BY <1>1, <2>1, <2>2, <2>3, OperatorQueued
<1>5. CASE ErrorFlagSet(s)
  <2>1. /\ run[s].pc = "raising" /\ UNCHANGED gpu
        /\ run' = [run EXCEPT ![s].pc = "graph", ![s].reported = TRUE]
    BY <1>5 DEF ErrorFlagSet, Running
  <2>2. /\ run'[s].pc = "graph" /\ run'[s].n = run[s].n
        /\ \A r \in Sessions \ {s} : run'[r] = run[r]
    BY <1>1, <2>1 DEF Runs
  <2> QED
    BY <1>1, <2>1, <2>2, WorkKept
<1>6. CASE MemrefCopy(s)
  <2> DEFINE op == Op(s, "memrefCopy", {})
  <2>1. /\ run[s].pc = "graph" /\ UNCHANGED <<content, device_error_flag>>
        /\ Enqueue(current_stream[run[s].thread], op) \/ UNCHANGED stream
    BY <1>6 DEF MemrefCopy, Doing, Running
  <2>2. PICK failed \in BOOLEAN : Done(s, "memrefCopy", failed, FALSE)
    BY <1>6 DEF MemrefCopy
  <2>3. current_stream[run[s].thread] = s
    BY <1>1, <2>1 DEF FaultInv, SessionInv, SlotInv
  <2>4. /\ op \in Ops /\ op.kind = "memrefCopy" /\ op.id = Id(s)
        /\ op.bufs \subseteq Staged(s)
    BY <1>1, OpTyped DEF Op
  <2> HIDE DEF op
  <2>5. Enqueue(s, op) \/ UNCHANGED gpu
    BY <2>1, <2>3 DEF gpu
  <2> QED
    BY <1>1, <2>1, <2>2, <2>4, <2>5, OperatorDone
<1>7. CASE AllocOutput(s)
  <2>1. PICK o : Done(s, o, FALSE, FALSE)
    BY <1>7 DEF AllocOutput
  <2>2. run[s].pc = "graph" /\ UNCHANGED gpu
    BY <1>7 DEF AllocOutput, Doing, Running
  <2> QED
    BY <1>1, <2>1, <2>2, OperatorDone DEF gpu
<1> QED
  BY <1>2, <1>3, <1>4, <1>5, <1>6, <1>7 DEF Graph

LEMMA StreamSyncOperator ==
  ASSUME NEW s \in Sessions, OperatorInv, FaultInv', OperatorFaultsOnly,
         StreamSync(s)
  PROVE  OperatorInv'
<1>1. /\ run[s].pc = "graph" /\ stream[s] = <<>> /\ Goto(s, "read")
      /\ UNCHANGED <<g_gpu_buffer_pool, allocated, gpu, inputs>>
  BY DEF StreamSync, Running, OperatorFaultsOnly
<1>2. InputsInv(s) /\ FaultInv
  BY SessionFacts
<1>3. /\ run'[s].pc = "read" /\ \A r \in Sessions \ {s} : run'[r] = run[r]
  BY <1>1, <1>2, GotoRun DEF PCs
<1>4. (InputsInv(s))'
  BY <1>1, <1>2, <1>3 DEF InputsInv
<1>5. (StreamInv(s))'
  BY <1>1, FitsEmpty DEF StreamInv, gpu
<1>6. (ContentInv(s))'
  BY <1>3 DEF ContentInv, Working
<1> QED
  BY <1>1, <1>3, <1>4, <1>5, <1>6, BuffersKept DEF gpu

LEMMA ReadErrorFlagOperator ==
  ASSUME NEW s \in Sessions, OperatorInv, FaultInv', OperatorFaultsOnly,
         ReadErrorFlag(s)
  PROVE  OperatorInv'
<1>1. /\ run[s].pc = "read" /\ stream[s] = <<>>
      /\ UNCHANGED <<g_gpu_buffer_pool, allocated, content, inputs>>
      /\ \/ Goto(s, "error") /\ UNCHANGED stream
         \/ Enqueue(s, Op(s, "memset", {})) /\ Goto(s, "free")
  BY DEF ReadErrorFlag, Running, OperatorFaultsOnly
<1>2. /\ InputsInv(s) /\ FaultInv /\ DOMAIN stream = Sessions
      /\ stream[s] \in Seq(Ops) /\ Id(s) \in Sessions \X Nat /\ Id(s)[1] = s
  BY SessionFacts
<1>3. /\ run'[s].pc \in {"error", "free"} /\ run'[s].n = run[s].n
      /\ \A r \in Sessions \ {s} : run'[r] = run[r]
  BY <1>1, <1>2, GotoRun DEF PCs
<1>4. (InputsInv(s))'
  BY <1>1, <1>2, <1>3 DEF InputsInv
<1>5. /\ (StreamInv(s))'
      /\ \A r \in Sessions \ {s} : stream'[r] = stream[r]
  <2>1. CASE UNCHANGED stream
    BY <1>1, <2>1, FitsEmpty DEF StreamInv
  <2>2. CASE Enqueue(s, Op(s, "memset", {}))
    <3> DEFINE op == Op(s, "memset", {})
    <3>1. op \in Ops /\ op.kind = "memset" /\ op.id = Id(s) /\ op.bufs = {}
      BY <1>2, OpTyped DEF Op
    <3>2. /\ stream'[s] = Append(stream[s], op)
          /\ \A r \in Sessions \ {s} : stream'[r] = stream[r]
      BY <1>2, <2>2 DEF Enqueue
    <3> HIDE DEF op
    <3>3. WorkFits(stream[s], s, Id(s), run'[s].pc, Staged(s))
      BY <1>1, FitsEmpty
    <3>4. WorkFits(Append(stream[s], op), s, Id(s), run'[s].pc, Staged(s))
      BY <1>2, <1>3, <3>1, <3>3, FitsAppend
    <3>5. (Id(s))' = Id(s) /\ (Staged(s))' = Staged(s)
      BY <1>1, <1>3 DEF Id, Staged
    <3> QED
      BY <3>2, <3>4, <3>5 DEF StreamInv
  <2> QED
    BY <1>1, <2>1, <2>2
<1>6. (ContentInv(s))'
  BY <1>3 DEF ContentInv, Working
<1> QED
  BY <1>1, <1>3, <1>4, <1>5, <1>6, BuffersKept

LEMMA FreeInputsOperator ==
  ASSUME NEW s \in Sessions, OperatorInv, FaultInv', FreeInputs(s)
  PROVE  OperatorInv'
<1>1. /\ run[s].pc \in {"free", "error"} /\ UNCHANGED <<allocated, gpu>>
      /\ inputs' = [inputs EXCEPT ![s] = [i \in 1 .. Inputs |-> Unprepared]]
      /\ DOMAIN run = Sessions /\ DOMAIN inputs = Sessions
      /\ run[s] \in Runs /\ InputsInv(s) /\ StreamInv(s) /\ PoolInv
  BY SessionFacts DEF FreeInputs, Running
<1>2. run' = [run EXCEPT ![s].pc = "returned",
                         ![s].ret = IF run[s].pc = "error" THEN 1 ELSE 0]
  BY DEF FreeInputs
<1>3. /\ run'[s].pc = "returned" /\ \A r \in Sessions \ {s} : run'[r] = run[r]
  BY <1>1, <1>2 DEF Runs
<1>4. /\ inputs'[s] = [i \in 1 .. Inputs |-> Unprepared]
      /\ \A r \in Sessions \ {s} : inputs'[r] = inputs[r]
  BY <1>1
<1>5. /\ inputs[s] \in [1 .. Inputs -> Buffers \cup {Unprepared, Empty, Aliased}]
      /\ \A i \in 1 .. Inputs : inputs[s][i] # Unprepared
  BY <1>1 DEF InputsInv
<1>6. g_gpu_buffer_pool' = g_gpu_buffer_pool \cup Staged(s)
  <2>1. {inputs[s][i] : i \in 1 .. Inputs} \cap (Buffers \cup {Wild}) = Staged(s)
    BY <1>5, MarkersDiffer DEF Staged
  <2>2. FreedInputs(s) = {Staged(s)}
    BY <1>5, <2>1 DEF FreedInputs
  <2>3. \E freed \in FreedInputs(s) :
          g_gpu_buffer_pool' = g_gpu_buffer_pool \cup freed
    BY DEF FreeInputs
  <2> QED
    BY <2>2, <2>3
<1>7. PoolInv'
  <2>1. Staged(s) \subseteq allocated
    BY <1>1 DEF PoolInv, Staged
  <2>2. /\ g_gpu_buffer_pool' \subseteq allocated' /\ allocated' \subseteq Buffers
        /\ DOMAIN content' = Buffers
    BY <1>1, <1>6, <2>1 DEF PoolInv, gpu
  <2>3. ASSUME NEW q \in Sessions, NEW i \in 1 .. Inputs,
               inputs'[q][i] \in Buffers
        PROVE  q # s /\ inputs'[q][i] = inputs[q][i]
    BY <1>4, <2>3, MarkersDiffer
  <2>4. ASSUME NEW q \in Sessions, NEW i \in 1 .. Inputs,
               inputs'[q][i] \in Buffers
        PROVE  inputs'[q][i] \in allocated' \ g_gpu_buffer_pool'
    <3>1. inputs[q][i] \notin Staged(s)
      BY <1>1, <2>3, <2>4 DEF PoolInv, Staged
    <3> QED
      BY <1>1, <1>6, <2>3, <2>4, <3>1 DEF PoolInv
  <2>5. ASSUME NEW q \in Sessions, NEW r \in Sessions,
               NEW i \in 1 .. Inputs, NEW j \in 1 .. Inputs,
               inputs'[q][i] \in Buffers, inputs'[q][i] = inputs'[r][j]
        PROVE  q = r /\ i = j
    <3>1. inputs'[r][j] \in Buffers
      BY <2>5
    <3>2. inputs'[q][i] = inputs[q][i] /\ inputs'[r][j] = inputs[r][j]
      BY <2>3, <2>5, <3>1
    <3>3. inputs[q][i] \in Buffers /\ inputs[q][i] = inputs[r][j]
      BY <2>5, <3>2
    <3>4. PoolInv
      BY <1>1
    <3> QED
      BY <3>3, <3>4 DEF PoolInv
  <2> QED
    BY <2>2, <2>4, <2>5 DEF PoolInv
<1>8. (InputsInv(s))'
  BY <1>3, <1>4 DEF InputsInv
<1>9. (StreamInv(s))'
  <2>1. run[s].pc \notin Working
    BY <1>1 DEF Working
  <2> QED
    BY <1>1, <2>1, FitsIdle DEF StreamInv, gpu
<1>10. (ContentInv(s))'
  BY <1>3 DEF ContentInv, Working
<1> QED
  BY <1>1, <1>3, <1>4, <1>7, <1>8, <1>9, <1>10, StepFramed DEF gpu

LEMMA ReturnOperator ==
  ASSUME NEW s \in Sessions, OperatorInv, FaultInv', Return(s)
  PROVE  OperatorInv'
<1>1. /\ run[s].pc = "returned" /\ Goto(s, "idle")
      /\ UNCHANGED <<g_gpu_buffer_pool, allocated, gpu, inputs>>
      /\ FaultInv /\ InputsInv(s) /\ StreamInv(s)
  BY SessionFacts DEF Return, Finish, Running
<1>2. /\ run'[s].pc = "idle" /\ \A r \in Sessions \ {s} : run'[r] = run[r]
  BY <1>1, GotoRun DEF PCs
<1>3. (InputsInv(s))'
  BY <1>1, <1>2 DEF InputsInv
<1>4. (StreamInv(s))'
  <2>1. run[s].pc \notin Working
    BY <1>1 DEF Working
  <2> QED
    BY <1>1, <2>1, FitsIdle DEF StreamInv, gpu
<1>5. (ContentInv(s))'
  BY <1>2 DEF ContentInv, Working
<1> QED
  BY <1>1, <1>2, <1>3, <1>4, <1>5, BuffersKept DEF gpu

LEMMA GpuOperator ==
  ASSUME NEW s \in Sessions, OperatorInv, FaultInv', Gpu(s)
  PROVE  OperatorInv'
<1> DEFINE op == Head(stream[s])
<1>1. /\ stream[s] # <<>> /\ stream[s] \in Seq(Ops) /\ DOMAIN stream = Sessions
      /\ UNCHANGED <<g_gpu_buffer_pool, allocated, inputs, run>>
      /\ InputsInv(s) /\ StreamInv(s) /\ ContentInv(s) /\ PoolInv
      /\ content' = [b \in Buffers |-> IF op.kind = "h2d" /\ b \in op.bufs
                                         THEN op.id ELSE content[b]]
  BY SessionFacts DEF Gpu
<1>2. /\ stream'[s] = Tail(stream[s])
      /\ \A r \in Sessions \ {s} : stream'[r] = stream[r]
  BY <1>1 DEF Gpu
<1>3. /\ op.bufs \subseteq Staged(s)
      /\ op.kind # "memset" => op.id = Id(s)
  <2>1. 1 \in 1 .. Len(stream[s]) /\ op = stream[s][1]
    BY <1>1
  <2> QED
    BY <1>1, <2>1 DEF StreamInv, WorkFits
<1> HIDE DEF op
<1>4. (Id(s))' = Id(s) /\ (Staged(s))' = Staged(s) /\ (PoolInv)'
  BY <1>1 DEF Id, Staged, PoolInv
<1>5. ASSUME NEW r \in Sessions, r # s, NEW b \in Staged(r)
      PROVE  content'[b] = content[b]
  <2>1. b \notin Staged(s) /\ b \in Buffers
    BY <1>1, <1>5 DEF PoolInv, Staged
  <2> QED
    BY <1>1, <1>3, <2>1
<1>6. (InputsInv(s))'
  BY <1>1 DEF InputsInv
<1>7. (StreamInv(s))'
  BY <1>1, <1>2, <1>4, FitsTail DEF StreamInv
<1>8. (ContentInv(s))'
  <2> SUFFICES ASSUME run[s].pc \in Working
               PROVE  InputsComing(Tail(stream[s]), content', Id(s), Staged(s))
    BY <1>1, <1>2, <1>4 DEF ContentInv
  <2>1. InputsComing(stream[s], content, Id(s), Staged(s))
    BY <1>1 DEF ContentInv
  <2>2. \A b \in Staged(s) :
          content'[b] = IF op.kind = "h2d" /\ b \in op.bufs
                          THEN op.id ELSE content[b]
    BY <1>1 DEF Staged
  <2> QED
    BY <1>1, <1>3, <2>1, <2>2, ComingTail DEF op
<1> QED
  BY <1>1, <1>2, <1>4, <1>5, <1>6, <1>7, <1>8, StepFramed

LEMMA OperatorInvInit == Init => OperatorInv
<1> SUFFICES ASSUME Init PROVE OperatorInv
  OBVIOUS
<1>1. FaultInv
  BY FaultInvInit
<1>2. \A s \in Sessions, i \in 1 .. Inputs : inputs[s][i] = Unprepared
  BY DEF Init
<1>3. PoolInv
  BY <1>2, MarkersDiffer DEF Init, PoolInv
<1>4. ASSUME NEW s \in Sessions
      PROVE  InputsInv(s) /\ StreamInv(s) /\ ContentInv(s)
  <2>1. /\ run[s].pc = "idle" /\ stream[s] = <<>>
        /\ inputs[s] = [i \in 1 .. Inputs |-> Unprepared]
    BY DEF Init
  <2>2. InputsInv(s)
    BY <2>1 DEF InputsInv
  <2>3. StreamInv(s)
    BY <2>1, FitsEmpty DEF StreamInv
  <2>4. ContentInv(s)
    BY <2>1 DEF ContentInv, Working
  <2> QED
    BY <2>2, <2>3, <2>4
<1> QED
  BY <1>1, <1>3, <1>4 DEF OperatorInv

LEMMA OperatorInvStep ==
  ASSUME OperatorFaultsOnly, OperatorInv, [Next]_vars
  PROVE  OperatorInv'
<1>1. FaultInv'
  BY FaultInvStep DEF OperatorInv
<1>2. ASSUME NEW s \in Sessions, NEW t \in Threads, Begin(t, s)
      PROVE  OperatorInv'
  BY <1>1, <1>2, BeginOperator
<1>3. ASSUME NEW s \in Sessions,
             \/ Prepare(s) \/ ResetErrorFlag(s) \/ Graph(s) \/ StreamSync(s)
             \/ ReadErrorFlag(s) \/ FreeInputs(s) \/ Return(s) \/ Gpu(s)
      PROVE  OperatorInv'
  BY <1>1, <1>3, PrepareOperator, ResetErrorFlagOperator, GraphOperator,
     StreamSyncOperator, ReadErrorFlagOperator, FreeInputsOperator,
     ReturnOperator, GpuOperator
<1>4. CASE UNCHANGED vars
  <2>1. PoolInv'
    BY <1>4 DEF OperatorInv, PoolInv, vars, gpu
  <2>2. ASSUME NEW s \in Sessions
        PROVE  (InputsInv(s))' /\ (StreamInv(s))' /\ (ContentInv(s))'
    <3>1. UNCHANGED <<run, inputs, stream, content>>
      BY <1>4 DEF vars, gpu
    <3>2. InputsInv(s) /\ StreamInv(s) /\ ContentInv(s)
      BY DEF OperatorInv
    <3>3. (Id(s))' = Id(s) /\ (Staged(s))' = Staged(s)
      BY <3>1 DEF Id, Staged
    <3>4. (InputsInv(s))'
      BY <3>1, <3>2 DEF InputsInv
    <3>5. (StreamInv(s))'
      BY <3>1, <3>2, <3>3 DEF StreamInv
    <3>6. (ContentInv(s))'
      BY <3>1, <3>2, <3>3 DEF ContentInv
    <3> QED
      BY <3>4, <3>5, <3>6
  <2> QED
    BY <1>1, <2>1, <2>2 DEF OperatorInv
<1> QED
  BY <1>2, <1>3, <1>4 DEF Next

LEMMA OperatorInvariant ==
  ASSUME OperatorFaultsOnly
  PROVE  Spec => []OperatorInv
<1>1. Init => OperatorInv
  BY OperatorInvInit
<1>2. OperatorInv /\ [Next]_vars => OperatorInv'
  BY OperatorInvStep
<1> QED
  BY <1>1, <1>2, PTL DEF Spec

\* While nothing but operators fails the state is of its type; above all the
\* pool of staging buffers holds addresses of its own only.
THEOREM ComputeTypes ==
  ASSUME OperatorFaultsOnly
  PROVE  Spec => []TypeOK
<1>1. ASSUME OperatorInv PROVE TypeOK
  <2>1. ASSUME NEW s \in Sessions
        PROVE  /\ inputs[s] \in
                    [1 .. Inputs -> Buffers \cup {Unprepared, Empty, Aliased}]
               /\ run[s].pc \in PCs /\ run[s].n \in 0 .. MaxRuns
               /\ run[s].thread \in Threads \cup {None}
               /\ output_allocator[s] \in 1 .. MaxRuns \cup {None}
    <3>1. run[s] \in Runs /\ SlotInv(s) /\ InputsInv(s)
      BY <1>1 DEF OperatorInv, FaultInv, SessionInv
    <3>2. /\ run[s].pc \in PCs /\ run[s].n \in 0 .. MaxRuns
          /\ run[s].thread \in Threads \cup {None}
      BY <3>1 DEF Runs
    <3>3. run[s].n > 0 => run[s].n \in 1 .. MaxRuns
      BY <3>2, CountsAreNumbers
    <3> QED
      BY <3>1, <3>2, <3>3 DEF SlotInv, InputsInv
  <2>2. device_error_flag \in [Sessions -> BOOLEAN]
    BY <1>1 DEF OperatorInv, FaultInv, DomainsInv, SessionInv
  <2> QED
    BY <1>1, <2>1, <2>2
    DEF OperatorInv, FaultInv, DomainsInv, PoolInv, TypeOK
<1> QED
  BY <1>1, OperatorInvariant, PTL

\* A staging buffer belongs to the pool or to one input of one inference, and
\* no queued GPU work touches a buffer of the pool.
THEOREM ComputeStagingExclusive ==
  ASSUME OperatorFaultsOnly
  PROVE  Spec => []StagingExclusive
<1>1. ASSUME OperatorInv PROVE StagingExclusive
  <2>1. ASSUME NEW s \in Sessions, NEW k \in 1 .. Len(stream[s])
        PROVE  stream[s][k].bufs \cap g_gpu_buffer_pool = {}
    <3>1. stream[s][k].bufs \subseteq Staged(s)
      BY <1>1, <2>1 DEF OperatorInv, StreamInv, WorkFits
    <3>2. Staged(s) \cap g_gpu_buffer_pool = {}
      BY <1>1 DEF OperatorInv, PoolInv, Staged
    <3> QED
      BY <3>1, <3>2
  <2>2. \A s \in Sessions, k \in 1 .. Inputs + 6 :
          k <= Len(stream[s]) => k \in 1 .. Len(stream[s])
    <3>1. \A s \in Sessions : Len(stream[s]) \in Nat
      BY <1>1 DEF OperatorInv, FaultInv, SessionInv
    <3> QED
      BY <3>1, CountsAreNumbers
  <2> QED
    BY <1>1, <2>1, <2>2 DEF OperatorInv, PoolInv, StagingExclusive
<1> QED
  BY <1>1, OperatorInvariant, PTL

\* A kernel finds the inputs of its own inference in its staging buffers,
\* whatever the other sessions' streams have done with the pool meanwhile.
THEOREM ComputeKernelsReadOwnInputs ==
  ASSUME OperatorFaultsOnly
  PROVE  Spec => []KernelsReadOwnInputs
<1>1. ASSUME OperatorInv PROVE KernelsReadOwnInputs
  <2> SUFFICES ASSUME NEW s \in Sessions, stream[s] # <<>>,
                      Head(stream[s]).kind = "kernel",
                      NEW b \in Head(stream[s]).bufs
               PROVE  content[b] = Head(stream[s]).id
    BY DEF KernelsReadOwnInputs
  <2>1. /\ 1 \in 1 .. Len(stream[s]) /\ Head(stream[s]) = stream[s][1]
        /\ \A k \in 1 .. Len(stream[s]) : ~(k < 1)
    BY <1>1, SessionFacts
  <2>2. /\ stream[s][1].id = Id(s) /\ run[s].pc \in Working
        /\ b \in Staged(s)
        /\ \A k \in 1 .. Len(stream[s]) : stream[s][k].kind # "h2d"
    BY <1>1, <2>1 DEF OperatorInv, StreamInv, WorkFits
  <2>3. content[b] = Id(s)
    BY <1>1, <2>2 DEF OperatorInv, ContentInv, InputsComing
  <2> QED
    BY <2>1, <2>2, <2>3
<1> QED
  BY <1>1, OperatorInvariant, PTL

\* When inference_compute returns 0 no stream holds work of that inference but
\* the clearing of its flag.
THEOREM ComputeWorkDoneAtReturn ==
  ASSUME OperatorFaultsOnly
  PROVE  Spec => []WorkDoneAtReturn
<1>1. ASSUME OperatorInv PROVE WorkDoneAtReturn
  <2> SUFFICES ASSUME NEW s \in Sessions, NEW q \in Sessions,
                      NEW k \in 1 .. Inputs + 6, run[s].pc = "returned",
                      k <= Len(stream[q]), stream[q][k].id = Id(s),
                      stream[q][k].kind # "memset"
               PROVE  FALSE
    BY DEF WorkDoneAtReturn
  <2>1. k \in 1 .. Len(stream[q])
    <3>1. Len(stream[q]) \in Nat
      BY <1>1 DEF OperatorInv, FaultInv, SessionInv
    <3> QED
      BY <3>1, CountsAreNumbers
  <2>2. stream[q][k].id[1] = q /\ run[q].pc \in Working
    BY <1>1, <2>1 DEF OperatorInv, StreamInv, WorkFits
  <2>3. s = q
    BY <2>2 DEF Id
  <2> QED
    BY <2>2, <2>3 DEF Working
<1> QED
  BY <1>1, OperatorInvariant, PTL
=============================================================================
