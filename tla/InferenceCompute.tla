---------------------------- MODULE InferenceCompute ----------------------------
(***************************************************************************)
(* One inference, from the execution provider's Compute through the        *)
(* generated inference_compute and back, for several sessions that share a *)
(* model library: its pool of staging buffers and, per thread, its current *)
(* stream.  A session has a GPU stream, a device error flag and a slot for *)
(* the output allocator, and serves one inference at a time.               *)
(*                                                                         *)
(* The GPU runs each stream in order and independently of the others.  A   *)
(* thread waits for its stream only where the code synchronises.           *)
(***************************************************************************)
EXTENDS Naturals, Sequences, FiniteSets

CONSTANTS Sessions, Threads,
          Inputs,       \* graph inputs are 1 .. Inputs, prepared in order
          Outputs,      \* graph outputs
          Buffers,      \* addresses hipMalloc can return, all of one size
          MaxRuns,      \* inferences explored per session
          Faults,       \* failures explored: "op", "input", "memory",
                        \* "copy", "stream"
          None, Unprepared, Empty, Aliased, Wild

ASSUME CountsAreNumbers == Inputs \in Nat /\ MaxRuns \in Nat

\* What a TensorBuffer holds instead of a staging buffer is told apart.
ASSUME MarkersDiffer ==
  /\ Buffers \cap {Unprepared, Empty, Aliased, Wild} = {}
  /\ Unprepared \notin {Empty, Aliased, Wild}
  /\ Wild \notin {Empty, Aliased}

VARIABLES g_gpu_buffer_pool,   \* idle staging buffers, shared by the sessions
          allocated,           \* buffers hipMalloc has given out
          content,             \* buffer -> the inference whose input it holds
          stream,              \* session -> queued GPU operations
          device_error_flag,
          output_allocator,    \* session -> the inference whose ctx is set
          current_stream,      \* thread -> session, or None
          inputs,              \* session -> input -> its TensorBuffer
          run,                 \* session -> the inference in progress
          last,                \* session -> the status Compute last gave
          aborted              \* LOG(FATAL) has ended the process

Success == "success"      \* the null OrtStatus

gpu == <<content, stream, device_error_flag>>
vars == <<g_gpu_buffer_pool, allocated, gpu, output_allocator, current_stream,
          inputs, run, last, aborted>>

Running(s, pc) == ~aborted /\ run[s].pc = pc
Busy(t) == \E s \in Sessions : run[s].pc # "idle" /\ run[s].thread = t
Id(s) == <<s, run[s].n>>
Staged(s) == {inputs[s][i] : i \in 1 .. Inputs} \cap Buffers

Goto(s, pc) == run' = [run EXCEPT ![s].pc = pc]
Enqueue(q, op) == stream' = [stream EXCEPT ![q] = Append(@, op)]
Op(s, kind, bufs) == [kind |-> kind, id |-> Id(s), bufs |-> bufs, bad |-> FALSE]

\* emitErrorCheckedCall: remember the code and go to the cleanup block.
Fail(s) == run' = [run EXCEPT ![s].pc = "error", ![s].ret = 1,
                              ![s].failed = TRUE, ![s].reported = TRUE]

(***************************************************************************)
(* Compute up to inference_compute's prologue: begin_compute publishes the *)
(* session's stream to the thread, and the output allocator's context, on  *)
(* the stack of this Compute, goes into the session's slot.                *)
(***************************************************************************)
Install(t, s) ==
  /\ ~aborted /\ run[s].pc = "idle" /\ run[s].n < MaxRuns /\ ~Busy(t)
  /\ output_allocator' = [output_allocator EXCEPT ![s] = run[s].n + 1]
  /\ inputs' = [inputs EXCEPT ![s] = [i \in 1 .. Inputs |-> Unprepared]]
  /\ run' = [run EXCEPT ![s] =
               [pc |-> "prepare", thread |-> t, n |-> @.n + 1, next |-> 1,
                todo |-> {"kernel", "memrefCopy"} \cup Outputs, ret |-> 0,
                failed |-> FALSE, reported |-> FALSE]]
  /\ UNCHANGED <<g_gpu_buffer_pool, allocated, gpu, last, aborted>>

\* A slip: only the first inference of a thread publishes its stream.
BeginOnce(t, s) ==
  /\ current_stream' = [current_stream EXCEPT ![t] = IF @ = None THEN s ELSE @]
  /\ Install(t, s)

Begin(t, s) ==
  /\ current_stream' = [current_stream EXCEPT ![t] = s]
  /\ Install(t, s)

(***************************************************************************)
(* hipdnn_ep_tensor_prepare_input, in input order.                         *)
(***************************************************************************)
Preparing(s) == Running(s, "prepare") /\ run[s].next <= Inputs

Prepared(s, b) ==
  /\ inputs' = [inputs EXCEPT ![s][run[s].next] = b]
  /\ run' = [run EXCEPT ![s].next = @ + 1]

\* An empty tensor, or one the caller already placed in GPU memory.
PrepareInPlace(s) ==
  /\ Preparing(s)
  /\ \E b \in {Empty, Aliased} : Prepared(s, b)
  /\ UNCHANGED <<g_gpu_buffer_pool, allocated, gpu>>

\* A slip: the buffer taken stays in the pool.
PoolAllocUnpopped(b) ==
  \/ b \in g_gpu_buffer_pool /\ UNCHANGED <<g_gpu_buffer_pool, allocated>>
  \/ /\ g_gpu_buffer_pool = {} /\ b \in Buffers \ allocated
     /\ allocated' = allocated \cup {b}
     /\ UNCHANGED g_gpu_buffer_pool

\* pool_alloc: a buffer of the pool, else a new one.
PoolAlloc(b) ==
  \/ /\ b \in g_gpu_buffer_pool
     /\ g_gpu_buffer_pool' = g_gpu_buffer_pool \ {b}
     /\ UNCHANGED allocated
  \/ /\ g_gpu_buffer_pool = {} /\ b \in Buffers \ allocated
     /\ allocated' = allocated \cup {b}
     /\ UNCHANGED g_gpu_buffer_pool

PrepareStaged(s) ==
  /\ Preparing(s)
  /\ \E b \in Buffers \cup {Wild} :
       /\ PoolAlloc(b)
       /\ Prepared(s, b)
       /\ Enqueue(s, Op(s, "h2d", {b}))
  /\ UNCHANGED <<content, device_error_flag>>

\* The copy to a staging buffer is refused and the buffer is freed.
PrepareCopyFails(s) ==
  /\ Preparing(s) /\ "copy" \in Faults
  /\ \E b \in Buffers :
       \/ /\ b \in g_gpu_buffer_pool
          /\ g_gpu_buffer_pool' = g_gpu_buffer_pool \ {b}
          /\ allocated' = allocated \ {b}
       \/ /\ g_gpu_buffer_pool = {} /\ b \in Buffers \ allocated
          /\ UNCHANGED <<g_gpu_buffer_pool, allocated>>
  /\ Fail(s)
  /\ UNCHANGED <<inputs, gpu>>

\* A rank mismatch or a null pointer, or hipMalloc failing.
PrepareFails(s) ==
  /\ Preparing(s)
  /\ "input" \in Faults \/ ("memory" \in Faults /\ g_gpu_buffer_pool = {})
  /\ Fail(s)
  /\ UNCHANGED <<g_gpu_buffer_pool, allocated, inputs, gpu>>

Prepare(s) ==
  /\ \/ PrepareInPlace(s) \/ PrepareStaged(s)
     \/ PrepareCopyFails(s) \/ PrepareFails(s)
  /\ UNCHANGED <<output_allocator, current_stream, last, aborted>>

\* hipdnn_ep_state_reset_error_flag: a memset queued before the graph.
\* A slip: the flag is left as the previous inference left it.
ResetErrorFlagLeft(s) ==
  /\ Running(s, "prepare") /\ run[s].next > Inputs
  /\ Goto(s, "graph")
  /\ UNCHANGED <<g_gpu_buffer_pool, allocated, gpu, output_allocator,
                 current_stream, inputs, last, aborted>>

ResetErrorFlag(s) ==
  /\ Running(s, "prepare") /\ run[s].next > Inputs
  /\ \/ Enqueue(s, Op(s, "memset", {})) /\ Goto(s, "graph")
     \/ "stream" \in Faults /\ Fail(s) /\ UNCHANGED stream
  /\ UNCHANGED <<g_gpu_buffer_pool, allocated, content, device_error_flag,
                 output_allocator, current_stream, inputs, last, aborted>>

(***************************************************************************)
(* main_graph, which always returns 0: its operators, in an order of the   *)
(* graph's choosing.  The status of an operator is dropped, so a failure   *)
(* is reported only by what the operator writes to the error flag: run's   *)
(* `failed' says that something failed, `reported' that the failure was    *)
(* told, to the flag or by an interface function's code.                   *)
(***************************************************************************)
Doing(s, task) == Running(s, "graph") /\ task \in run[s].todo
Done(s, task, failed, reported) ==
  run' = [run EXCEPT ![s].todo = @ \ {task}, ![s].failed = @ \/ failed,
                     ![s].reported = @ \/ reported]

\* A kernel that reads the inputs and, given invalid ones, sets the flag.
LaunchKernel(s) ==
  /\ Doing(s, "kernel")
  /\ \E bad \in {FALSE} \cup (IF "op" \in Faults THEN {TRUE} ELSE {}) :
       /\ Enqueue(s, [Op(s, "kernel", Staged(s)) EXCEPT !.bad = bad])
       /\ Done(s, "kernel", bad, bad)
  /\ UNCHANGED <<content, device_error_flag, output_allocator>>

\* An operator that fails before its launch and only returns a status, as
\* wrap_hipblasLtMatmul does: main_graph goes on without it.
DropStatus(s) ==
  /\ Doing(s, "kernel") /\ "op" \in Faults
  /\ Done(s, "kernel", TRUE, FALSE)
  /\ UNCHANGED <<gpu, output_allocator>>

\* hipdnn_ep_state_set_error_flag: queue the write and wait for the stream.
\* The copy is refused; or the wait fails and the write, still queued, will
\* read the code from a stack frame that is gone: a code, or 0.
SetErrorFlag(s) ==
  /\ Doing(s, "kernel") /\ "op" \in Faults
  /\ \/ /\ Enqueue(s, Op(s, "raise", {}))
        /\ run' = [run EXCEPT ![s].pc = "raising", ![s].failed = TRUE,
                              ![s].todo = @ \ {"kernel"}]
     \/ /\ "stream" \in Faults
        /\ \/ UNCHANGED stream
           \/ \E kind \in {"raise", "memset"} : Enqueue(s, Op(s, kind, {}))
        /\ Done(s, "kernel", TRUE, FALSE)
  /\ UNCHANGED <<content, device_error_flag, output_allocator>>

ErrorFlagSet(s) ==
  /\ Running(s, "raising") /\ stream[s] = <<>>
  /\ run' = [run EXCEPT ![s].pc = "graph", ![s].reported = TRUE]
  /\ UNCHANGED <<gpu, output_allocator>>

\* memrefCopy, which has no state argument: the thread's current stream.  When
\* a copy is refused it prints and returns, with nothing or the rows before
\* the refused one queued.
MemrefCopy(s) ==
  LET copied == Enqueue(current_stream[run[s].thread], Op(s, "memrefCopy", {}))
  IN
  /\ Doing(s, "memrefCopy")
  /\ \/ copied /\ Done(s, "memrefCopy", FALSE, FALSE)
     \/ /\ "op" \in Faults
        /\ copied \/ UNCHANGED stream
        /\ Done(s, "memrefCopy", TRUE, FALSE)
  /\ UNCHANGED <<content, device_error_flag, output_allocator>>

\* hip.alloc_output: the callback of the context in the slot serves output o.
AllocOutput(s) ==
  /\ \E o \in Outputs : Doing(s, o) /\ Done(s, o, FALSE, FALSE)
  /\ output_allocator[s] # None
  /\ UNCHANGED <<gpu, output_allocator>>

Graph(s) ==
  /\ \/ LaunchKernel(s) \/ DropStatus(s) \/ SetErrorFlag(s)
     \/ ErrorFlagSet(s) \/ MemrefCopy(s) \/ AllocOutput(s)
  /\ UNCHANGED <<g_gpu_buffer_pool, allocated, current_stream, inputs, last,
                 aborted>>

(***************************************************************************)
(* After the graph: synchronise, read the flag, give the inputs back.      *)
(***************************************************************************)
\* A slip: a graph whose operators cannot fail skips the wait and the flag.
StreamSyncSkipped(s) ==
  /\ Running(s, "graph") /\ run[s].todo = {}
  /\ Goto(s, IF run[s].failed THEN "read" ELSE "free")
  /\ UNCHANGED <<g_gpu_buffer_pool, allocated, gpu, output_allocator,
                 current_stream, inputs, last, aborted>>

StreamSync(s) ==
  /\ Running(s, "graph") /\ run[s].todo = {}
  /\ \/ stream[s] = <<>> /\ Goto(s, "read")
     \/ "stream" \in Faults /\ Fail(s)
  /\ UNCHANGED <<g_gpu_buffer_pool, allocated, gpu, output_allocator,
                 current_stream, inputs, last, aborted>>

\* hipdnn_ep_state_read_and_clear_error_flag: clears only a flag that is 0.
ReadErrorFlag(s) ==
  /\ Running(s, "read")
  /\ \/ /\ stream[s] = <<>> /\ device_error_flag[s]
        /\ Goto(s, "error") /\ UNCHANGED stream
     \/ /\ stream[s] = <<>> /\ ~device_error_flag[s]
        /\ Enqueue(s, Op(s, "memset", {})) /\ Goto(s, "free")
     \/ "stream" \in Faults /\ Fail(s) /\ UNCHANGED stream
  /\ UNCHANGED <<g_gpu_buffer_pool, allocated, content, device_error_flag,
                 output_allocator, current_stream, inputs, last, aborted>>

\* Buffers hipdnn_ep_tensor_free_input gives to the pool.  A TensorBuffer that
\* prepare_input never filled holds whatever was on the stack: nothing the
\* pool takes, or an address it takes for one of its own.
FreedInputs(s) ==
  LET mine == {inputs[s][i] : i \in 1 .. Inputs} \cap (Buffers \cup {Wild}) IN
  IF \E i \in 1 .. Inputs : inputs[s][i] = Unprepared
    THEN {mine, mine \cup {Wild}}
    ELSE {mine}

\* A slip: a caller's own buffer is returned to the pool like the others.
FreeInputsAliased(s) ==
  /\ Running(s, "free") \/ Running(s, "error")
  /\ g_gpu_buffer_pool' = g_gpu_buffer_pool \cup
       ({inputs[s][i] : i \in 1 .. Inputs} \cap (Buffers \cup {Aliased}))
  /\ inputs' = [inputs EXCEPT ![s] = [i \in 1 .. Inputs |-> Unprepared]]
  /\ run' = [run EXCEPT ![s].pc = "returned",
               ![s].ret = IF run[s].pc = "error" THEN 1 ELSE 0]
  /\ UNCHANGED <<allocated, gpu, output_allocator, current_stream, last,
                 aborted>>

FreeInputs(s) ==
  /\ Running(s, "free") \/ Running(s, "error")
  /\ \E freed \in FreedInputs(s) :
       g_gpu_buffer_pool' = g_gpu_buffer_pool \cup freed
  /\ inputs' = [inputs EXCEPT ![s] = [i \in 1 .. Inputs |-> Unprepared]]
  /\ run' = [run EXCEPT ![s].pc = "returned",
               ![s].ret = IF run[s].pc = "error" THEN 1 ELSE 0]
  /\ UNCHANGED <<allocated, gpu, output_allocator, current_stream, last,
                 aborted>>

(***************************************************************************)
(* Back in the execution provider.                                         *)
(***************************************************************************)
\* The slot is cleared, a nonzero code is logged, every output must have been
\* allocated or the process ends, host outputs are copied and Compute returns
\* to ONNX Runtime, which always sees success.
Finish(s) ==
  /\ Running(s, "returned")
  /\ \/ /\ run[s].todo \cap Outputs = {}
        /\ last' = [last EXCEPT ![s] = Success]
        /\ UNCHANGED aborted
     \/ /\ run[s].todo \cap Outputs # {}
        /\ aborted' = TRUE
        /\ UNCHANGED last
  /\ Goto(s, "idle")
  /\ UNCHANGED <<g_gpu_buffer_pool, allocated, gpu, current_stream, inputs>>

\* A slip: an early return for a failed inference skips the clearing.
FinishUncleared(s) ==
  /\ output_allocator' = IF run[s].ret = 0
                           THEN [output_allocator EXCEPT ![s] = None]
                           ELSE output_allocator
  /\ Finish(s)

Return(s) ==
  /\ output_allocator' = [output_allocator EXCEPT ![s] = None]
  /\ Finish(s)

\* The GPU completes the first operation of stream q.
Gpu(q) ==
  LET op == Head(stream[q]) IN
  /\ ~aborted /\ stream[q] # <<>>
  /\ stream' = [stream EXCEPT ![q] = Tail(@)]
  /\ content' = [b \in Buffers |-> IF op.kind = "h2d" /\ b \in op.bufs
                                     THEN op.id ELSE content[b]]
  /\ device_error_flag' =
       [device_error_flag EXCEPT ![q] =
          IF op.kind = "memset" THEN FALSE
          ELSE @ \/ op.kind = "raise" \/ (op.kind = "kernel" /\ op.bad)]
  /\ UNCHANGED <<g_gpu_buffer_pool, allocated, output_allocator,
                 current_stream, inputs, run, last, aborted>>

Init ==
  /\ g_gpu_buffer_pool = {} /\ allocated = {}
  /\ content = [b \in Buffers |-> None]
  /\ stream = [s \in Sessions |-> <<>>]
  /\ device_error_flag = [s \in Sessions |-> FALSE]
  /\ output_allocator = [s \in Sessions |-> None]
  /\ current_stream = [t \in Threads |-> None]
  /\ inputs = [s \in Sessions |-> [i \in 1 .. Inputs |-> Unprepared]]
  /\ run = [s \in Sessions |->
              [pc |-> "idle", thread |-> None, n |-> 0, next |-> 1,
               todo |-> {}, ret |-> 0, failed |-> FALSE,
               reported |-> FALSE]]
  /\ last = [s \in Sessions |-> Success]
  /\ aborted = FALSE

Next ==
  \E s \in Sessions :
    \/ \E t \in Threads : Begin(t, s)
    \/ Prepare(s) \/ ResetErrorFlag(s) \/ Graph(s) \/ StreamSync(s)
    \/ ReadErrorFlag(s) \/ FreeInputs(s) \/ Return(s) \/ Gpu(s)

Spec == Init /\ [][Next]_vars

(***************************************************************************)
(* Properties.                                                             *)
(***************************************************************************)
PCs == {"idle", "prepare", "graph", "raising", "read", "free", "error",
        "returned"}

\* The type of the state; the pool holds addresses of the pool's own.
TypeOK ==
  /\ g_gpu_buffer_pool \subseteq Buffers /\ allocated \subseteq Buffers
  /\ \A s \in Sessions :
       /\ inputs[s] \in [1 .. Inputs -> Buffers \cup {Unprepared, Empty, Aliased}]
       /\ run[s].pc \in PCs /\ run[s].n \in 0 .. MaxRuns
       /\ run[s].thread \in Threads \cup {None}
       /\ output_allocator[s] \in 1 .. MaxRuns \cup {None}
  /\ current_stream \in [Threads -> Sessions \cup {None}]
  /\ device_error_flag \in [Sessions -> BOOLEAN]
  /\ aborted \in BOOLEAN

\* A staging buffer is in the pool or serves one input of one inference, and
\* no queued GPU work touches a buffer that is in the pool, so that no other
\* session's stream can race with it.
StagingExclusive ==
  /\ \A s, r \in Sessions, i, j \in 1 .. Inputs :
       inputs[s][i] \in Buffers =>
         /\ inputs[s][i] \in allocated \ g_gpu_buffer_pool
         /\ inputs[s][i] = inputs[r][j] => s = r /\ i = j
  /\ \A s \in Sessions, k \in 1 .. Inputs + 6 :
       k <= Len(stream[s]) => stream[s][k].bufs \cap g_gpu_buffer_pool = {}

\* A kernel, when the GPU reaches it, finds in its staging buffers the inputs
\* of its own inference, whatever the other sessions' streams have done.
KernelsReadOwnInputs ==
  \A s \in Sessions :
    (stream[s] # <<>> /\ Head(stream[s]).kind = "kernel") =>
      \A b \in Head(stream[s]).bufs : content[b] = Head(stream[s]).id

\* When inference_compute returns 0, no stream holds work of that inference
\* but the clearing of its flag: the outputs the execution provider is about
\* to copy or hand over are final, memref copies included.
WorkDoneAtReturn ==
  \A s, q \in Sessions, k \in 1 .. Inputs + 6 :
    (run[s].pc = "returned" /\ run[s].ret = 0 /\ k <= Len(stream[q])) =>
      (stream[q][k].id = Id(s) => stream[q][k].kind = "memset")

\* What inference_compute's code means.  A failure that was told, by the flag
\* or by an interface function, is in the code however the GPU's queue was
\* ordered; and a nonzero code is never about an earlier inference of the
\* session, whose flag or queued raise may still be around.
ErrorReturned ==
  \A s \in Sessions :
    run[s].pc = "returned" =>
      /\ run[s].reported => run[s].ret # 0
      /\ run[s].ret # 0 => run[s].failed

\* The slot names the context of the inference in progress, which is on a live
\* stack frame, and no inference is left without one.
CallbackLive ==
  \A s \in Sessions :
    IF run[s].pc = "idle" THEN output_allocator[s] = None
                          ELSE output_allocator[s] = run[s].n

\* What arg_max.cpp says of the error flag: a failure that an operator stored
\* there must not look like success to whoever asked for the inference.
FailureIsNotSuccess ==
  \A s \in Sessions :
    (run[s].pc = "idle" /\ run[s].reported /\ ~aborted) => last[s] # Success

\* What hipdnn_ep_runtime.h says of free_input: the TensorBuffer it is given
\* comes from prepare_input.
FreesPreparedInputs ==
  \A s \in Sessions :
    run[s].pc \in {"free", "error"} =>
      \A i \in 1 .. Inputs : inputs[s][i] # Unprepared
=============================================================================
