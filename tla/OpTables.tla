------------------------------- MODULE OpTables -------------------------------
(***************************************************************************)
(* The per-operator state of MatMul and Gemm (lib/Runtime/op_state.h,      *)
(* op_state.cpp, real/matmul.cpp, real/gemm.cpp): sessions that use one    *)
(* image of the runtime share, per operator and device, a table of chosen  *)
(* hipBLASLt algorithms.  A WeakStore hands out the table and the last     *)
(* session drops it.                                                       *)
(*                                                                         *)
(* Each session runs on a thread of its own.  The model has one device and *)
(* one problem shape: entries of several shapes share only table.mu, under *)
(* which a lookup and an insertion are one step each.  A candidate         *)
(* algorithm is the workspace it needs; algorithm 0 is hipBLASLt's own     *)
(* default, which needs none.                                              *)
(***************************************************************************)
EXTENDS Naturals, Sequences, FiniteSetsExt

CONSTANTS Sessions,        \* states with op_states, each with one thread
          Tables,          \* table objects
          CandidateLists,  \* what hipBLASLt may propose, best guess first
          MaxCalls,        \* bound: operator calls, of all sessions together
          None             \* no table, no entry, nobody

Algorithms == {0} \cup UNION {DOMAIN cands : cands \in CandidateLists}

Entries == [cands : CandidateLists, algo : Algorithms, need : Nat, largest : Nat,
            tuned : BOOLEAN, torn : BOOLEAN, retried : BOOLEAN]

ASSUME TablesAssumption ==
  /\ CandidateLists \subseteq Seq(Nat) /\ MaxCalls \in Nat
  /\ None \notin Sessions \cup Tables \cup Entries
  \* A table can always be allocated, beside the two the store may know.
  /\ \A t, u \in Tables \cup {None} : Tables \ {t, u} # {}

VARIABLES
  autotune,   \* HIPDNN_EP_AUTOTUNE, read once per process
  store,      \* WeakStore: the table each operator's weak_ptr points to
  slot,       \* op_states: the shared_ptr in a session's slot of an operator
  entry,      \* a table's entry for the shape
  tuner,      \* who holds the entry's tune_mu
  pc, op,     \* where a session's thread is, in which operator
  mine,       \* the copy of a Gemm entry the thread works with
  workspace,  \* workspace_size of a session
  ran,        \* what a session launched last: algorithm, its need, workspace given
  calls       \* operator calls so far

tables == <<store, slot, entry, tuner>>
threads == <<pc, op, mine, workspace, ran, calls>>
vars == <<autotune, tables, threads>>

Ops == {"matmul", "gemm"}

\* A table is freed with its last shared_ptr; its weak_ptr expires then.
Held(slots) == {slots[s][o] : s \in Sessions, o \in Ops} \ {None}
Live == Held(slot)
Fresh == Tables \ (Live \cup {store[o] : o \in Ops})

TableOf(s) == slot[s][op[s]]
Entry(s) == entry[TableOf(s)]

Init ==
  /\ autotune \in BOOLEAN
  /\ store = [o \in Ops |-> None]
  /\ slot = [s \in Sessions |-> [o \in Ops |-> None]]
  /\ entry = [t \in Tables |-> None]
  /\ tuner = [t \in Tables |-> None]
  /\ pc = [s \in Sessions |-> "new"]
  /\ op = [s \in Sessions |-> "matmul"]
  /\ mine = [s \in Sessions |-> None]
  /\ workspace = [s \in Sessions |-> 0]
  /\ ran = [s \in Sessions |-> None]
  /\ calls = 0

Goto(s, label) == pc' = [pc EXCEPT ![s] = label]

(***************************************************************************)
(* A session comes and goes.                                               *)
(***************************************************************************)
\* Slip: get_or_create never finds the live table.
GetOrCreateAnew(o) == CHOOSE t \in Fresh : TRUE

\* WeakStore::get_or_create, under the store's mutex: the live table, or a new
\* one in place of an expired pointer.  Fresh tables are all alike.
GetOrCreate(o) == IF store[o] \in Live THEN store[o] ELSE CHOOSE t \in Fresh : TRUE

\* The constructors of the slots, in slot order.
Construct(s, o) ==
  /\ pc[s] = "new" /\ slot[s][o] = None
  /\ o = "gemm" => slot[s]["matmul"] # None
  /\ slot' = [slot EXCEPT ![s][o] = GetOrCreate(o)]
  /\ store' = [store EXCEPT ![o] = GetOrCreate(o)]
  /\ IF o = "gemm" THEN Goto(s, "ready") ELSE UNCHANGED pc
  /\ UNCHANGED <<autotune, entry, tuner, op, mine, workspace, ran, calls>>

\* hipdnn_ep_op_states_alloc fails: no constructor runs, the session ends.
InitFails(s) ==
  /\ pc[s] = "new" /\ \A o \in Ops : slot[s][o] = None
  /\ Goto(s, "gone")
  /\ UNCHANGED <<autotune, tables, op, mine, workspace, ran, calls>>

\* hipdnn_ep_state_cleanup runs the deletors of the slots.  Tables nobody
\* holds any more are destroyed, with their entries.
Cleanup(s) ==
  /\ pc[s] = "ready"
  /\ slot' = [slot EXCEPT ![s] = [o \in Ops |-> None]]
  /\ entry' = [t \in Tables |-> IF t \in Held(slot') THEN entry[t] ELSE None]
  /\ Goto(s, "gone")
  /\ UNCHANGED <<autotune, store, tuner, op, mine, workspace, ran, calls>>

(***************************************************************************)
(* Entries.                                                                *)
(***************************************************************************)
Need(cands, a) == IF a = 0 THEN 0 ELSE cands[a]
Largest(cands) == Max({0} \cup {cands[a] : a \in DOMAIN cands})

\* No proposal: the default.  Else the first one, to be tuned when there is a
\* choice and autotuning is on.
MatmulEntry(cands) ==
  LET first == IF cands = <<>> THEN 0 ELSE 1
  IN [cands |-> cands, algo |-> first, need |-> Need(cands, first),
      largest |-> IF autotune THEN Largest(cands) ELSE 0,
      tuned |-> ~autotune \/ Len(cands) <= 1, torn |-> FALSE, retried |-> FALSE]

\* hipdnn_ep_state_ensure_workspace: growth to 1.5 times the old size at least.
Grown(size, needed) ==
  IF size >= needed THEN size ELSE Max({needed, size + size \div 2})

StartOp(s, o) ==
  /\ pc[s] = "ready" /\ calls < MaxCalls
  /\ op' = [op EXCEPT ![s] = o]
  /\ calls' = calls + 1
  /\ Goto(s, "query")
  /\ UNCHANGED <<autotune, tables, mine, workspace, ran>>

\* A hipBLASLt call fails: the operator returns -1 and leaves no entry.
OpFails(s) ==
  /\ pc[s] = "query"
  /\ op[s] = "matmul" => Entry(s) = None
  /\ Goto(s, "ready")
  /\ UNCHANGED <<autotune, tables, op, mine, workspace, ran, calls>>

(***************************************************************************)
(* wrap_hipblasLtMatmul.                                                   *)
(***************************************************************************)
\* queryOrCreateMatmul, under table.mu.
QueryMatmul(s) ==
  /\ pc[s] = "query" /\ op[s] = "matmul"
  /\ \/ Entry(s) # None /\ UNCHANGED entry
     \/ /\ Entry(s) = None
        /\ \E cands \in CandidateLists :
             entry' = [entry EXCEPT ![TableOf(s)] = MatmulEntry(cands)]
  /\ Goto(s, "workspace")
  /\ UNCHANGED <<autotune, store, slot, tuner, op, mine, workspace, ran, calls>>

\* Slip: the algorithms that tuning may still choose are forgotten.
EnsureMatmulFirst(s) ==
  /\ pc[s] = "workspace" /\ op[s] = "matmul"
  /\ workspace' = [workspace EXCEPT ![s] = Grown(@, Entry(s).need)]
  /\ Goto(s, "check")
  /\ UNCHANGED <<autotune, tables, op, mine, ran, calls>>

EnsureMatmul(s) ==
  /\ pc[s] = "workspace" /\ op[s] = "matmul"
  /\ LET needed == IF Entry(s).tuned THEN Entry(s).need ELSE Entry(s).largest
     IN workspace' = [workspace EXCEPT ![s] = Grown(@, needed)]
  /\ Goto(s, "check")
  /\ UNCHANGED <<autotune, tables, op, mine, ran, calls>>

\* The first, lock-free read of tuned.
Check(s) ==
  /\ pc[s] = "check"
  /\ Goto(s, IF Entry(s).tuned THEN "run" ELSE "lock")
  /\ UNCHANGED <<autotune, tables, op, mine, workspace, ran, calls>>

\* tune_mu, and the second read under it.
Lock(s) ==
  /\ pc[s] = "lock" /\ tuner[TableOf(s)] = None
  /\ IF Entry(s).tuned
     THEN Goto(s, "run") /\ UNCHANGED tuner
     ELSE Goto(s, "tune") /\ tuner' = [tuner EXCEPT ![TableOf(s)] = s]
  /\ UNCHANGED <<autotune, store, slot, entry, op, mine, workspace, ran, calls>>

\* Slip: tune_mu is not released when nothing was measured.
GiveUpLocked(s) ==
  /\ pc[s] = "tune"
  /\ \/ /\ entry' = [entry EXCEPT ![TableOf(s)].tuned = TRUE]
        /\ tuner' = [tuner EXCEPT ![TableOf(s)] = None]
     \/ /\ entry' = [entry EXCEPT ![TableOf(s)].retried = TRUE]
        /\ UNCHANGED tuner
  /\ Goto(s, "run")
  /\ UNCHANGED <<autotune, store, slot, op, mine, workspace, ran, calls>>

\* autotuneMatmul: hipEventCreate fails, or nothing could be measured, which
\* leaves the entry untuned.
GiveUp(s) ==
  /\ pc[s] = "tune"
  /\ \/ entry' = [entry EXCEPT ![TableOf(s)].tuned = TRUE]
     \/ entry' = [entry EXCEPT ![TableOf(s)].retried = TRUE]
  /\ tuner' = [tuner EXCEPT ![TableOf(s)] = None]
  /\ Goto(s, "run")
  /\ UNCHANGED <<autotune, store, slot, op, mine, workspace, ran, calls>>

\* One of the candidates that fit the workspace was the fastest: entry->algo is
\* being overwritten, then its size and tuned follow.
Measured(s) == {a \in DOMAIN Entry(s).cands : Entry(s).cands[a] <= workspace[s]}

WriteAlgo(s) ==
  /\ pc[s] = "tune" /\ Measured(s) # {}
  /\ entry' = [entry EXCEPT ![TableOf(s)].torn = TRUE]
  /\ Goto(s, "publish")
  /\ UNCHANGED <<autotune, store, slot, tuner, op, mine, workspace, ran, calls>>

PublishTuned(s) ==
  /\ pc[s] = "publish" /\ op[s] = "matmul"
  /\ \E a \in Measured(s) :
       entry' = [entry EXCEPT ![TableOf(s)].algo = a, ![TableOf(s)].need = Entry(s).cands[a],
                   ![TableOf(s)].torn = FALSE, ![TableOf(s)].tuned = TRUE]
  /\ tuner' = [tuner EXCEPT ![TableOf(s)] = None]
  /\ Goto(s, "run")
  /\ UNCHANGED <<autotune, store, slot, op, mine, workspace, ran, calls>>

Launch(s, e) ==
  /\ ran' = [ran EXCEPT ![s] =
       [algo |-> e.algo, torn |-> e.torn, retried |-> e.retried,
        need |-> Need(e.cands, e.algo), given |-> IF e.algo = 0 THEN 0 ELSE workspace[s]]]
  /\ Goto(s, "ready")

\* entry->algo is read without a lock.
RunMatmul(s) ==
  /\ pc[s] = "run" /\ op[s] = "matmul"
  /\ Launch(s, Entry(s))
  /\ UNCHANGED <<autotune, tables, op, mine, workspace, calls>>

(***************************************************************************)
(* wrap_gemm.                                                              *)
(***************************************************************************)
\* The entry is copied out under table.mu.
QueryGemm(s) ==
  /\ pc[s] = "query" /\ op[s] = "gemm"
  /\ mine' = [mine EXCEPT ![s] = Entry(s)]
  /\ Goto(s, IF Entry(s) = None THEN "select" ELSE "workspace")
  /\ UNCHANGED <<autotune, tables, op, workspace, ran, calls>>

\* selectGemmAlgo, without a lock: any candidate may win the benchmark, whose
\* workspace covers all of them; a single one is not measured.
Select(s) ==
  /\ pc[s] = "select"
  /\ \E cands \in CandidateLists : \E a \in 0 .. Len(cands) :
       /\ a = 0 <=> cands = <<>>
       /\ mine' = [mine EXCEPT ![s] =
            [cands |-> cands, algo |-> a, need |-> Need(cands, a), largest |-> 0,
             tuned |-> TRUE, torn |-> FALSE, retried |-> FALSE]]
       /\ workspace' = [workspace EXCEPT ![s] =
            IF Len(cands) > 1 THEN Grown(@, Largest(cands)) ELSE @]
  /\ Goto(s, "publish")
  /\ UNCHANGED <<autotune, tables, op, ran, calls>>

\* Slip: the last writer wins.
PublishGemmLast(s) ==
  /\ pc[s] = "publish" /\ op[s] = "gemm"
  /\ entry' = [entry EXCEPT ![TableOf(s)] = mine[s]]
  /\ Goto(s, "workspace")
  /\ UNCHANGED <<autotune, store, slot, tuner, op, mine, workspace, ran, calls>>

\* try_emplace under table.mu: the first entry stays, and is what everyone uses.
PublishGemm(s) ==
  /\ pc[s] = "publish" /\ op[s] = "gemm"
  /\ LET e == IF Entry(s) = None THEN mine[s] ELSE Entry(s)
     IN /\ entry' = [entry EXCEPT ![TableOf(s)] = e]
        /\ mine' = [mine EXCEPT ![s] = e]
  /\ Goto(s, "workspace")
  /\ UNCHANGED <<autotune, store, slot, tuner, op, workspace, ran, calls>>

EnsureGemm(s) ==
  /\ pc[s] = "workspace" /\ op[s] = "gemm"
  /\ workspace' = [workspace EXCEPT ![s] = Grown(@, mine[s].need)]
  /\ Goto(s, "run")
  /\ UNCHANGED <<autotune, tables, op, mine, ran, calls>>

RunGemm(s) ==
  /\ pc[s] = "run" /\ op[s] = "gemm"
  /\ Launch(s, mine[s])
  /\ mine' = [mine EXCEPT ![s] = None]
  /\ UNCHANGED <<autotune, tables, op, workspace, calls>>

Operator(s) ==
  \/ OpFails(s)
  \/ QueryMatmul(s) \/ EnsureMatmul(s) \/ Check(s) \/ Lock(s) \/ GiveUp(s)
  \/ WriteAlgo(s) \/ PublishTuned(s) \/ RunMatmul(s)
  \/ QueryGemm(s) \/ Select(s) \/ PublishGemm(s) \/ EnsureGemm(s) \/ RunGemm(s)

Next ==
  \E s \in Sessions :
    \/ \E o \in Ops : Construct(s, o) \/ StartOp(s, o)
    \/ InitFails(s) \/ Cleanup(s) \/ Operator(s)

\* A thread in an operator keeps running.  Nobody has to start another one.
Spec == Init /\ [][Next]_vars /\ \A s \in Sessions : WF_vars(Operator(s))
-----------------------------------------------------------------------------
\* The types; who holds a tune_mu is tuning that entry.
TypeOK ==
  /\ autotune \in BOOLEAN
  /\ store \in [Ops -> Tables \cup {None}]
  /\ slot \in [Sessions -> [Ops -> Tables \cup {None}]]
  /\ entry \in [Tables -> Entries \cup {None}]
  /\ tuner \in [Tables -> Sessions \cup {None}]
  /\ \A t \in Tables : tuner[t] # None =>
       pc[tuner[t]] \in {"tune", "publish"} /\ TableOf(tuner[t]) = t
  /\ pc \in [Sessions -> {"new", "ready", "gone", "query", "workspace", "check", "lock",
                          "tune", "select", "publish", "run"}]
  /\ op \in [Sessions -> Ops]
  /\ mine \in [Sessions -> Entries \cup {None}]
  /\ workspace \in [Sessions -> Nat] /\ calls \in Nat
  /\ \A s \in Sessions : ran[s] = None \/ ran[s].given \in Nat

\* The sessions of a device share one table per operator, whoever came first or
\* left last, and the entry a thread works with is still there.
TablesShared ==
  /\ \A s, r \in Sessions, o \in Ops :
       {slot[s][o], slot[r][o]} \subseteq Tables => slot[s][o] = slot[r][o]
  /\ \A s \in Sessions :
       pc[s] \in {"check", "lock", "tune", "run"} =>
         TableOf(s) # None /\ Entry(s) # None

\* Whatever algorithm a launch takes, chosen here or meanwhile by another
\* session, the workspace of its own session is large enough for it.  And it is
\* a whole algorithm, not one half overwritten, unless an earlier tuning of the
\* entry measured nothing: then its caller has left the lock with the entry
\* untuned, and reads the algorithm while the next caller tunes again.
RunsCovered ==
  \A s \in Sessions : ran[s] # None =>
    /\ ran[s].need <= ran[s].given
    /\ ran[s].torn => ran[s].retried

\* Once a choice is published no later tuning or benchmark changes it: all
\* sessions run the shape with the same algorithm as long as the table lives.
SettledAlgo ==
  [][\A t \in Tables :
       (entry[t] # None /\ entry[t].tuned /\ entry'[t] # None) =>
         /\ entry'[t].algo = entry[t].algo
         /\ entry'[t].need = entry[t].need]_vars

\* Every operator call returns: nobody waits for tune_mu forever.
OpsReturn ==
  \A s \in Sessions : pc[s] \notin {"new", "ready", "gone"} ~> pc[s] = "ready"
=============================================================================
