---------------------------- MODULE OpTablesProofs ----------------------------
(***************************************************************************)
(* For any number of sessions, operator calls and candidate algorithms:    *)
(* the sessions share one table per operator, a launch is covered by the   *)
(* workspace of its own session, and a published choice never changes.     *)
(*                                                                         *)
(* The argument is one of rely and guarantee.  What is claimed of a thread *)
(* speaks of its own state and of the entry it works with; a step of       *)
(* another thread only lets that entry mature, and leaves it alone while   *)
(* the first one holds its tune_mu.                                        *)
(***************************************************************************)
EXTENDS OpTables, FiniteSetFacts, SequenceTheorems, TLAPS

Labels == {"new", "ready", "gone", "query", "workspace", "check", "lock",
           "tune", "select", "publish", "run"}
Busy == Labels \ {"new", "ready", "gone"}

\* A slot points to the table the store knows, of its own operator.
SlotInv ==
  /\ \A s \in Sessions, o \in Ops :
       /\ slot[s][o] # None => slot[s][o] = store[o]
       /\ pc[s] \in Busy \cup {"ready"} => slot[s][o] # None
  /\ store["matmul"] = store["gemm"] => store["matmul"] = None

\* Before tuning, largest covers whatever tuning may choose.
Sound(e) ==
  /\ e.algo \in DOMAIN e.cands \cup {0}
  /\ e.need = Need(e.cands, e.algo)
  /\ ~e.tuned => e.largest = Largest(e.cands)

TableInv(t) ==
  /\ tuner[t] # None => op[tuner[t]] = "matmul"
  /\ entry[t] # None =>
       /\ t \in Live /\ Sound(entry[t])
       /\ t = store["gemm"] => entry[t].tuned
       /\ entry[t].torn => tuner[t] # None /\ pc[tuner[t]] = "publish" /\ ~entry[t].tuned

\* The thread works with an entry that is there, and has made room for it.
WithEntry(s) == \/ pc[s] \in {"workspace", "check", "lock", "tune", "run"}
                \/ pc[s] = "publish" /\ op[s] = "matmul"
Ensured(s) == pc[s] \in {"check", "lock", "tune", "publish", "run"} /\ op[s] = "matmul"
WithCopy(s) == pc[s] \in {"workspace", "publish", "run"} /\ op[s] = "gemm"

ThreadInv(s) ==
  /\ pc[s] \in {"check", "lock", "tune"} => op[s] = "matmul"
  /\ pc[s] = "select" => op[s] = "gemm"
  /\ mine[s] # None => Sound(mine[s]) /\ mine[s].tuned /\ ~mine[s].torn
  /\ WithCopy(s) => mine[s] # None /\ (pc[s] = "run" => workspace[s] >= mine[s].need)
  /\ WithEntry(s) => Entry(s) # None
  /\ Ensured(s) =>
       /\ workspace[s] >= Entry(s).need
       /\ ~Entry(s).tuned => workspace[s] >= Entry(s).largest
       /\ pc[s] \in {"tune", "publish"} => tuner[TableOf(s)] = s /\ ~Entry(s).tuned
       /\ pc[s] = "run" => Entry(s).tuned \/ Entry(s).retried

\* What tuning may do to an entry others work with.
Matured(e, f) ==
  /\ f.cands = e.cands /\ f.largest = e.largest
  /\ f.need = e.need \/ (~e.tuned /\ f.need \in 0 .. e.largest)
  /\ e.tuned => f.tuned
  /\ e.retried => f.retried

\* What a thread relies on when another one takes a step.
Undisturbed(r) ==
  /\ pc'[r] = pc[r] /\ op'[r] = op[r] /\ mine'[r] = mine[r]
  /\ workspace'[r] = workspace[r] /\ slot'[r] = slot[r]
  /\ WithEntry(r) => Entry(r)' # None /\ Matured(Entry(r), Entry(r)')
  /\ WithEntry(r) /\ tuner[TableOf(r)] = r =>
       tuner'[TableOf(r)] = r /\ Entry(r)' = Entry(r)

IInv ==
  /\ TypeOK /\ SlotInv /\ RunsCovered
  /\ \A t \in Tables : TableInv(t)
  /\ \A s \in Sessions : ThreadInv(s)

-----------------------------------------------------------------------------
(***************************************************************************)
(* The operators.                                                          *)
(***************************************************************************)
\* Largest is the largest: no candidate, chosen or not, needs more.
LEMMA CandidatesCovered ==
  ASSUME NEW cands \in CandidateLists
  PROVE  /\ Len(cands) \in Nat /\ DOMAIN cands = 1 .. Len(cands)
         /\ (cands = <<>>) <=> (Len(cands) = 0)
         /\ Largest(cands) \in Nat
         /\ DOMAIN cands \cup {0} \subseteq Algorithms
         /\ \A a \in DOMAIN cands : cands[a] \in Nat /\ cands[a] <= Largest(cands)
         /\ \A a \in DOMAIN cands \cup {0} :
              Need(cands, a) \in Nat /\ Need(cands, a) <= Largest(cands)
<1> DEFINE needs == {cands[a] : a \in DOMAIN cands}
<1>1. cands \in Seq(Nat)
  BY TablesAssumption
<1>2. /\ Len(cands) \in Nat /\ DOMAIN cands = 1 .. Len(cands)
      /\ \A a \in DOMAIN cands : cands[a] \in Nat
      /\ (cands = <<>>) <=> (Len(cands) = 0)
  BY <1>1, LenProperties, ElementOfSeq, EmptySeq
<1>3. IsFiniteSet({0} \cup needs)
  <2>1. IsFiniteSet(needs)
    BY <1>2, FiniteRange
  <2>2. {0} \cup needs = needs \cup {0}
    OBVIOUS
  <2> QED
    BY <2>1, <2>2, FS_AddElement
<1>4. /\ Largest(cands) \in {0} \cup needs
      /\ \A x \in {0} \cup needs : x <= Largest(cands)
  <2>1. {0} \cup needs \in SUBSET Nat /\ {0} \cup needs # {}
    BY <1>2
  <2>2. Largest(cands) = Max({0} \cup needs)
    BY DEF Largest
  <2> HIDE DEF needs
  <2> QED
    BY <1>3, <2>1, <2>2, MaxOfNats
<1>5. Largest(cands) \in Nat
  BY <1>2, <1>4
<1>6. DOMAIN cands \cup {0} \subseteq Algorithms
  BY DEF Algorithms
<1> QED
  BY <1>2, <1>4, <1>5, <1>6 DEF Need

\* A workspace grows to what is needed, and never shrinks.
LEMMA GrownCovers ==
  ASSUME NEW size \in Nat, NEW needed \in Nat
  PROVE  Grown(size, needed) \in Nat /\ Grown(size, needed) >= size
         /\ Grown(size, needed) >= needed
<1> DEFINE sizes == {needed, size + size \div 2}
<1>1. size + size \div 2 \in Nat
  OBVIOUS
<1>2. IsFiniteSet(sizes)
  <2>1. sizes = {needed} \cup {size + size \div 2} /\ IsFiniteSet({needed})
    BY FS_Singleton
  <2> QED
    BY <2>1, FS_AddElement
<1>3. Max(sizes) \in sizes /\ \A x \in sizes : x <= Max(sizes)
  BY <1>1, <1>2, MaxOfNats
<1>4. size + size \div 2 >= size
  OBVIOUS
<1> QED
  BY <1>1, <1>3, <1>4 DEF Grown

\* What a lookup leaves behind for a new shape.
LEMMA NewEntry ==
  ASSUME NEW cands \in CandidateLists, autotune \in BOOLEAN
  PROVE  /\ MatmulEntry(cands) \in Entries /\ MatmulEntry(cands) # None
         /\ Sound(MatmulEntry(cands)) /\ ~MatmulEntry(cands).torn
<1> DEFINE first == IF cands = <<>> THEN 0 ELSE 1
<1>1. first \in DOMAIN cands \cup {0}
  BY CandidatesCovered
<1>2. MatmulEntry(cands) =
       [cands |-> cands, algo |-> first, need |-> Need(cands, first),
        largest |-> IF autotune THEN Largest(cands) ELSE 0,
        tuned |-> ~autotune \/ Len(cands) <= 1, torn |-> FALSE, retried |-> FALSE]
  BY DEF MatmulEntry
<1>3. (~autotune \/ Len(cands) <= 1) \in BOOLEAN
  OBVIOUS
<1>4. Need(cands, first) \in Nat /\ Largest(cands) \in Nat /\ first \in Algorithms
  BY <1>1, CandidatesCovered
<1> HIDE DEF first
<1>5. MatmulEntry(cands) \in Entries
  BY <1>2, <1>3, <1>4 DEF Entries
<1>6. Sound(MatmulEntry(cands)) /\ ~MatmulEntry(cands).torn
  <2>1. DOMAIN MatmulEntry(cands).cands \cup {0} = DOMAIN cands \cup {0}
    BY <1>2
  <2>2. ASSUME ~autotune PROVE MatmulEntry(cands).tuned
    <3> DEFINE tuned == ~autotune \/ Len(cands) <= 1
    <3>1. tuned = TRUE
      BY <2>2
    <3>2. MatmulEntry(cands).tuned = tuned
      BY <1>2
    <3> QED
      BY <3>1, <3>2
  <2> QED
    BY <1>1, <1>2, <2>1, <2>2 DEF Sound
<1> QED
  BY <1>5, <1>6, TablesAssumption

-----------------------------------------------------------------------------
(***************************************************************************)
(* What every step relies on.                                              *)
(***************************************************************************)
\* A session that is in an operator holds the operator's table.
LEMMA TableHeld ==
  ASSUME IInv, NEW s \in Sessions, pc[s] \in Busy
  PROVE  /\ TableOf(s) \in Tables /\ TableOf(s) \in Live
         /\ TableOf(s) = store[op[s]] /\ op[s] \in Ops
BY DEF IInv, TypeOK, SlotInv, TableOf, Live, Held

\* Working threads only: the label of a thread with an entry is a busy one.
LEMMA WithEntryBusy ==
  ASSUME NEW s, WithEntry(s)
  PROVE  pc[s] \in Busy
BY DEF WithEntry, Busy, Labels

LEMMA EntryTyped ==
  ASSUME IInv, NEW s \in Sessions, WithEntry(s)
  PROVE  /\ TableOf(s) \in Tables
         /\ Entry(s) \in Entries /\ Sound(Entry(s)) /\ Entry(s) # None
<1>1. pc[s] \in Busy /\ TableOf(s) \in Tables
  BY WithEntryBusy, TableHeld
<1>2. Entry(s) # None
  BY DEF IInv, ThreadInv
<1> QED
  BY <1>1, <1>2 DEF IInv, TypeOK, Entry, TableInv

\* The rely condition keeps what is claimed of a thread.
LEMMA ThreadKept ==
  ASSUME IInv, NEW r \in Sessions, Undisturbed(r)
  PROVE  ThreadInv(r)'
<1>1. /\ pc'[r] = pc[r] /\ op'[r] = op[r] /\ mine'[r] = mine[r]
      /\ workspace'[r] = workspace[r] /\ slot'[r] = slot[r]
  BY DEF Undisturbed
<1>2. ThreadInv(r)
  BY DEF IInv
<1>3. TableOf(r)' = TableOf(r) /\ Entry(r)' = entry'[TableOf(r)]
  BY <1>1 DEF TableOf, Entry
<1>4. Ensured(r) => WithEntry(r)
  BY DEF Ensured, WithEntry
<1>5. CASE WithEntry(r)
  <2>1. Entry(r) \in Entries /\ Entry(r)' # None /\ Matured(Entry(r), Entry(r)')
    BY <1>5, EntryTyped DEF Undisturbed
  <2>2. workspace[r] \in Nat /\ Entry(r).need \in Nat /\ Entry(r).largest \in Nat
    BY <2>1 DEF IInv, TypeOK, Entries
  <2>3. Ensured(r) => workspace[r] >= Entry(r)'.need
    BY <1>2, <2>1, <2>2 DEF ThreadInv, Matured
  <2>4. Ensured(r) /\ ~Entry(r)'.tuned => workspace[r] >= Entry(r)'.largest
    BY <1>2, <2>1 DEF ThreadInv, Matured
  <2>5. Ensured(r) /\ pc[r] \in {"tune", "publish"} =>
          tuner'[TableOf(r)] = r /\ ~Entry(r)'.tuned
    BY <1>2, <1>5 DEF ThreadInv, Undisturbed
  <2>6. Ensured(r) /\ pc[r] = "run" => Entry(r)'.tuned \/ Entry(r)'.retried
    BY <1>2, <2>1 DEF ThreadInv, Matured
  <2> QED
    BY <1>1, <1>2, <1>3, <2>1, <2>3, <2>4, <2>5, <2>6
    DEF ThreadInv, Ensured, WithCopy, WithEntry
<1>6. CASE ~WithEntry(r)
  BY <1>1, <1>2, <1>4, <1>6 DEF ThreadInv, Ensured, WithCopy, WithEntry
<1> QED
  BY <1>5, <1>6

\* Between construction and cleanup the slots are as they are.
LEMMA SlotsKept ==
  ASSUME IInv, UNCHANGED <<store, slot>>,
         \A r \in Sessions : pc'[r] \in Busy \cup {"ready"} => pc[r] \in Busy \cup {"ready"}
  PROVE  SlotInv'
BY DEF IInv, SlotInv

\* A thread outside tuning holds no tune_mu.
LEMMA NotTuning ==
  ASSUME IInv, NEW s \in Sessions, pc[s] \notin {"tune", "publish"}
  PROVE  \A t \in Tables : tuner[t] # s
BY TablesAssumption DEF IInv, TypeOK

\* A step of s that touches no table: what is left to show is about s.
LEMMA LocalStep ==
  ASSUME IInv, NEW s \in Sessions, pc[s] \notin {"tune", "publish"},
         UNCHANGED tables, TypeOK', RunsCovered', ThreadInv(s)',
         pc'[s] \in Busy \cup {"ready"} => pc[s] \in Busy \cup {"ready"},
         \A r \in Sessions \ {s} :
           /\ pc'[r] = pc[r] /\ op'[r] = op[r]
           /\ mine'[r] = mine[r] /\ workspace'[r] = workspace[r]
  PROVE  IInv'
<1>1. SlotInv'
  BY SlotsKept DEF tables
<1>2. ASSUME NEW t \in Tables PROVE TableInv(t)'
  <2>1. tuner[t] # None => tuner[t] \in Sessions \ {s}
    BY NotTuning DEF IInv, TypeOK
  <2> QED
    BY <2>1 DEF IInv, TableInv, tables, Live, Held
<1>3. ASSUME NEW r \in Sessions \ {s} PROVE ThreadInv(r)'
  <2>1. slot'[r] = slot[r] /\ Entry(r)' = Entry(r) /\ TableOf(r)' = TableOf(r)
    BY DEF tables, Entry, TableOf
  <2>2. WithEntry(r) => Matured(Entry(r), Entry(r)')
    BY <2>1 DEF Matured
  <2>3. WithEntry(r) => Entry(r)' # None
    BY <2>1, EntryTyped
  <2>4. Undisturbed(r)
    BY <2>1, <2>2, <2>3 DEF Undisturbed, tables
  <2> QED
    BY <2>4, ThreadKept
<1> QED
  BY <1>1, <1>2, <1>3 DEF IInv

-----------------------------------------------------------------------------
(***************************************************************************)
(* Steps that touch no table.                                              *)
(***************************************************************************)
LEMMA InitFailsInv ==
  ASSUME IInv, NEW s \in Sessions, InitFails(s)
  PROVE  IInv'
<1> USE DEF InitFails, Goto, IInv
<1>1. TypeOK' /\ RunsCovered'
  BY DEF TypeOK, RunsCovered, tables, TableOf
<1>2. ThreadInv(s)'
  BY DEF ThreadInv, TypeOK, WithCopy, WithEntry, Ensured, tables
<1> QED
  BY <1>1, <1>2, LocalStep DEF TypeOK, Busy, Labels

LEMMA StartOpInv ==
  ASSUME IInv, NEW s \in Sessions, NEW o \in Ops, StartOp(s, o)
  PROVE  IInv'
<1> USE DEF StartOp, Goto, IInv
<1>1. TypeOK' /\ RunsCovered'
  BY NotTuning DEF TypeOK, RunsCovered, tables, TableOf
<1>2. ThreadInv(s)'
  BY DEF ThreadInv, TypeOK, WithCopy, WithEntry, Ensured, tables
<1> QED
  BY <1>1, <1>2, LocalStep DEF TypeOK, Busy, Labels

LEMMA OpFailsInv ==
  ASSUME IInv, NEW s \in Sessions, OpFails(s)
  PROVE  IInv'
<1> USE DEF OpFails, Goto, IInv
<1>1. TypeOK' /\ RunsCovered'
  BY NotTuning DEF TypeOK, RunsCovered, tables, TableOf
<1>2. ThreadInv(s)'
  BY DEF ThreadInv, TypeOK, WithCopy, WithEntry, Ensured, tables
<1> QED
  BY <1>1, <1>2, LocalStep DEF TypeOK, Busy, Labels

LEMMA EnsureMatmulInv ==
  ASSUME IInv, NEW s \in Sessions, EnsureMatmul(s)
  PROVE  IInv'
<1> USE DEF EnsureMatmul, Goto, IInv
<1> DEFINE needed == IF Entry(s).tuned THEN Entry(s).need ELSE Entry(s).largest
<1>1. Entry(s) \in Entries /\ Sound(Entry(s)) /\ Entry(s) # None
  BY EntryTyped DEF WithEntry
<1>2. Entry(s).need \in Nat /\ Entry(s).largest \in Nat /\ Entry(s).need <= Largest(Entry(s).cands)
  BY <1>1, CandidatesCovered DEF Entries, Sound
<1>3. needed \in Nat
  BY <1>2
<1>4. workspace'[s] = Grown(workspace[s], needed) /\ workspace[s] \in Nat
  BY DEF TypeOK
<1>5. workspace'[s] \in Nat /\ workspace'[s] >= needed
  BY <1>3, <1>4, GrownCovers
<1>6. workspace'[s] >= Entry(s).need /\ (~Entry(s).tuned => workspace'[s] >= Entry(s).largest)
  BY <1>1, <1>2, <1>5 DEF Sound
<1> HIDE DEF needed
<1>7. TypeOK' /\ RunsCovered'
  BY <1>5, NotTuning DEF TypeOK, RunsCovered, tables, TableOf
<1>8. ThreadInv(s)'
  <2>1. pc'[s] = "check" /\ op'[s] = "matmul" /\ mine'[s] = mine[s]
    BY DEF TypeOK
  <2>2. Entry(s)' = Entry(s)
    BY DEF tables, Entry, TableOf
  <2>3. mine'[s] # None => Sound(mine'[s]) /\ mine'[s].tuned /\ ~mine'[s].torn
    BY <2>1 DEF ThreadInv
  <2>4. ~WithCopy(s)'
    BY <2>1 DEF WithCopy
  <2> QED
    BY <1>1, <1>6, <2>1, <2>2, <2>3, <2>4 DEF ThreadInv
<1> QED
  BY <1>7, <1>8, LocalStep DEF TypeOK, Busy, Labels

LEMMA CheckInv ==
  ASSUME IInv, NEW s \in Sessions, Check(s)
  PROVE  IInv'
<1> USE DEF Check, Goto, IInv
<1>1. Entry(s) \in Entries /\ Entry(s) # None
  BY EntryTyped DEF WithEntry
<1>2. TypeOK' /\ RunsCovered'
  BY NotTuning DEF TypeOK, RunsCovered, tables, TableOf
<1>3. ThreadInv(s)'
  <2>1. pc'[s] \in {"run", "lock"} /\ op'[s] = "matmul" /\ mine'[s] = mine[s]
    BY DEF TypeOK, ThreadInv
  <2>2. Entry(s)' = Entry(s) /\ workspace' = workspace
    BY DEF tables, Entry, TableOf
  <2>3. mine'[s] # None => Sound(mine'[s]) /\ mine'[s].tuned /\ ~mine'[s].torn
    BY <2>1 DEF ThreadInv
  <2>4. ~WithCopy(s)' /\ Ensured(s)
    BY <2>1 DEF WithCopy, Ensured
  <2>5. /\ workspace[s] >= Entry(s).need
        /\ ~Entry(s).tuned => workspace[s] >= Entry(s).largest
    BY <2>4 DEF ThreadInv
  <2>6. pc'[s] = "run" => Entry(s).tuned
    BY DEF TypeOK
  <2> QED
    BY <1>1, <2>1, <2>2, <2>3, <2>4, <2>5, <2>6 DEF ThreadInv
<1> QED
  BY <1>2, <1>3, LocalStep DEF TypeOK, Busy, Labels

\* A launch of an entry that the workspace covers, torn only when retried.
LEMMA LaunchCovered ==
  ASSUME IInv, NEW s \in Sessions, NEW e \in Entries, Sound(e), Launch(s, e),
         workspace[s] >= e.need, e.torn => e.retried
  PROVE  RunsCovered' /\ \A r \in Sessions : ran'[r] = None \/ ran'[r].given \in Nat
<1> DEFINE now == [algo |-> e.algo, torn |-> e.torn, retried |-> e.retried,
                   need |-> Need(e.cands, e.algo),
                   given |-> IF e.algo = 0 THEN 0 ELSE workspace[s]]
<1>1. ran' = [ran EXCEPT ![s] = now]
  BY DEF Launch
<1>2. workspace[s] \in Nat
  BY DEF IInv, TypeOK
<1>3. now.given \in Nat
  BY <1>2
<1>4. now.need <= now.given
  BY <1>2 DEF Sound, Need
<1>5. now.torn => now.retried
  OBVIOUS
<1> HIDE DEF now
<1>6. ASSUME NEW r \in Sessions
      PROVE  /\ ran'[r] = None \/ ran'[r].given \in Nat
             /\ ran'[r] # None => ran'[r].need <= ran'[r].given
             /\ ran'[r] # None /\ ran'[r].torn => ran'[r].retried
  <2>1. CASE r = s /\ ran'[r] = now
    BY <1>3, <1>4, <1>5, <2>1
  <2>2. CASE ran'[r] = ran[r]
    BY <2>2 DEF IInv, TypeOK, RunsCovered
  <2> QED
    BY <1>1, <2>1, <2>2
<1> QED
  BY <1>6 DEF RunsCovered

LEMMA RunMatmulInv ==
  ASSUME IInv, NEW s \in Sessions, RunMatmul(s)
  PROVE  IInv'
<1>1. pc[s] = "run" /\ op[s] = "matmul" /\ Launch(s, Entry(s))
  BY DEF RunMatmul
<1>2. Entry(s) \in Entries /\ Sound(Entry(s)) /\ Entry(s) # None /\ TableOf(s) \in Tables
  BY <1>1, EntryTyped DEF WithEntry
<1>3. workspace[s] >= Entry(s).need /\ (Entry(s).tuned \/ Entry(s).retried)
  BY <1>1 DEF IInv, ThreadInv, Ensured
<1>4. Entry(s).torn => Entry(s).retried
  BY <1>2, <1>3 DEF IInv, TableInv, Entry
<1>5. RunsCovered' /\ \A r \in Sessions : ran'[r] = None \/ ran'[r].given \in Nat
  BY <1>1, <1>2, <1>3, <1>4, LaunchCovered
<1> USE DEF RunMatmul, Launch, Goto, IInv
<1>6. TypeOK'
  BY <1>5, NotTuning DEF TypeOK, tables, TableOf
<1>7. ThreadInv(s)'
  BY DEF ThreadInv, TypeOK, WithCopy, WithEntry, Ensured, tables
<1> QED
  BY <1>5, <1>6, <1>7, LocalStep DEF TypeOK, Busy, Labels

LEMMA QueryGemmInv ==
  ASSUME IInv, NEW s \in Sessions, QueryGemm(s)
  PROVE  IInv'
<1>1. pc[s] = "query" /\ op[s] = "gemm"
  BY DEF QueryGemm
<1>2. TableOf(s) \in Tables /\ TableOf(s) = store["gemm"]
  BY <1>1, TableHeld DEF Busy, Labels
<1>3. Entry(s) # None => Entry(s) \in Entries /\ Sound(Entry(s)) /\ Entry(s).tuned
  BY <1>2 DEF IInv, TypeOK, TableInv, Entry
<1>4. Entry(s) # None => ~Entry(s).torn
  BY <1>2, <1>3 DEF IInv, TableInv, Entry
<1> USE DEF QueryGemm, Goto, IInv
<1>5. TypeOK' /\ RunsCovered'
  BY <1>2, <1>3, NotTuning DEF TypeOK, RunsCovered, tables, TableOf
<1>6. ThreadInv(s)'
  BY <1>1, <1>2, <1>3, <1>4
  DEF ThreadInv, TypeOK, WithCopy, WithEntry, Ensured, tables, Entry, TableOf
<1> QED
  BY <1>5, <1>6, LocalStep DEF TypeOK, Busy, Labels

LEMMA SelectInv ==
  ASSUME IInv, NEW s \in Sessions, Select(s)
  PROVE  IInv'
<1>1. pc[s] = "select"
  BY DEF Select
<1>2. PICK cands \in CandidateLists : \E a \in 0 .. Len(cands) :
        /\ a = 0 <=> cands = <<>>
        /\ mine' = [mine EXCEPT ![s] =
             [cands |-> cands, algo |-> a, need |-> Need(cands, a), largest |-> 0,
              tuned |-> TRUE, torn |-> FALSE, retried |-> FALSE]]
        /\ workspace' = [workspace EXCEPT ![s] =
             IF Len(cands) > 1 THEN Grown(@, Largest(cands)) ELSE @]
  BY DEF Select
<1>3. PICK a \in 0 .. Len(cands) :
        /\ mine' = [mine EXCEPT ![s] =
             [cands |-> cands, algo |-> a, need |-> Need(cands, a), largest |-> 0,
              tuned |-> TRUE, torn |-> FALSE, retried |-> FALSE]]
        /\ workspace' = [workspace EXCEPT ![s] =
             IF Len(cands) > 1 THEN Grown(@, Largest(cands)) ELSE @]
  BY <1>2
<1>4. a \in DOMAIN cands \cup {0}
  BY CandidatesCovered
<1>5. mine'[s] \in Entries /\ Sound(mine'[s]) /\ mine'[s].tuned /\ ~mine'[s].torn
  <2> DEFINE chosen == [cands |-> cands, algo |-> a, need |-> Need(cands, a), largest |-> 0,
                        tuned |-> TRUE, torn |-> FALSE, retried |-> FALSE]
  <2>1. mine'[s] = chosen
    BY <1>3 DEF IInv, TypeOK
  <2>2. chosen \in Entries
    BY <1>4, CandidatesCovered DEF Entries
  <2>3. Sound(chosen)
    BY <1>4 DEF Sound
  <2> QED
    BY <2>1, <2>2, <2>3
<1>6. workspace'[s] \in Nat
  BY <1>3, GrownCovers, CandidatesCovered DEF IInv, TypeOK
<1>7. \A r \in Sessions \ {s} : mine'[r] = mine[r] /\ workspace'[r] = workspace[r]
  BY <1>3 DEF IInv, TypeOK
<1>8. mine' \in [Sessions -> Entries \cup {None}] /\ workspace' \in [Sessions -> Nat]
  BY <1>3, <1>5, <1>6 DEF IInv, TypeOK
<1>9. pc' = [pc EXCEPT ![s] = "publish"] /\ UNCHANGED <<autotune, tables, op, ran, calls>>
  BY DEF Select, Goto
<1> USE DEF IInv
<1>10. TypeOK' /\ RunsCovered'
  BY <1>1, <1>8, <1>9, NotTuning DEF TypeOK, RunsCovered, tables, TableOf
<1>11. ThreadInv(s)'
  <2>1. pc'[s] = "publish"
    BY <1>9 DEF TypeOK
  <2>2. op'[s] = "gemm"
    BY <1>1, <1>9 DEF ThreadInv
  <2>3. mine'[s] # None
    BY <1>5, TablesAssumption DEF TablesAssumption
  <2> QED
    BY <1>5, <2>1, <2>2, <2>3 DEF ThreadInv, WithCopy, WithEntry, Ensured
<1> QED
  BY <1>1, <1>7, <1>9, <1>10, <1>11, LocalStep DEF TypeOK, Busy, Labels

LEMMA EnsureGemmInv ==
  ASSUME IInv, NEW s \in Sessions, EnsureGemm(s)
  PROVE  IInv'
<1> USE DEF EnsureGemm, Goto, IInv
<1>1. mine[s] \in Entries /\ mine[s] # None /\ Entry(s) # None
  BY DEF TypeOK, ThreadInv, WithCopy, WithEntry
<1>2. mine[s].need \in Nat
  BY <1>1 DEF Entries
<1>3. workspace'[s] = Grown(workspace[s], mine[s].need) /\ workspace[s] \in Nat
  BY DEF TypeOK
<1>4. workspace'[s] \in Nat /\ workspace'[s] >= mine[s].need
  BY <1>2, <1>3, GrownCovers
<1>5. TypeOK' /\ RunsCovered'
  BY <1>4, NotTuning DEF TypeOK, RunsCovered, tables, TableOf
<1>6. ThreadInv(s)'
  BY <1>1, <1>4 DEF ThreadInv, TypeOK, WithCopy, WithEntry, Ensured, tables, Entry, TableOf
<1> QED
  BY <1>5, <1>6, LocalStep DEF TypeOK, Busy, Labels

LEMMA RunGemmInv ==
  ASSUME IInv, NEW s \in Sessions, RunGemm(s)
  PROVE  IInv'
<1>1. pc[s] = "run" /\ op[s] = "gemm" /\ Launch(s, mine[s])
  BY DEF RunGemm
<1>2. mine[s] \in Entries /\ Sound(mine[s]) /\ mine[s].need <= workspace[s] /\ ~mine[s].torn
  BY <1>1 DEF IInv, TypeOK, ThreadInv, WithCopy
<1>3. RunsCovered' /\ \A r \in Sessions : ran'[r] = None \/ ran'[r].given \in Nat
  BY <1>1, <1>2, LaunchCovered DEF IInv, TypeOK, Entries
<1> USE DEF RunGemm, Launch, Goto, IInv
<1>4. TypeOK'
  BY <1>3, NotTuning DEF TypeOK, tables, TableOf
<1>5. ThreadInv(s)'
  BY DEF ThreadInv, TypeOK, WithCopy, WithEntry, Ensured, tables
<1> QED
  BY <1>3, <1>4, <1>5, LocalStep DEF TypeOK, Busy, Labels

-----------------------------------------------------------------------------
(***************************************************************************)
(* Steps that touch a table.                                               *)
(***************************************************************************)
\* A step of s that replaces the entry it works with by e, which has matured,
\* and that leaves the entry alone while somebody else tunes it.
LEMMA EntryStep ==
  ASSUME IInv, NEW s \in Sessions, NEW e \in Entries, pc[s] \in Busy,
         entry' = [entry EXCEPT ![TableOf(s)] = e],
         Entry(s) # None => Matured(Entry(s), e),
         \A t \in Tables \ {TableOf(s)} : tuner'[t] = tuner[t],
         tuner[TableOf(s)] \notin {None, s} =>
           e = Entry(s) /\ tuner'[TableOf(s)] = tuner[TableOf(s)],
         UNCHANGED <<store, slot, op, workspace, ran>>,
         \A r \in Sessions \ {s} : pc'[r] = pc[r] /\ mine'[r] = mine[r],
         TypeOK', TableInv(TableOf(s))', ThreadInv(s)'
  PROVE  IInv'
<1>1. SlotInv'
  BY SlotsKept DEF Busy, Labels
<1>2. RunsCovered'
  BY DEF IInv, RunsCovered
<1>3. ASSUME NEW t \in Tables \ {TableOf(s)} PROVE TableInv(t)'
  <2>1. entry'[t] = entry[t] /\ tuner'[t] = tuner[t]
    BY DEF IInv, TypeOK
  <2>2. tuner[t] # None => tuner[t] \in Sessions \ {s}
    BY DEF IInv, TypeOK
  <2> QED
    BY <2>1, <2>2 DEF IInv, TableInv, Live, Held
<1>4. ASSUME NEW r \in Sessions \ {s} PROVE ThreadInv(r)'
  <2>1. slot'[r] = slot[r] /\ TableOf(r)' = TableOf(r)
    BY DEF TableOf
  <2>2. CASE WithEntry(r) /\ TableOf(r) = TableOf(s)
    <3>1. Entry(r) = Entry(s) /\ Entry(r) # None /\ TableOf(r) \in Tables
      BY <2>2, EntryTyped DEF Entry
    <3>2. Entry(r)' = e
      BY <2>1, <2>2, <3>1 DEF IInv, TypeOK, Entry
    <3>3. e # None
      BY TablesAssumption
    <3>4. Undisturbed(r)
      BY <2>1, <2>2, <3>1, <3>2, <3>3, TablesAssumption DEF Undisturbed
    <3> QED
      BY <3>4, ThreadKept
  <2>3. CASE WithEntry(r) /\ TableOf(r) # TableOf(s)
    <3>1. TableOf(r) \in Tables /\ Entry(r) # None /\ Entry(r) \in Entries
      BY <2>3, EntryTyped
    <3>2. Entry(r)' = Entry(r) /\ tuner'[TableOf(r)] = tuner[TableOf(r)]
      BY <2>1, <2>3, <3>1 DEF IInv, TypeOK, Entry
    <3>3. Matured(Entry(r), Entry(r)')
      BY <3>2 DEF Matured
    <3>4. Undisturbed(r)
      BY <2>1, <3>1, <3>2, <3>3 DEF Undisturbed
    <3> QED
      BY <3>4, ThreadKept
  <2>4. CASE ~WithEntry(r)
    <3>1. Undisturbed(r)
      BY <2>1, <2>4 DEF Undisturbed
    <3> QED
      BY <3>1, ThreadKept
  <2> QED
    BY <2>2, <2>3, <2>4
<1>5. TableOf(s)' = TableOf(s)
  BY DEF TableOf
<1>6. \A t \in Tables : TableInv(t)'
  BY <1>3, <1>5
<1> QED
  BY <1>1, <1>2, <1>4, <1>6 DEF IInv

LEMMA QueryMatmulInv ==
  ASSUME IInv, NEW s \in Sessions, QueryMatmul(s)
  PROVE  IInv'
<1>1. pc[s] = "query" /\ op[s] = "matmul" /\ pc' = [pc EXCEPT ![s] = "workspace"]
      /\ UNCHANGED <<autotune, store, slot, tuner, op, mine, workspace, ran, calls>>
  BY DEF QueryMatmul, Goto
<1>2. /\ TableOf(s) \in Tables /\ TableOf(s) \in Live /\ TableOf(s) = store["matmul"]
      /\ TableOf(s) # store["gemm"]
  <2>1. pc[s] \in Busy
    BY <1>1 DEF Busy, Labels
  <2>2. TableOf(s) \in Tables /\ TableOf(s) \in Live /\ TableOf(s) = store["matmul"]
    BY <1>1, <2>1, TableHeld
  <2> QED
    BY <2>2, TablesAssumption DEF IInv, SlotInv
<1> DEFINE T == TableOf(s)
<1>3. PICK e \in Entries :
        /\ entry' = [entry EXCEPT ![T] = e] /\ e # None /\ Sound(e)
        /\ Entry(s) # None => e = Entry(s)
        /\ Entry(s) = None => ~e.torn
  <2>1. CASE Entry(s) # None /\ UNCHANGED entry
    <3>1. Entry(s) \in Entries /\ Sound(Entry(s))
      BY <1>2, <2>1 DEF IInv, TypeOK, TableInv, Entry
    <3>2. entry' = [entry EXCEPT ![T] = Entry(s)]
      BY <2>1 DEF IInv, TypeOK, Entry
    <3> QED
      BY <2>1, <3>1, <3>2
  <2>2. CASE /\ Entry(s) = None
             /\ \E cands \in CandidateLists :
                  entry' = [entry EXCEPT ![T] = MatmulEntry(cands)]
    <3>1. PICK cands \in CandidateLists : entry' = [entry EXCEPT ![T] = MatmulEntry(cands)]
      BY <2>2
    <3> QED
      BY <2>2, <3>1, NewEntry DEF IInv, TypeOK
  <2> QED
    BY <2>1, <2>2 DEF QueryMatmul
<1>4. entry'[T] = e /\ \A t \in Tables \ {T} : entry'[t] = entry[t]
  BY <1>2, <1>3 DEF IInv, TypeOK
<1>5. TypeOK'
  <2>1. entry' \in [Tables -> Entries \cup {None}]
    BY <1>3 DEF IInv, TypeOK
  <2> QED
    BY <1>1, <2>1, NotTuning DEF IInv, TypeOK, TableOf
<1>6. TableInv(T)'
  <2>1. tuner[T] # None => tuner[T] # s
    BY <1>1, <1>2, NotTuning
  <2>2. e.torn => tuner[T] # None /\ pc[tuner[T]] = "publish" /\ ~e.tuned
    BY <1>2, <1>3 DEF IInv, TableInv, Entry
  <2>3. TableOf(s)' = T /\ Live' = Live
    BY <1>1 DEF TableOf, Live, Held
  <2>4. tuner[T] # None => op[tuner[T]] = "matmul" /\ tuner[T] \in Sessions
    BY <1>2 DEF IInv, TableInv, TypeOK
  <2> QED
    BY <1>1, <1>2, <1>3, <1>4, <2>1, <2>2, <2>3, <2>4 DEF TableInv, IInv, TypeOK
<1>7. ThreadInv(s)'
  <2>1. pc'[s] = "workspace"
    BY <1>1 DEF IInv, TypeOK
  <2>2. TableOf(s)' = T /\ Entry(s)' = e
    BY <1>1, <1>4 DEF TableOf, Entry
  <2> QED
    BY <1>1, <1>3, <2>1, <2>2 DEF IInv, ThreadInv, WithCopy, WithEntry, Ensured
<1>8. Entry(s) # None => Matured(Entry(s), e)
  BY <1>3 DEF Matured
<1>9. tuner[T] \notin {None, s} => e = Entry(s)
  <2>1. tuner[T] \notin {None, s} => WithEntry(tuner[T]) /\ tuner[T] \in Sessions
                                     /\ TableOf(tuner[T]) = T
    BY <1>2 DEF IInv, TypeOK, TableInv, WithEntry
  <2>2. tuner[T] \notin {None, s} => Entry(s) # None
    BY <2>1, EntryTyped DEF Entry
  <2> QED
    BY <1>3, <2>2
<1>10. pc[s] \in Busy /\ \A r \in Sessions \ {s} : pc'[r] = pc[r] /\ mine'[r] = mine[r]
  BY <1>1 DEF IInv, TypeOK, Busy, Labels
<1> HIDE DEF T
<1> QED
  BY <1>1, <1>3, <1>5, <1>6, <1>7, <1>8, <1>9, <1>10, EntryStep DEF T

LEMMA PublishGemmInv ==
  ASSUME IInv, NEW s \in Sessions, PublishGemm(s)
  PROVE  IInv'
<1> DEFINE T == TableOf(s)
           e == IF Entry(s) = None THEN mine[s] ELSE Entry(s)
<1>1. /\ pc[s] = "publish" /\ op[s] = "gemm" /\ pc' = [pc EXCEPT ![s] = "workspace"]
      /\ entry' = [entry EXCEPT ![T] = e] /\ mine' = [mine EXCEPT ![s] = e]
      /\ UNCHANGED <<autotune, store, slot, tuner, op, workspace, ran, calls>>
  BY DEF PublishGemm, Goto
<1>2. T \in Tables /\ T \in Live /\ T = store["gemm"] /\ T # store["matmul"] /\ pc[s] \in Busy
  <2>1. pc[s] \in Busy
    BY <1>1 DEF Busy, Labels
  <2>2. T \in Tables /\ T \in Live /\ T = store["gemm"]
    BY <1>1, <2>1, TableHeld
  <2> QED
    BY <2>1, <2>2, TablesAssumption DEF IInv, SlotInv
<1>3. tuner[T] = None
  <2> SUFFICES ASSUME tuner[T] # None PROVE FALSE
    OBVIOUS
  <2>1. tuner[T] \in Sessions /\ op[tuner[T]] = "matmul" /\ TableOf(tuner[T]) = T
        /\ pc[tuner[T]] \in Busy
    BY <1>2 DEF IInv, TypeOK, TableInv, Busy, Labels
  <2>2. T = store["matmul"]
    BY <2>1, TableHeld
  <2> QED
    BY <1>2, <2>2
<1>4. e \in Entries /\ Sound(e) /\ e.tuned /\ ~e.torn /\ e # None
  <2>1. CASE Entry(s) = None
    BY <1>1, <2>1 DEF IInv, TypeOK, ThreadInv, WithCopy
  <2>2. CASE Entry(s) # None
    BY <1>2, <1>3, <2>2 DEF IInv, TypeOK, TableInv, Entry
  <2> QED
    BY <2>1, <2>2
<1>5. Entry(s) # None => Matured(Entry(s), e)
  BY DEF Matured
<1> HIDE DEF e
<1>6. entry'[T] = e /\ mine'[s] = e
  BY <1>1, <1>2 DEF IInv, TypeOK
<1>7. TypeOK'
  <2>1. entry' \in [Tables -> Entries \cup {None}] /\ mine' \in [Sessions -> Entries \cup {None}]
    BY <1>1, <1>4 DEF IInv, TypeOK
  <2>2. \A t \in Tables : tuner[t] # s
    <3> SUFFICES ASSUME NEW t \in Tables, tuner[t] = s PROVE FALSE
      OBVIOUS
    <3>1. op[s] = "matmul"
      BY TablesAssumption DEF IInv, TableInv
    <3> QED
      BY <1>1, <3>1
  <2> QED
    BY <1>1, <2>1, <2>2 DEF IInv, TypeOK, TableOf
<1>8. TableInv(T)'
  <2>1. TableOf(s)' = T /\ Live' = Live
    BY <1>1 DEF TableOf, Live, Held
  <2> QED
    BY <1>1, <1>2, <1>3, <1>4, <1>6, <2>1 DEF TableInv
<1>9. ThreadInv(s)'
  <2>1. pc'[s] = "workspace" /\ op'[s] = "gemm"
    BY <1>1 DEF IInv, TypeOK
  <2>2. TableOf(s)' = T /\ Entry(s)' = e
    BY <1>1, <1>6 DEF TableOf, Entry
  <2> QED
    BY <1>4, <1>6, <2>1, <2>2 DEF ThreadInv, WithCopy, WithEntry, Ensured
<1>10. \A r \in Sessions \ {s} : pc'[r] = pc[r] /\ mine'[r] = mine[r]
  BY <1>1 DEF IInv, TypeOK
<1> HIDE DEF T
<1> QED
  BY <1>1, <1>2, <1>3, <1>4, <1>5, <1>7, <1>8, <1>9, <1>10, EntryStep DEF T

\* A step of the thread that holds tune_mu, or that finds it free.
LEMMA TuneStep ==
  ASSUME IInv, NEW s \in Sessions, NEW e \in Entries, NEW holder \in {None, s},
         NEW label \in {"run", "tune", "publish"},
         pc[s] \in {"lock", "tune", "publish"}, op[s] = "matmul",
         entry' = [entry EXCEPT ![TableOf(s)] = e],
         tuner' = [tuner EXCEPT ![TableOf(s)] = holder],
         pc' = [pc EXCEPT ![s] = label],
         UNCHANGED <<autotune, store, slot, op, mine, workspace, ran, calls>>,
         tuner[TableOf(s)] \in {None, s},
         Sound(e), Matured(Entry(s), e),
         e.torn => label = "publish",
         label = "run" => holder = None /\ (e.tuned \/ e.retried),
         label # "run" => holder = s /\ ~e.tuned
  PROVE  IInv'
<1> DEFINE T == TableOf(s)
<1>1. pc[s] \in Busy /\ WithEntry(s) /\ Ensured(s)
  BY DEF Busy, Labels, WithEntry, Ensured
<1>2. T \in Tables /\ T \in Live /\ T = store["matmul"] /\ T # store["gemm"]
  <2>1. T \in Tables /\ T \in Live /\ T = store["matmul"]
    BY <1>1, TableHeld
  <2> QED
    BY <2>1, TablesAssumption DEF IInv, SlotInv
<1>3. entry'[T] = e /\ tuner'[T] = holder /\ pc'[s] = label /\ e # None
  BY <1>2, TablesAssumption DEF IInv, TypeOK
<1>4. \A t \in Tables \ {T} : tuner'[t] = tuner[t] /\ tuner[t] # s
  BY TablesAssumption DEF IInv, TypeOK
<1>5. \A r \in Sessions \ {s} : pc'[r] = pc[r] /\ mine'[r] = mine[r]
  BY DEF IInv, TypeOK
<1>6. TypeOK'
  <2>1. entry' \in [Tables -> Entries \cup {None}] /\ tuner' \in [Tables -> Sessions \cup {None}]
    BY DEF IInv, TypeOK
  <2>2. pc' \in [Sessions -> {"new", "ready", "gone", "query", "workspace", "check", "lock",
                              "tune", "select", "publish", "run"}]
    BY DEF IInv, TypeOK
  <2>3. ASSUME NEW t \in Tables, tuner'[t] # None
        PROVE  (pc[tuner[t]] \in {"tune", "publish"} /\ TableOf(tuner[t]) = t)'
    <3>1. CASE t = T
      <4>1. tuner'[t] = s /\ label # "run"
        BY <1>3, <2>3, <3>1
      <4> QED
        BY <1>3, <3>1, <4>1 DEF TableOf
    <3>2. CASE t # T
      <4>1. tuner'[t] = tuner[t] /\ tuner[t] \in Sessions \ {s}
        BY <1>4, <2>3, <3>2 DEF IInv, TypeOK
      <4> QED
        BY <1>5, <2>3, <4>1 DEF IInv, TypeOK, TableOf
    <3> QED
      BY <3>1, <3>2
  <2> QED
    BY <2>1, <2>2, <2>3 DEF IInv, TypeOK
<1>7. TableInv(T)'
  <2>1. TableOf(s)' = T /\ Live' = Live
    BY DEF TableOf, Live, Held
  <2>2. holder # None => op'[holder] = "matmul"
    OBVIOUS
  <2>3. e.torn => holder # None /\ pc'[holder] = "publish" /\ ~e.tuned
    BY <1>3, TablesAssumption
  <2> QED
    BY <1>2, <1>3, <2>1, <2>2, <2>3 DEF TableInv
<1>8. ThreadInv(s)'
  <2>1. TableOf(s)' = T /\ Entry(s)' = e
    BY <1>3 DEF TableOf, Entry
  <2>2. Entry(s) \in Entries /\ Entry(s).need \in Nat /\ Entry(s).largest \in Nat
        /\ workspace[s] \in Nat
    BY <1>1, EntryTyped DEF IInv, TypeOK, Entries
  <2>3. workspace[s] >= Entry(s).need /\ (~Entry(s).tuned => workspace[s] >= Entry(s).largest)
    BY <1>1 DEF IInv, ThreadInv
  <2>4. workspace[s] >= e.need
    BY <2>2, <2>3 DEF Matured
  <2>5. ~e.tuned => workspace[s] >= e.largest
    BY <2>3 DEF Matured
  <2>6. label \in {"tune", "publish"} => tuner'[T] = s /\ ~e.tuned
    BY <1>3
  <2>7. mine'[s] # None => Sound(mine'[s]) /\ mine'[s].tuned /\ ~mine'[s].torn
    BY DEF IInv, ThreadInv
  <2> QED
    BY <1>3, <2>1, <2>4, <2>5, <2>6, <2>7 DEF ThreadInv, WithCopy, WithEntry, Ensured
<1> HIDE DEF T
<1> QED
  BY <1>1, <1>4, <1>5, <1>6, <1>7, <1>8, EntryStep DEF T

\* What a thread in tuning knows: it holds tune_mu of an untuned entry.
LEMMA Tuning ==
  ASSUME IInv, NEW s \in Sessions, pc[s] \in {"tune", "publish"}, op[s] = "matmul"
  PROVE  /\ TableOf(s) \in Tables /\ Entry(s) \in Entries /\ Sound(Entry(s))
         /\ tuner[TableOf(s)] = s /\ ~Entry(s).tuned
         /\ Entry(s).torn => pc[s] = "publish"
<1>1. WithEntry(s) /\ Ensured(s)
  BY DEF WithEntry, Ensured
<1>2. TableOf(s) \in Tables /\ Entry(s) \in Entries /\ Sound(Entry(s)) /\ Entry(s) # None
  BY <1>1, EntryTyped
<1>3. tuner[TableOf(s)] = s /\ ~Entry(s).tuned
  BY <1>1 DEF IInv, ThreadInv
<1> QED
  BY <1>2, <1>3 DEF IInv, TableInv, Entry

LEMMA LockInv ==
  ASSUME IInv, NEW s \in Sessions, Lock(s)
  PROVE  IInv'
<1>1. pc[s] = "lock" /\ op[s] = "matmul" /\ tuner[TableOf(s)] = None
      /\ UNCHANGED <<autotune, store, slot, entry, op, mine, workspace, ran, calls>>
  BY DEF Lock, IInv, ThreadInv
<1>2. TableOf(s) \in Tables /\ Entry(s) \in Entries /\ Sound(Entry(s)) /\ Entry(s) # None
  BY <1>1, EntryTyped DEF WithEntry
<1>3. ~Entry(s).torn
  BY <1>1, <1>2 DEF IInv, TableInv, Entry
<1>4. entry' = [entry EXCEPT ![TableOf(s)] = Entry(s)]
  BY <1>1 DEF IInv, TypeOK, Entry
<1>5. Matured(Entry(s), Entry(s))
  BY DEF Matured
<1>6. CASE Entry(s).tuned
  <2>1. pc' = [pc EXCEPT ![s] = "run"] /\ tuner' = tuner
    BY <1>6 DEF Lock, Goto
  <2>2. tuner' = [tuner EXCEPT ![TableOf(s)] = None]
    BY <1>1, <2>1 DEF IInv, TypeOK
  <2> QED
    BY <1>1, <1>2, <1>3, <1>4, <1>5, <1>6, <2>1, <2>2, TuneStep
<1>7. CASE ~Entry(s).tuned
  <2>1. pc' = [pc EXCEPT ![s] = "tune"] /\ tuner' = [tuner EXCEPT ![TableOf(s)] = s]
    BY <1>7 DEF Lock, Goto
  <2> QED
    BY <1>1, <1>2, <1>3, <1>4, <1>5, <1>7, <2>1, TuneStep
<1> QED
  BY <1>6, <1>7

LEMMA GiveUpInv ==
  ASSUME IInv, NEW s \in Sessions, GiveUp(s)
  PROVE  IInv'
<1> DEFINE T == TableOf(s)
<1>1. pc[s] = "tune" /\ op[s] = "matmul" /\ tuner' = [tuner EXCEPT ![T] = None]
      /\ pc' = [pc EXCEPT ![s] = "run"]
      /\ UNCHANGED <<autotune, store, slot, op, mine, workspace, ran, calls>>
  BY DEF GiveUp, Goto, IInv, ThreadInv
<1>2. /\ T \in Tables /\ Entry(s) \in Entries /\ Sound(Entry(s))
      /\ tuner[T] = s /\ ~Entry(s).torn /\ ~Entry(s).tuned
  BY <1>1, Tuning
<1>3. PICK e \in {[Entry(s) EXCEPT !.tuned = TRUE], [Entry(s) EXCEPT !.retried = TRUE]} :
        entry' = [entry EXCEPT ![T] = e]
  BY DEF GiveUp, Entry
<1>4. e \in Entries
  BY <1>2 DEF Entries
<1>5. /\ e.cands = Entry(s).cands /\ e.largest = Entry(s).largest /\ e.algo = Entry(s).algo
      /\ e.need = Entry(s).need /\ e.torn = Entry(s).torn
      /\ e.tuned \/ e.retried
      /\ Entry(s).retried => e.retried
  BY <1>2 DEF Entries
<1>6. Sound(e) /\ Matured(Entry(s), e) /\ ~e.torn
  BY <1>2, <1>5 DEF Sound, Matured
<1> QED
  BY <1>1, <1>2, <1>3, <1>4, <1>5, <1>6, TuneStep

LEMMA WriteAlgoInv ==
  ASSUME IInv, NEW s \in Sessions, WriteAlgo(s)
  PROVE  IInv'
<1> DEFINE T == TableOf(s)
           e == [Entry(s) EXCEPT !.torn = TRUE]
<1>1. pc[s] = "tune" /\ op[s] = "matmul" /\ pc' = [pc EXCEPT ![s] = "publish"]
      /\ entry' = [entry EXCEPT ![T] = e]
      /\ UNCHANGED <<autotune, store, slot, tuner, op, mine, workspace, ran, calls>>
  BY DEF WriteAlgo, Goto, IInv, ThreadInv, Entry
<1>2. /\ T \in Tables /\ Entry(s) \in Entries /\ Sound(Entry(s))
      /\ tuner[T] = s /\ ~Entry(s).tuned
  BY <1>1, Tuning
<1>3. e \in Entries
  BY <1>2 DEF Entries
<1>4. /\ e.cands = Entry(s).cands /\ e.largest = Entry(s).largest /\ e.algo = Entry(s).algo
      /\ e.need = Entry(s).need /\ e.tuned = Entry(s).tuned /\ e.retried = Entry(s).retried
  BY <1>2 DEF Entries
<1> HIDE DEF e
<1>5. Sound(e) /\ Matured(Entry(s), e) /\ ~e.tuned
  BY <1>2, <1>4 DEF Sound, Matured
<1>6. tuner' = [tuner EXCEPT ![T] = s]
  BY <1>1, <1>2 DEF IInv, TypeOK
<1> QED
  BY <1>1, <1>2, <1>3, <1>5, <1>6, TuneStep

LEMMA PublishTunedInv ==
  ASSUME IInv, NEW s \in Sessions, PublishTuned(s)
  PROVE  IInv'
<1> DEFINE T == TableOf(s)
<1>1. pc[s] = "publish" /\ op[s] = "matmul" /\ pc' = [pc EXCEPT ![s] = "run"]
      /\ tuner' = [tuner EXCEPT ![T] = None]
      /\ UNCHANGED <<autotune, store, slot, op, mine, workspace, ran, calls>>
  BY DEF PublishTuned, Goto
<1>2. /\ T \in Tables /\ Entry(s) \in Entries /\ Sound(Entry(s))
      /\ tuner[T] = s /\ ~Entry(s).tuned
  BY <1>1, Tuning
<1>3. PICK a \in Measured(s) :
        entry' = [entry EXCEPT ![T].algo = a, ![T].need = Entry(s).cands[a],
                               ![T].torn = FALSE, ![T].tuned = TRUE]
  BY DEF PublishTuned
<1> DEFINE cands == Entry(s).cands
           e == [Entry(s) EXCEPT !.algo = a, !.need = cands[a], !.torn = FALSE, !.tuned = TRUE]
<1>4. cands \in CandidateLists /\ a \in DOMAIN cands
  BY <1>2, <1>3 DEF Entries, Measured
<1>5. cands[a] \in Nat /\ cands[a] <= Largest(cands) /\ a \in Algorithms /\ a # 0
      /\ Largest(cands) \in Nat
  BY <1>4, CandidatesCovered
<1>6. entry' = [entry EXCEPT ![T] = e]
  BY <1>2, <1>3 DEF IInv, TypeOK, Entry
<1>7. e \in Entries
  BY <1>2, <1>5 DEF Entries
<1>8. /\ e.cands = cands /\ e.largest = Entry(s).largest /\ e.algo = a /\ e.need = cands[a]
      /\ e.tuned /\ ~e.torn /\ e.retried = Entry(s).retried
  BY <1>2 DEF Entries
<1> HIDE DEF e
<1>9. Sound(e)
  BY <1>4, <1>5, <1>8 DEF Sound, Need
<1>10. Matured(Entry(s), e)
  <2>1. Entry(s).largest = Largest(cands)
    BY <1>2 DEF Sound
  <2> QED
    BY <1>2, <1>5, <1>8, <2>1 DEF Matured
<1> QED
  BY <1>1, <1>2, <1>6, <1>7, <1>8, <1>9, <1>10, TuneStep

-----------------------------------------------------------------------------
(***************************************************************************)
(* Sessions come and go.                                                   *)
(***************************************************************************)
\* A table is held if and only if the store still knows it and a slot does.
LEMMA LiveIsStored ==
  ASSUME IInv, NEW o \in Ops
  PROVE  store[o] \in Live <=> \E s \in Sessions : slot[s][o] # None
<1>1. ASSUME store[o] \in Live PROVE \E s \in Sessions : slot[s][o] # None
  <2>1. PICK s \in Sessions, q \in Ops : slot[s][q] = store[o] /\ store[o] # None
    BY <1>1 DEF Live, Held
  <2>2. slot[s][q] = store[q]
    BY <2>1 DEF IInv, SlotInv
  <2>3. q = o
    <3>1. store["matmul"] = store["gemm"] => store["matmul"] = None
      BY DEF IInv, SlotInv
    <3>2. store[q] = store[o] /\ store[o] # None
      BY <2>1, <2>2
    <3> QED
      BY <3>1, <3>2 DEF Ops
  <2> QED
    BY <2>1, <2>3
<1>2. ASSUME NEW s \in Sessions, slot[s][o] # None PROVE store[o] \in Live
  <2>1. slot[s][o] = store[o]
    BY <1>2 DEF IInv, SlotInv
  <2> QED
    BY <1>2, <2>1 DEF Live, Held
<1> QED
  BY <1>1, <1>2

\* get_or_create returns the table every other slot of the operator holds, or
\* one that nobody has ever used or that was emptied when it was freed.
LEMMA GetOrCreateShares ==
  ASSUME IInv, NEW o \in Ops
  PROVE  /\ GetOrCreate(o) \in Tables /\ GetOrCreate(o) # None
         /\ \A q \in Ops \ {o} : GetOrCreate(o) # store[q]
         /\ \A s \in Sessions : slot[s][o] # None => slot[s][o] = GetOrCreate(o)
         /\ GetOrCreate(o) \notin Live => entry[GetOrCreate(o)] = None
         /\ GetOrCreate(o) \notin Live \/ GetOrCreate(o) = store[o]
<1>1. store["matmul"] \in Tables \cup {None} /\ store["gemm"] \in Tables \cup {None}
      /\ \A q \in Ops : store[q] \in Tables \cup {None}
  BY DEF IInv, TypeOK, Ops
<1>2. CASE store[o] \in Live
  <2>1. GetOrCreate(o) = store[o] /\ store[o] # None
    BY <1>2 DEF GetOrCreate, Live, Held
  <2> QED
    BY <1>1, <1>2, <2>1 DEF IInv, SlotInv, Ops
<1>3. CASE store[o] \notin Live
  <2>1. \A s \in Sessions : slot[s][o] = None
    BY <1>3, LiveIsStored
  <2>2. Fresh # {}
    <3>1. Live \subseteq {store[q] : q \in Ops}
      BY DEF Live, Held, IInv, SlotInv
    <3>2. PICK t \in Tables : t \notin {store["matmul"], store["gemm"]}
      BY <1>1, TablesAssumption
    <3>3. t \notin {store[q] : q \in Ops}
      BY <3>2 DEF Ops
    <3> QED
      BY <3>1, <3>3 DEF Fresh
  <2>3. GetOrCreate(o) \in Fresh
    BY <1>3, <2>2 DEF GetOrCreate
  <2>4. /\ GetOrCreate(o) \in Tables /\ GetOrCreate(o) \notin Live
        /\ \A q \in Ops : GetOrCreate(o) # store[q]
    BY <2>3 DEF Fresh
  <2>5. entry[GetOrCreate(o)] = None
    BY <2>4 DEF IInv, TableInv
  <2> QED
    BY <2>1, <2>4, <2>5, TablesAssumption
<1> QED
  BY <1>2, <1>3

LEMMA ConstructInv ==
  ASSUME IInv, NEW s \in Sessions, NEW o \in Ops, Construct(s, o)
  PROVE  IInv'
<1> DEFINE new == GetOrCreate(o)
<1>1. /\ pc[s] = "new" /\ slot[s][o] = None
      /\ o = "gemm" => slot[s]["matmul"] # None
      /\ slot' = [slot EXCEPT ![s][o] = new] /\ store' = [store EXCEPT ![o] = new]
      /\ UNCHANGED <<autotune, entry, tuner, op, mine, workspace, ran, calls>>
      /\ \/ o = "gemm" /\ pc' = [pc EXCEPT ![s] = "ready"]
         \/ o = "matmul" /\ pc' = pc
  BY DEF Construct, Goto, Ops
<1>2. /\ new \in Tables /\ new # None
      /\ \A q \in Ops \ {o} : new # store[q]
      /\ \A r \in Sessions : slot[r][o] # None => slot[r][o] = new
      /\ new \notin Live => entry[new] = None
      /\ new \notin Live \/ new = store[o]
  BY GetOrCreateShares
<1> HIDE DEF new
<1>3. /\ slot'[s][o] = new /\ store'[o] = new
      /\ \A q \in Ops \ {o} : slot'[s][q] = slot[s][q] /\ store'[q] = store[q]
      /\ \A r \in Sessions \ {s} : slot'[r] = slot[r] /\ pc'[r] = pc[r]
  <2>1. slot \in [Sessions -> [Ops -> Tables \cup {None}]] /\ store \in [Ops -> Tables \cup {None}]
        /\ DOMAIN pc = Sessions
    BY DEF IInv, TypeOK
  <2>2. slot'[s] = [slot[s] EXCEPT ![o] = new] /\ \A r \in Sessions \ {s} : slot'[r] = slot[r]
    BY <1>1, <2>1
  <2>3. slot'[s][o] = new /\ \A q \in Ops \ {o} : slot'[s][q] = slot[s][q]
    BY <2>1, <2>2
  <2>4. store'[o] = new /\ \A q \in Ops \ {o} : store'[q] = store[q]
    BY <1>1, <2>1
  <2>5. \A r \in Sessions \ {s} : pc'[r] = pc[r]
    BY <1>1, <2>1
  <2> QED
    BY <2>2, <2>3, <2>4, <2>5
<1>4. pc'[s] \in {"new", "ready"} /\ (pc'[s] = "ready" => o = "gemm")
  BY <1>1 DEF IInv, TypeOK
<1>5. TypeOK'
  <2>1. /\ slot' \in [Sessions -> [Ops -> Tables \cup {None}]]
        /\ store' \in [Ops -> Tables \cup {None}]
    BY <1>1, <1>2 DEF IInv, TypeOK
  <2>2. ASSUME NEW t \in Tables, tuner[t] # None
        PROVE  (pc[tuner[t]] \in {"tune", "publish"} /\ TableOf(tuner[t]) = t)'
    <3>1. tuner[t] \in Sessions \ {s}
      BY <1>1, <2>2, NotTuning DEF IInv, TypeOK
    <3> QED
      BY <1>1, <1>3, <2>2, <3>1 DEF IInv, TypeOK, TableOf
  <2> QED
    BY <1>1, <2>1, <2>2 DEF IInv, TypeOK
<1>6. SlotInv'
  <2>1. ASSUME NEW r \in Sessions, NEW q \in Ops PROVE slot'[r][q] # None => slot'[r][q] = store'[q]
    <3>1. CASE q = o
      BY <1>2, <1>3, <3>1
    <3>2. CASE q # o
      BY <1>3, <3>2 DEF IInv, SlotInv
    <3> QED
      BY <3>1, <3>2
  <2>2. ASSUME NEW r \in Sessions, NEW q \in Ops, pc'[r] \in Busy \cup {"ready"}
        PROVE  slot'[r][q] # None
    <3>1. CASE r = s
      <4>1. o = "gemm"
        BY <1>4, <2>2, <3>1 DEF Busy, Labels
      <4> QED
        BY <1>1, <1>2, <1>3, <3>1, <4>1 DEF Ops
    <3>2. CASE r # s
      BY <1>3, <2>2, <3>2 DEF IInv, SlotInv
    <3> QED
      BY <3>1, <3>2
  <2>3. store'["matmul"] # store'["gemm"]
    <3>1. \A q \in Ops \ {o} : store'[o] # store'[q]
      BY <1>2, <1>3
    <3> QED
      BY <3>1 DEF Ops
  <2> QED
    BY <2>1, <2>2, <2>3 DEF SlotInv
<1>7. RunsCovered'
  BY <1>1 DEF IInv, RunsCovered
<1>8. ASSUME NEW t \in Tables PROVE TableInv(t)'
  <2>1. tuner[t] # None => pc'[tuner[t]] = pc[tuner[t]]
    BY <1>1, <1>3, NotTuning DEF IInv, TypeOK
  <2>2. t \in Live => t \in Live'
    <3> SUFFICES ASSUME t \in Live PROVE t \in Live'
      OBVIOUS
    <3>1. PICK r \in Sessions, q \in Ops : slot[r][q] = t /\ t # None
      BY DEF Live, Held
    <3>2. slot'[r][q] = t
      BY <1>1, <1>3, <3>1
    <3> QED
      BY <3>1, <3>2 DEF Live, Held
  <2>3. entry[t] # None /\ t = store'["gemm"] => t = store["gemm"]
    <3>1. CASE o = "gemm"
      BY <1>2, <1>3, <3>1 DEF IInv, TableInv
    <3>2. CASE o # "gemm"
      BY <1>3, <3>2 DEF Ops
    <3> QED
      BY <3>1, <3>2
  <2> QED
    BY <1>1, <2>1, <2>2, <2>3 DEF IInv, TableInv
<1>9. ASSUME NEW r \in Sessions \ {s} PROVE ThreadInv(r)'
  <2>1. Entry(r)' = Entry(r) /\ TableOf(r)' = TableOf(r)
    BY <1>1, <1>3 DEF Entry, TableOf
  <2>2. Matured(Entry(r), Entry(r)')
    BY <2>1 DEF Matured
  <2>3. WithEntry(r) => Entry(r) # None
    BY EntryTyped
  <2>4. Undisturbed(r)
    BY <1>1, <1>3, <2>1, <2>2, <2>3 DEF Undisturbed
  <2> QED
    BY <2>4, ThreadKept
<1>10. ThreadInv(s)'
  BY <1>1, <1>4 DEF IInv, ThreadInv, WithCopy, WithEntry, Ensured
<1> QED
  BY <1>5, <1>6, <1>7, <1>8, <1>9, <1>10 DEF IInv

LEMMA CleanupInv ==
  ASSUME IInv, NEW s \in Sessions, Cleanup(s)
  PROVE  IInv'
<1>1. /\ pc[s] = "ready" /\ pc' = [pc EXCEPT ![s] = "gone"]
      /\ slot' = [slot EXCEPT ![s] = [o \in Ops |-> None]]
      /\ entry' = [t \in Tables |-> IF t \in Held(slot') THEN entry[t] ELSE None]
      /\ UNCHANGED <<autotune, store, tuner, op, mine, workspace, ran, calls>>
  BY DEF Cleanup, Goto
<1>2. /\ slot'[s] = [o \in Ops |-> None] /\ pc'[s] = "gone"
      /\ \A r \in Sessions \ {s} : slot'[r] = slot[r] /\ pc'[r] = pc[r]
  BY <1>1 DEF IInv, TypeOK
<1>3. TypeOK'
  <2>1. /\ slot' \in [Sessions -> [Ops -> Tables \cup {None}]]
        /\ entry' \in [Tables -> Entries \cup {None}]
    BY <1>1 DEF IInv, TypeOK
  <2>2. ASSUME NEW t \in Tables, tuner[t] # None
        PROVE  (pc[tuner[t]] \in {"tune", "publish"} /\ TableOf(tuner[t]) = t)'
    <3>1. tuner[t] \in Sessions \ {s}
      BY <1>1, <2>2, NotTuning DEF IInv, TypeOK
    <3> QED
      BY <1>1, <1>2, <2>2, <3>1 DEF IInv, TypeOK, TableOf
  <2> QED
    BY <1>1, <2>1, <2>2 DEF IInv, TypeOK
<1>4. SlotInv'
  BY <1>1, <1>2 DEF IInv, SlotInv, Busy, Labels
<1>5. RunsCovered'
  BY <1>1 DEF IInv, RunsCovered
<1>6. ASSUME NEW t \in Tables PROVE TableInv(t)'
  <2>1. tuner[t] # None => pc'[tuner[t]] = pc[tuner[t]]
    BY <1>1, <1>2, NotTuning DEF IInv, TypeOK
  <2>2. entry'[t] # None => t \in Live' /\ entry'[t] = entry[t]
    BY <1>1 DEF Live
  <2> QED
    BY <1>1, <2>1, <2>2 DEF IInv, TableInv
<1>7. ASSUME NEW r \in Sessions \ {s} PROVE ThreadInv(r)'
  <2>1. CASE WithEntry(r)
    <3>1. TableOf(r) \in Tables /\ Entry(r) # None /\ op[r] \in Ops /\ TableOf(r) # None
      <4>1. TableOf(r) \in Tables /\ Entry(r) # None
        BY <2>1, EntryTyped
      <4>2. op[r] \in Ops
        BY DEF IInv, TypeOK
      <4>3. TableOf(r) # None
        BY <4>1, TablesAssumption
      <4> QED
        BY <4>1, <4>2, <4>3
    <3>2. TableOf(r) \in Held(slot')
      BY <1>2, <3>1 DEF Held, TableOf
    <3>3. Entry(r)' = Entry(r) /\ TableOf(r)' = TableOf(r)
      BY <1>1, <1>2, <3>1, <3>2 DEF Entry, TableOf
    <3>4. Matured(Entry(r), Entry(r)')
      BY <3>3 DEF Matured
    <3>5. Undisturbed(r)
      BY <1>1, <1>2, <3>1, <3>3, <3>4 DEF Undisturbed
    <3> QED
      BY <3>5, ThreadKept
  <2>2. CASE ~WithEntry(r)
    <3>1. Undisturbed(r)
      BY <1>1, <1>2, <2>2 DEF Undisturbed
    <3> QED
      BY <3>1, ThreadKept
  <2> QED
    BY <2>1, <2>2
<1>8. ThreadInv(s)'
  BY <1>1, <1>2 DEF IInv, ThreadInv, WithCopy, WithEntry, Ensured
<1> QED
  BY <1>3, <1>4, <1>5, <1>6, <1>7, <1>8 DEF IInv

-----------------------------------------------------------------------------
LEMMA InitInv == Init => IInv
<1> SUFFICES ASSUME Init PROVE IInv
  OBVIOUS
<1>1. TypeOK
  BY DEF Init, TypeOK, Ops
<1>2. SlotInv /\ RunsCovered
  BY DEF Init, SlotInv, RunsCovered, Busy, Labels, Ops
<1>3. \A t \in Tables : TableInv(t)
  BY DEF Init, TableInv
<1>4. \A s \in Sessions : ThreadInv(s)
  BY DEF Init, ThreadInv, WithCopy, WithEntry, Ensured
<1> QED
  BY <1>1, <1>2, <1>3, <1>4 DEF IInv

LEMMA StutterInv == IInv /\ UNCHANGED vars => IInv'
<1> SUFFICES ASSUME IInv, UNCHANGED vars PROVE IInv'
  OBVIOUS
<1>1. UNCHANGED <<autotune, store, slot, entry, tuner, pc, op, mine, workspace, ran, calls>>
  BY DEF vars, tables, threads
<1>2. TypeOK' /\ SlotInv' /\ RunsCovered'
  BY <1>1 DEF IInv, TypeOK, SlotInv, RunsCovered, TableOf
<1>3. \A t \in Tables : TableInv(t)'
  BY <1>1 DEF IInv, TableInv, Live, Held
<1>4. \A s \in Sessions : ThreadInv(s)'
  BY <1>1 DEF IInv, ThreadInv, WithCopy, WithEntry, Ensured, Entry, TableOf
<1> QED
  BY <1>2, <1>3, <1>4 DEF IInv

LEMMA NextInv == IInv /\ [Next]_vars => IInv'
<1> SUFFICES ASSUME IInv, Next PROVE IInv'
  BY StutterInv
<1>1. PICK s \in Sessions :
        \/ \E o \in Ops : Construct(s, o) \/ StartOp(s, o)
        \/ InitFails(s) \/ Cleanup(s) \/ Operator(s)
  BY DEF Next
<1>2. CASE \E o \in Ops : Construct(s, o) \/ StartOp(s, o)
  BY <1>2, ConstructInv, StartOpInv
<1>3. CASE InitFails(s) \/ Cleanup(s)
  BY <1>3, InitFailsInv, CleanupInv
<1>4. CASE Operator(s)
  BY <1>4, OpFailsInv, QueryMatmulInv, EnsureMatmulInv, CheckInv, LockInv, GiveUpInv,
     WriteAlgoInv, PublishTunedInv, RunMatmulInv, QueryGemmInv, SelectInv, PublishGemmInv,
     EnsureGemmInv, RunGemmInv DEF Operator
<1> QED
  BY <1>1, <1>2, <1>3, <1>4

LEMMA Inductive == Spec => []IInv
BY InitInv, NextInv, PTL DEF Spec

\* The types, and with them: whoever holds a tune_mu is tuning that entry.
THEOREM OpTypes == Spec => []TypeOK
<1>1. IInv => TypeOK
  BY DEF IInv
<1> QED
  BY <1>1, Inductive, PTL

\* However sessions come, fail and go, those of one process share the table of
\* each operator, and a table is not freed under a thread that works with it.
THEOREM OpTablesShared == Spec => []TablesShared
<1>1. ASSUME IInv PROVE TablesShared
  <2>1. ASSUME NEW s \in Sessions, NEW r \in Sessions, NEW o \in Ops,
               {slot[s][o], slot[r][o]} \subseteq Tables
        PROVE  slot[s][o] = slot[r][o]
    BY <1>1, <2>1, TablesAssumption DEF IInv, SlotInv
  <2>2. ASSUME NEW s \in Sessions, pc[s] \in {"check", "lock", "tune", "run"}
        PROVE  TableOf(s) # None /\ Entry(s) # None
    BY <1>1, <2>2, EntryTyped, TablesAssumption DEF WithEntry
  <2> QED
    BY <2>1, <2>2 DEF TablesShared
<1> QED
  BY <1>1, Inductive, PTL

\* Every launch has the workspace its algorithm needs, whichever session chose
\* the algorithm and whenever.
THEOREM OpRunsCovered == Spec => []RunsCovered
<1>1. IInv => RunsCovered
  BY DEF IInv
<1> QED
  BY <1>1, Inductive, PTL

\* Only the holder of tune_mu of an untuned entry changes the choice in it.
LEMMA ChoiceKept ==
  ASSUME IInv, [Next]_vars, NEW t \in Tables,
         entry[t] # None, entry[t].tuned, entry'[t] # None
  PROVE  entry'[t].algo = entry[t].algo /\ entry'[t].need = entry[t].need
<1>1. entry[t] \in Entries
  BY DEF IInv, TypeOK
<1>2. CASE entry'[t] = entry[t]
  BY <1>2
<1>3. ASSUME NEW s \in Sessions, Cleanup(s) PROVE entry'[t] = entry[t]
  BY <1>3 DEF Cleanup
<1>4. ASSUME NEW s \in Sessions, QueryMatmul(s) PROVE entry'[t] = entry[t]
  BY <1>4 DEF QueryMatmul, Entry, IInv, TypeOK
<1>5. ASSUME NEW s \in Sessions, GiveUp(s) \/ WriteAlgo(s) \/ PublishTuned(s)
      PROVE  entry'[t] = entry[t]
  <2>1. pc[s] \in {"tune", "publish"} /\ op[s] = "matmul"
    BY <1>5 DEF GiveUp, WriteAlgo, PublishTuned, IInv, ThreadInv
  <2>2. ~entry[TableOf(s)].tuned
    BY <2>1, Tuning DEF Entry
  <2>3. t # TableOf(s)
    BY <2>2
  <2> QED
    BY <1>5, <2>3 DEF GiveUp, WriteAlgo, PublishTuned, IInv, TypeOK
<1>6. ASSUME NEW s \in Sessions, PublishGemm(s) PROVE entry'[t] = entry[t]
  BY <1>6 DEF PublishGemm, Entry, IInv, TypeOK
<1>7. ASSUME NEW s \in Sessions, Operator(s) PROVE entry'[t] = entry[t]
  <2>1. CASE \/ OpFails(s) \/ EnsureMatmul(s) \/ Check(s) \/ RunMatmul(s)
             \/ QueryGemm(s) \/ EnsureGemm(s) \/ RunGemm(s)
    BY <2>1 DEF OpFails, EnsureMatmul, Check, RunMatmul, QueryGemm, EnsureGemm, RunGemm, tables
  <2>2. CASE Select(s) \/ Lock(s)
    BY <2>2 DEF Select, Lock, tables
  <2>3. CASE GiveUp(s) \/ WriteAlgo(s) \/ PublishTuned(s)
    BY <1>5, <2>3
  <2> QED
    BY <1>4, <1>6, <1>7, <2>1, <2>2, <2>3 DEF Operator
<1>8. CASE UNCHANGED vars
  BY <1>8 DEF vars, tables
<1>9. CASE Next
  BY <1>2, <1>3, <1>7, <1>9 DEF Next, Construct, StartOp, InitFails, tables
<1> QED
  BY <1>2, <1>8, <1>9

\* An algorithm once published stays the choice for as long as the table lives.
THEOREM OpSettledAlgo == Spec => SettledAlgo
<1>1. ASSUME IInv, [Next]_vars
      PROVE  [\A t \in Tables :
               (entry[t] # None /\ entry[t].tuned /\ entry'[t] # None) =>
                 /\ entry'[t].algo = entry[t].algo
                 /\ entry'[t].need = entry[t].need]_vars
  BY <1>1, ChoiceKept
<1> QED
  BY <1>1, Inductive, PTL DEF Spec, SettledAlgo
=============================================================================
