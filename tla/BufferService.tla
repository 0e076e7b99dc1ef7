----------------------------- MODULE BufferService -----------------------------
(***************************************************************************)
(* What callers of the pooling allocator and the driver below it may rely  *)
(* on, with no free list, no registry and no thread: a buffer is granted   *)
(* to one caller at a time and never has fewer bytes than asked for nor    *)
(* more than the pool may add, and it goes back to the driver only while   *)
(* no caller has it, or all at once at the end.  HipGpuAllocator           *)
(* implements this module.                                                 *)
(***************************************************************************)
CONSTANTS Buffers,      \* addresses of the driver
          Requests,     \* sizes callers ask for
          Capacities    \* Capacities[size]: what a buffer serving size can hold

VARIABLES granted,      \* buffer a caller has -> the size asked for
          backing,      \* buffer the driver gave -> its bytes
          open          \* FALSE once the service is over

vars == <<granted, backing, open>>

Init == granted = <<>> /\ backing = <<>> /\ open = TRUE

Acquire(p) ==
  /\ p \notin DOMAIN backing
  /\ DOMAIN backing' = DOMAIN backing \cup {p}
  /\ \E size \in Requests : backing'[p] \in Capacities[size]
  /\ backing' = [q \in DOMAIN backing' |->
                   IF q = p THEN backing'[p] ELSE backing[q]]
  /\ UNCHANGED granted

GiveUp(p) ==
  /\ p \in DOMAIN backing \ DOMAIN granted
  /\ backing' = [q \in DOMAIN backing \ {p} |-> backing[q]]
  /\ UNCHANGED granted

Grant(p, size) ==
  /\ p \in DOMAIN backing \ DOMAIN granted
  /\ backing[p] \in Capacities[size]
  /\ granted' = [q \in DOMAIN granted \cup {p} |->
                   IF q = p THEN size ELSE granted[q]]
  /\ UNCHANGED backing

TakeBack(p) ==
  /\ p \in DOMAIN granted
  /\ granted' = [q \in DOMAIN granted \ {p} |-> granted[q]]
  /\ UNCHANGED backing

Serve(p) ==
  /\ open /\ UNCHANGED open
  /\ \/ Acquire(p) \/ GiveUp(p) \/ TakeBack(p)
     \/ \E size \in Requests : Grant(p, size)

\* What callers still have goes with the rest.
Close ==
  /\ open /\ open' = FALSE
  /\ backing' = <<>>
  /\ UNCHANGED granted

Next == (\E p \in Buffers : Serve(p)) \/ Close

Spec == Init /\ [][Next]_vars
=============================================================================
