--------------------------- MODULE MCHipGpuAllocator ---------------------------
(***************************************************************************)
(* Two threads, a pooled size and large sizes one step of growth apart.    *)
(***************************************************************************)
EXTENDS HipGpuAllocator, TLC

MCSizes == {1000, 64 * MB, 65 * MB, 66 * MB}

Symmetric == Permutations(Ptrs) \cup Permutations(Threads)

\* large_ops_ and the stamps taken from it are only read as ages, and an age
\* beyond four times the most buffers that can be live is as good as any:
\* states with the same ages are one state, so the run needs no bound on the
\* number of operations.
Oldest == 4 * Cardinality(Ptrs) + 1
AgeOf(n) == IF large_ops_ - n > Oldest THEN Oldest ELSE large_ops_ - n

Ages ==
  <<free_lists_, ptr_to_size_, large_live_, live_requested_,
    grown_live_count_, grown_reused_, peak_live_count_, owned, held, call,
    stale, open,
    IF large_ops_ > Oldest THEN Oldest ELSE large_ops_,
    [c \in DOMAIN large_free_ |->
       <<large_free_[c].free, AgeOf(large_free_[c].last_used)>>]>>
=============================================================================
