-------------------------- MODULE MCInferenceCompute --------------------------
(***************************************************************************)
(* Two sessions of one model library on two threads.                       *)
(***************************************************************************)
EXTENDS InferenceCompute, TLC

Symmetric == Permutations(Threads) \cup Permutations(Buffers)
=============================================================================
