---------------------------- MODULE MCQueueStore ----------------------------
(* Model of QueueStore for TLC. *)
EXTENDS QueueStore, TLC

Symmetry == Permutations(Callers)
=============================================================================
