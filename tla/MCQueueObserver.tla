-------------------------- MODULE MCQueueObserver --------------------------
(* Runs of one workflow. *)
EXTENDS QueueObserver

OneHome == [r \in Runs |-> 1]
=============================================================================
