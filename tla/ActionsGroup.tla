---------------------------- MODULE ActionsGroup ----------------------------
(***************************************************************************)
(* A GitHub Actions concurrency group as the workflows use it with         *)
(* cancel-in-progress: false: one run is in progress and at most one       *)
(* waits.  A newer request takes the place of the one that waits, which is *)
(* cancelled; a run enters the group before the guards of its jobs are     *)
(* looked at.                                                              *)
(***************************************************************************)
CONSTANT Idle   \* no run

EmptyGroup == [running |-> Idle, waiting |-> Idle]

Groups(R) == [running : R \cup {Idle}, waiting : R \cup {Idle}]

\* Faulty variant: a run that finds another waiting is the one cancelled.
EnterBehind(group, run) ==
    CASE group.running = Idle -> [group EXCEPT !.running = run]
      [] group.running # Idle /\ group.waiting = Idle -> [group EXCEPT !.waiting = run]
      [] OTHER -> group

\* A new run asks for the group.
Enter(group, run) ==
    IF group.running = Idle THEN [group EXCEPT !.running = run]
                            ELSE [group EXCEPT !.waiting = run]

\* The run in progress ends; the one that waits, if any, starts.
Leave(group) == [running |-> group.waiting, waiting |-> Idle]
=============================================================================
