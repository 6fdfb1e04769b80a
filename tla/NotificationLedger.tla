------------------------- MODULE NotificationLedger -------------------------
(***************************************************************************)
(* What the queue monitor's journal promises, without journal, branch or   *)
(* callers: a set of notifications that were told, and at most one intent  *)
(* that is not settled yet.  A notification is <<kind, incident>>, an      *)
(* incident <<kind, run>>.                                                 *)
(***************************************************************************)
CONSTANT Runs

VARIABLES told,    \* the notifications with a receipt
          intent   \* <<>>, or the unsettled notification and its status

IncidentKinds == {"stalled", "drill"}
NoOpenIntent == <<>>

\* A stalled incident is open until the recovery of it is told.
Unrecovered ==
    {n \in told : n[1] = "stalled" /\ <<"recovery", n[2]>> \notin told}

LedgerInit == told = {} /\ intent = NoOpenIntent

\* A prolonged stall is announced once: no second one while the first is open.
IntendIncident(kind, run) ==
    LET n == <<kind, <<kind, run>>>>
    IN  /\ intent = NoOpenIntent
        /\ n \notin told
        /\ kind = "stalled" => Unrecovered = {}
        /\ intent' = <<n, "pending">>
        /\ UNCHANGED told

\* A recovery is announced of a told incident, and once.
IntendRecovery(kind, run) ==
    LET incident == <<kind, run>>
    IN  /\ intent = NoOpenIntent
        /\ <<kind, incident>> \in told
        /\ <<"recovery", incident>> \notin told
        /\ intent' = <<<<"recovery", incident>>, "pending">>
        /\ UNCHANGED told

\* The effect of the send is not known.
Doubt ==
    /\ intent # NoOpenIntent
    /\ intent[2] = "pending"
    /\ intent' = <<intent[1], "uncertain">>
    /\ UNCHANGED told

\* The receipt of the send was found.
Settle ==
    /\ intent # NoOpenIntent
    /\ told' = told \cup {intent[1]}
    /\ intent' = NoOpenIntent

LedgerNext ==
    \/ \E kind \in IncidentKinds, run \in Runs :
          IntendIncident(kind, run) \/ IntendRecovery(kind, run)
    \/ Doubt
    \/ Settle

Spec == LedgerInit /\ [][LedgerNext]_<<told, intent>>
=============================================================================
