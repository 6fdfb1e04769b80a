---------------------------- MODULE QueueJournal ----------------------------
(***************************************************************************)
(* The event journal of the reporting queue monitor                        *)
(* (factory-reporting-queue.py): which journals are valid and which pairs  *)
(* of journals are a legal transition.                                     *)
(*                                                                         *)
(* A row is one notification: a "stalled" or "drill" incident of a run, or *)
(* the "recovery" of an earlier incident.  The code's row key is a hash of *)
(* the kind with the run (incident rows) or with the incident (recovery    *)
(* rows); an incident row carries its own key as its incident.  The model  *)
(* therefore names an incident by <<kind, run>> and a row by               *)
(* <<row.kind, row.incident>>: the hash is taken to be collision free.     *)
(* Stream identity, field types and string syntax are left out.            *)
(***************************************************************************)
EXTENDS Naturals, Sequences, FiniteSets

CONSTANTS Runs,          \* (run_id, run_attempt) pairs of reporting workers
          Receipts,      \* Slack message ids
          NoReceipt,     \* the JSON null of an unfinished row
          MaxCutoff,     \* observation times are 1..MaxCutoff
          MaxEvents,     \* MAX_EVENTS
          MaxBytes,      \* MAX_BYTES
          RowBytes,      \* bytes of a row that holds no receipt
          ReceiptBytes   \* what confirming a row adds to it

ASSUME JournalAssumption ==
    /\ NoReceipt \notin Receipts
    /\ MaxCutoff \in Nat /\ MaxEvents \in Nat /\ MaxBytes \in Nat
    /\ RowBytes \in Nat /\ ReceiptBytes \in Nat

Kind == {"stalled", "drill", "recovery"}
Status == {"pending", "uncertain", "confirmed"}
Cutoff == 1..MaxCutoff

Incident == {"stalled", "drill"} \X Runs

Row == [kind       : Kind,
        incident   : Incident,
        cutoff     : Cutoff,
        status     : Status,
        message_id : Receipts \cup {NoReceipt}]

Journal == Seq(Row)

Key(row) == <<row.kind, row.incident>>

(***************************************************************************)
(* validate_journal.  The code makes one pass over the rows; each conjunct *)
(* is one thing the pass rejects.  QueueValidate compares this definition  *)
(* with the pass.                                                          *)
(***************************************************************************)
Finished(row) == row.status = "confirmed"

\* Some earlier row settled the recovery of this incident.
Closed(rows, i, incident) ==
    \E k \in 1..(i - 1) : /\ rows[k].kind = "recovery"
                          /\ rows[k].incident = incident
                          /\ Finished(rows[k])

\* Faulty variant: a prolonged stall is not noticed.
OpenStalledNever(rows, i) == FALSE

\* Before row i an incident of kind "stalled" is still open.
OpenStalledBefore(rows, i) ==
    \E j \in 1..(i - 1) : /\ rows[j].kind = "stalled"
                          /\ ~ Closed(rows, i, rows[j].incident)

\* Faulty variant: any earlier confirmed incident justifies a recovery.
RecoveryOfAnything(rows, i) ==
    \E j \in 1..(i - 1) : rows[j].kind # "recovery" /\ Finished(rows[j])

RecoveryJustified(rows, i) ==
    \E j \in 1..(i - 1) : /\ rows[j].kind # "recovery"
                          /\ Finished(rows[j])
                          /\ rows[j].incident = rows[i].incident
                          /\ rows[i].cutoff >= rows[j].cutoff

IncidentIsOwnKey(row) == row.kind # "recovery" => row.incident[1] = row.kind

Bytes(rows) ==
    RowBytes * Len(rows)
      + ReceiptBytes * Cardinality({i \in DOMAIN rows : rows[i].message_id # NoReceipt})

ValidateJournal(rows) ==
    /\ rows \in Journal
    /\ Len(rows) <= MaxEvents
    /\ Bytes(rows) <= MaxBytes
    /\ \A i \in 1..Len(rows) :
          /\ Finished(rows[i]) <=> rows[i].message_id # NoReceipt
          /\ i < Len(rows) => Finished(rows[i])
          /\ IncidentIsOwnKey(rows[i])
          /\ \A j \in 1..(i - 1) : Key(rows[j]) # Key(rows[i])
          /\ rows[i].kind = "recovery" => RecoveryJustified(rows, i)
          /\ rows[i].kind = "stalled" => ~ OpenStalledBefore(rows, i)

(***************************************************************************)
(* validate_transition: one immutable intent append, or one receipt-state  *)
(* transition of a row.                                                    *)
(***************************************************************************)
SameIntent(old, new) ==
    /\ new.kind = old.kind
    /\ new.incident = old.incident
    /\ new.cutoff = old.cutoff

\* Faulty variant: an uncertain send may be made pending again.
ReceiptStepBack == {<<"pending", "uncertain">>, <<"uncertain", "pending">>,
                    <<"pending", "confirmed">>, <<"uncertain", "confirmed">>}

ReceiptStep == {<<"pending", "uncertain">>, <<"pending", "confirmed">>,
                <<"uncertain", "confirmed">>}

Changed(before, after) == {i \in 1..Len(before) : after[i] # before[i]}

\* The journal `None' of the code, a branch without the role file, has no rows.
ValidateTransition(before, after) ==
    /\ ValidateJournal(before)
    /\ ValidateJournal(after)
    /\ Len(after) \in {Len(before), Len(before) + 1}
    /\ \A i \in 1..Len(before) :
          /\ SameIntent(before[i], after[i])
          /\ i \in Changed(before, after) =>
                <<before[i].status, after[i].status>> \in ReceiptStep
    /\ IF Len(after) > Len(before)
       THEN /\ Changed(before, after) = {}
            /\ after[Len(after)].status = "pending"
       ELSE \A i, j \in Changed(before, after) : i = j
=============================================================================
