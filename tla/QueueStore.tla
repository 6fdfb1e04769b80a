----------------------------- MODULE QueueStore -----------------------------
(***************************************************************************)
(* QueueStore of factory-reporting-queue.py: callers move the queue        *)
(* journal, one file of the protected state branch, through the bounded    *)
(* compare-and-set loop `checkpoint'.                                      *)
(*                                                                         *)
(* The branch is also advanced by the digest and feedback workers, which   *)
(* never touch the journal's file.  A ref update carries the head it was   *)
(* built on and the forge accepts it only from that head (GitState, not    *)
(* under src/, writes a commit whose parent is the loaded head and updates *)
(* the ref without force).  Its acknowledgement may be lost, it may never  *)
(* be sent, and a request whose caller gave up may still arrive later.     *)
(***************************************************************************)
EXTENDS QueueJournal

CONSTANTS Callers,            \* processes running the monitor
          Missing,            \* no journal file on the branch (None)
          Initialize,         \* storage['initialize']
          MaxAttempts,        \* range(3) of checkpoint
          MaxWorkerCommits,   \* bound: commits of other workers
          MaxLate             \* bound: abandoned requests under way at once

ASSUME StoreAssumption ==
    /\ Missing \notin Journal
    /\ Initialize \in BOOLEAN
    /\ MaxAttempts \in Nat \ {0}
    /\ MaxWorkerCommits \in Nat /\ MaxLate \in Nat

VARIABLES head,       \* the branch head, numbered by its ref updates
          journal,    \* the journal at that head
          workers,    \* number of worker commits so far
          late,       \* ref updates whose caller gave up waiting
          pc,         \* where each caller is
          expected,   \* its snapshot and precondition
          desired,    \* the journal it wants
          attempt,    \* its CAS attempt
          uncertain,  \* some attempt ended without an acknowledgement
          base,       \* the head its attempt loaded, parent of its update
          result      \* status returned by its last call

branch == <<head, journal, workers, late>>
call == <<expected, desired, attempt, uncertain>>
vars == <<branch, pc, call, base, result>>

Stored == Journal \cup {Missing}
Rows(j) == IF j = Missing THEN <<>> ELSE j
Bootstrap == 0   \* bootstrap_sha: the reviewed head of the first creation

\* validate_transition with None for a missing journal
LegalTransition(before, after) ==
    /\ after # Missing
    /\ ValidateTransition(Rows(before), after)

Results == {"none", "applied", "already-applied", "conflict", "error",
            "write uncertain", "initialization drift", "exhausted"}

TypeOK ==
    /\ head \in Nat
    /\ journal \in Stored
    /\ workers \in 0..MaxWorkerCommits
    /\ late \subseteq [parent : Nat, journal : Journal]
    /\ pc \in [Callers -> {"idle", "load", "cas", "reload"}]
    /\ expected \in [Callers -> Stored]
    /\ desired \in [Callers -> Stored]
    /\ attempt \in [Callers -> 1..MaxAttempts]
    /\ uncertain \in [Callers -> BOOLEAN]
    /\ base \in [Callers -> Nat]
    /\ result \in [Callers -> Results]

Init ==
    /\ head = Bootstrap
    /\ journal = Missing
    /\ workers = 0
    /\ late = {}
    /\ pc = [c \in Callers |-> "idle"]
    /\ expected = [c \in Callers |-> Missing]
    /\ desired = [c \in Callers |-> Missing]
    /\ attempt = [c \in Callers |-> 1]
    /\ uncertain = [c \in Callers |-> FALSE]
    /\ base = [c \in Callers |-> Bootstrap]
    /\ result = [c \in Callers |-> "none"]

(***************************************************************************)
(* _load: a missing journal is accepted only while it may be initialized   *)
(* from the exact reviewed head.                                           *)
(***************************************************************************)
Drifted == journal = Missing /\ head # Bootstrap
Loadable == journal # Missing \/ (Initialize /\ ~ Drifted)

Succeeded(status) == status \in {"applied", "already-applied"}

\* The call ends and its local variables die with it.  What it wrote is the
\* caller's next snapshot; the exception of a failed call ends the process.
\* (After a conflict the refused snapshot is remembered for the properties.)
Return(c, status) ==
    /\ pc' = [pc EXCEPT ![c] = "idle"]
    /\ result' = [result EXCEPT ![c] = status]
    /\ attempt' = [attempt EXCEPT ![c] = 1]
    /\ base' = [base EXCEPT ![c] = Bootstrap]
    /\ desired' = [desired EXCEPT ![c] = Missing]
    /\ expected' = [expected EXCEPT ![c] = CASE Succeeded(status) -> desired[c]
                                              [] status = "conflict" -> @
                                              [] OTHER -> Missing]
    /\ uncertain' = [uncertain EXCEPT ![c] = @ /\ Succeeded(status)]

\* read(): a fresh snapshot for the caller to plan from
Read(c) ==
    /\ pc[c] = "idle"
    /\ Loadable
    /\ expected' = [expected EXCEPT ![c] = journal]
    /\ uncertain' = [uncertain EXCEPT ![c] = FALSE]
    /\ result' = [result EXCEPT ![c] = "none"]
    /\ UNCHANGED <<branch, pc, desired, attempt, base>>

\* What a caller may ask for: the journal as it is, one more pending row, or a
\* receipt step of its last row (the earlier ones are confirmed already).
Successors(rows) ==
    {rows} \cup {Append(rows, [kind |-> k, incident |-> i, cutoff |-> t,
                   status |-> "pending", message_id |-> NoReceipt]) :
        k \in Kind, i \in Incident, t \in Cutoff}
    \cup {[rows EXCEPT ![Len(rows)].status = s, ![Len(rows)].message_id = m] :
        s \in IF rows = <<>> THEN {} ELSE Status, m \in Receipts \cup {NoReceipt}}

\* checkpoint(expected, desired) begins with validate_transition
Begin(c) ==
    /\ pc[c] = "idle"
    /\ \E next \in Successors(Rows(expected[c])) :
          /\ LegalTransition(expected[c], next)
          /\ desired' = [desired EXCEPT ![c] = next]
    /\ pc' = [pc EXCEPT ![c] = "load"]
    /\ uncertain' = [uncertain EXCEPT ![c] = FALSE]
    /\ result' = [result EXCEPT ![c] = "none"]
    /\ UNCHANGED <<branch, expected, attempt, base>>

\* Faulty variant: takes the snapshot on trust instead of comparing it.
LoadOverwrites(c) ==
    /\ pc[c] = "load"
    /\ Loadable
    /\ \/ journal = desired[c] /\ Return(c, "already-applied")
       \/ /\ journal # desired[c]
          /\ base' = [base EXCEPT ![c] = head]
          /\ pc' = [pc EXCEPT ![c] = "cas"]
          /\ UNCHANGED <<call, result>>
    /\ UNCHANGED branch

\* The load at the top of an attempt; its exceptions leave checkpoint as they are.
Load(c) ==
    /\ pc[c] = "load"
    /\ Loadable
    /\ \/ journal = desired[c] /\ Return(c, "already-applied")
       \/ /\ journal # desired[c]
          /\ journal # expected[c]
          /\ Return(c, "conflict")
       \/ /\ journal # desired[c]
          /\ journal = expected[c]
          /\ base' = [base EXCEPT ![c] = head]
          /\ pc' = [pc EXCEPT ![c] = "cas"]
          /\ UNCHANGED <<call, result>>
    /\ UNCHANGED branch

LoadFails(c) ==
    /\ pc[c] = "load"
    /\ Return(c, IF Drifted THEN "initialization drift" ELSE "error")
    /\ UNCHANGED branch

\* Faulty variant: a forced ref update.
UpdateRefForced(parent, new) ==
    /\ parent <= head
    /\ head' = head + 1
    /\ journal' = new
    /\ UNCHANGED workers

\* The forge takes a ref update only from the head it was built on.
UpdateRef(parent, new) ==
    /\ parent = head
    /\ head' = head + 1
    /\ journal' = new
    /\ UNCHANGED workers

CasAcknowledged(c) ==
    /\ pc[c] = "cas"
    /\ UpdateRef(base[c], desired[c])
    /\ base' = [base EXCEPT ![c] = Bootstrap]
    /\ pc' = [pc EXCEPT ![c] = "reload"]
    /\ UNCHANGED <<late, call, result>>

\* Faulty variant: a failed write is not remembered.
CasRaisesQuietly(c) ==
    /\ pc[c] = "cas"
    /\ \/ UpdateRef(base[c], desired[c]) /\ UNCHANGED late
       \/ UNCHANGED branch
    /\ base' = [base EXCEPT ![c] = Bootstrap]
    /\ pc' = [pc EXCEPT ![c] = "reload"]
    /\ UNCHANGED <<call, result>>

\* current.checkpoint raised: the update was applied but its reply lost, was
\* rejected or never sent, or is still under way.
CasRaises(c) ==
    /\ pc[c] = "cas"
    /\ \/ UpdateRef(base[c], desired[c]) /\ UNCHANGED late
       \/ UNCHANGED branch
       \/ /\ Cardinality(late) < MaxLate
          /\ late' = late \cup {[parent |-> base[c], journal |-> desired[c]]}
          /\ UNCHANGED <<head, journal, workers>>
    /\ uncertain' = [uncertain EXCEPT ![c] = TRUE]
    /\ base' = [base EXCEPT ![c] = Bootstrap]
    /\ pc' = [pc EXCEPT ![c] = "reload"]
    /\ UNCHANGED <<expected, desired, attempt, result>>

\* Faulty variant: the attempts are not counted.
ReloadForever(c) ==
    /\ pc[c] = "reload"
    /\ Loadable
    /\ \/ journal = desired[c] /\ Return(c, "applied")
       \/ journal # desired[c] /\ journal # expected[c] /\ Return(c, "conflict")
       \/ /\ journal # desired[c]
          /\ journal = expected[c]
          /\ pc' = [pc EXCEPT ![c] = "load"]
          /\ UNCHANGED <<call, base, result>>
    /\ UNCHANGED branch

\* The readback that alone decides the outcome of an attempt.
Reload(c) ==
    /\ pc[c] = "reload"
    /\ Loadable
    /\ \/ journal = desired[c] /\ Return(c, "applied")
       \/ /\ journal # desired[c]
          /\ journal # expected[c]
          /\ Return(c, "conflict")
       \/ /\ journal # desired[c]
          /\ journal = expected[c]
          /\ attempt[c] = MaxAttempts
          /\ Return(c, "exhausted")
       \/ /\ journal # desired[c]
          /\ journal = expected[c]
          /\ attempt[c] < MaxAttempts
          /\ attempt' = [attempt EXCEPT ![c] = @ + 1]
          /\ pc' = [pc EXCEPT ![c] = "load"]
          /\ UNCHANGED <<expected, desired, uncertain, base, result>>
    /\ UNCHANGED branch

ReloadFails(c) ==
    /\ pc[c] = "reload"
    /\ Return(c, IF Drifted THEN "initialization drift" ELSE "write uncertain")
    /\ UNCHANGED branch

\* The runner dies inside the call; only the branch survives.
Crash(c) ==
    /\ pc[c] # "idle"
    /\ Return(c, "none")
    /\ UNCHANGED branch

\* A request of the past reaches the forge.
LateArrival ==
    \E w \in late :
       /\ \/ UpdateRef(w.parent, w.journal)
          \/ w.parent # head /\ UNCHANGED <<head, journal, workers>>
       /\ late' = late \ {w}
       /\ UNCHANGED <<pc, call, base, result>>

\* A digest or feedback worker commits its own files.
WorkerCommit ==
    /\ workers < MaxWorkerCommits
    /\ workers' = workers + 1
    /\ head' = head + 1
    /\ UNCHANGED <<journal, late, pc, call, base, result>>

CallStep(c) == \/ Load(c) \/ LoadFails(c)
               \/ CasAcknowledged(c) \/ CasRaises(c)
               \/ Reload(c) \/ ReloadFails(c)

Next == \/ \E c \in Callers : Read(c) \/ Begin(c) \/ CallStep(c) \/ Crash(c)
        \/ LateArrival
        \/ WorkerCommit

Spec == Init /\ [][Next]_vars

\* A runner that is not killed keeps executing its call.
FairSpec == Spec /\ \A c \in Callers : WF_vars(CallStep(c))

-----------------------------------------------------------------------------
(***************************************************************************)
(* Properties                                                              *)
(***************************************************************************)

\* Growth(a, b): b keeps every intent of a in place and no receipt state of it
\* went back; a confirmed row is kept to the byte.
Rank(row) == CASE row.status = "pending" -> 0
               [] row.status = "uncertain" -> 1
               [] row.status = "confirmed" -> 2

RowGrowth(old, new) ==
    /\ SameIntent(old, new)
    /\ Rank(old) <= Rank(new)
    /\ Finished(old) => new = old

Growth(a, b) ==
    \/ a = Missing
    \/ /\ b # Missing
       /\ Len(a) <= Len(b)
       /\ \A i \in 1..Len(a) : RowGrowth(a[i], b[i])

\* A call that reported success told the truth for good: whatever other
\* callers, late requests and worker commits did since, the stored journal
\* still holds what the caller asked for (checkpoint lines 202-203, 215-216).
SuccessIsDurable ==
    \A c \in Callers : Succeeded(result[c]) => Growth(expected[c], journal)

\* "applied" without a reconciled write means this caller wrote the journal:
\* two callers that raced for the same intent never both get that answer, so
\* uncertain_write_reconciled is what tells the author from a bystander.
CertainWriter(c) == result[c] = "applied" /\ ~ uncertain[c]
OneCertainWriter ==
    \A c, d \in Callers :
       CertainWriter(c) /\ CertainWriter(d) /\ expected[c] = expected[d] => c = d

\* A conflict is final: the snapshot it was reported for never becomes the
\* stored journal again, so retrying with it cannot succeed and the caller has
\* to read and reconcile (lines 204, 217).
ConflictIsFinal ==
    \A c \in Callers : result[c] = "conflict" => journal # expected[c]

\* The notifications the stored journal stands for: the keys of its confirmed
\* rows, and its unfinished row.
NoIntent == <<>>
ToldKeys(rows) == {Key(rows[i]) : i \in {k \in 1..Len(rows) : Finished(rows[k])}}
OpenIntent(rows) ==
    IF rows = <<>> \/ Finished(rows[Len(rows)])
    THEN NoIntent
    ELSE <<Key(rows[Len(rows)]), rows[Len(rows)].status>>

Ledger == INSTANCE NotificationLedger
          WITH told <- ToldKeys(Rows(journal)), intent <- OpenIntent(Rows(journal))

\* The store implements the notification ledger: one intent at a time, durable
\* before its receipt, each incident told once and each recovery only of a told
\* incident, nothing ever untold, no matter how calls race, fail or arrive late.
ImplementsLedger == Ledger!Spec

\* Every call ends, whatever the branch and the network do (lines 200-218).
CallReturns == \A c \in Callers : pc[c] # "idle" ~> pc[c] = "idle"

\* A measure of a call in progress: what is left of its loop of three steps.
StepsLeft(c) ==
    CASE pc[c] = "idle" -> 0
      [] pc[c] = "reload" -> 3 * (MaxAttempts - attempt[c]) + 1
      [] pc[c] = "cas" -> 3 * (MaxAttempts - attempt[c]) + 2
      [] pc[c] = "load" -> 3 * (MaxAttempts - attempt[c]) + 3

\* What CallReturns rests on: every step of a call uses up its bounded loop, and no
\* step of the branch, the network or another caller gives any of it back or touches
\* its variables (lines 200-218).
StepsRunOut ==
    [][\A c \in Callers : pc[c] # "idle" =>
          \/ StepsLeft(c)' < StepsLeft(c)
          \/ UNCHANGED <<pc[c], expected[c], desired[c], attempt[c],
                         uncertain[c], base[c], result[c]>>]_vars

\* An unfinished row can always be reconciled: some receipt turns the stored
\* journal into a valid one with that row confirmed.  The error of line 74
\* ("queue unfinished event must reconcile first") relies on it.
UnfinishedCanReconcile ==
    OpenIntent(Rows(journal)) # NoIntent =>
       \E m \in Receipts :
          ValidateJournal([journal EXCEPT ![Len(journal)].status = "confirmed",
                                          ![Len(journal)].message_id = m])

-----------------------------------------------------------------------------
(***************************************************************************)
(* The inductive invariant of the proofs (QueueStoreProofs), checked by    *)
(* TLC first.                                                              *)
(***************************************************************************)
StoredValid == journal # Missing => ValidateJournal(journal)

\* Every snapshot a caller holds is a past of the stored journal.
SnapshotsArePast ==
    \A c \in Callers : /\ Growth(expected[c], journal)
                       /\ expected[c] # Missing => ValidateJournal(expected[c])

\* A call in progress wants a legal transition of its snapshot.
CallsAreLegal ==
    \A c \in Callers :
       pc[c] # "idle" => result[c] = "none" /\ LegalTransition(expected[c], desired[c])

\* If the head a caller built on is still the head, so is its snapshot.
BaseIsFresh ==
    \A c \in Callers :
       pc[c] = "cas" => base[c] <= head /\ (base[c] = head => journal = expected[c])

\* A request that can still be accepted asks a legal step of the stored journal.
LateIsLegal ==
    \A w \in late :
       w.parent <= head /\ (w.parent = head => LegalTransition(journal, w.journal))

SuccessIsSnapshot == \A c \in Callers : Succeeded(result[c]) => expected[c] # Missing

\* A caller whose update was acknowledged in this attempt, or that has said so;
\* and what it wrote.
Author(c) == ~ uncertain[c] /\ (pc[c] = "reload" \/ result[c] = "applied")
Wanted(c) == IF pc[c] = "idle" THEN expected[c] ELSE desired[c]

\* What an author wrote is in the past of the journal, so nobody writes it again.
OneAuthor ==
    /\ \A c \in Callers : pc[c] = "cas" => desired[c] # expected[c]
    /\ \A c \in Callers : Author(c) => Growth(Wanted(c), journal)
    /\ \A c, d \in Callers : Author(c) /\ Author(d) /\ Wanted(c) = Wanted(d) => c = d

\* What makes the safety properties inductive: a ref update is accepted only
\* from the head it was built on (BaseIsFresh, LateIsLegal), so every change of
\* the journal is a legal transition and every snapshot stays in its past.
StoreInvariant ==
    /\ TypeOK
    /\ StoredValid
    /\ SnapshotsArePast
    /\ CallsAreLegal
    /\ BaseIsFresh
    /\ LateIsLegal
    /\ SuccessIsSnapshot
    /\ ConflictIsFinal
    /\ OneAuthor
=============================================================================
