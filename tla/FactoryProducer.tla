--------------------------- MODULE FactoryProducer --------------------------
(***************************************************************************)
(* A protected producer (factory-verification.yml, factory-review.yml):    *)
(* for the head of a candidate it starts a check, produces a proof, signs  *)
(* it, keeps the signature, uploads both and completes the check.  Runs of *)
(* one candidate and role share a concurrency group.  The two workflows    *)
(* are the same but for what produces the proof; this is one of them.      *)
(*                                                                         *)
(* The helper that starts the check is given the pull request and not a    *)
(* commit: it is the head at that time that the run goes on to judge.      *)
(***************************************************************************)
EXTENDS Naturals, ActionsGroup

CONSTANT MaxEvents   \* bound: pushes, reopenings and the like of the candidate

ASSUME ProducerAssumption == MaxEvents \in Nat \ {0} /\ Idle \notin [id : Nat, draft : BOOLEAN]

VARIABLES head,      \* the head of the candidate
          draft,
          events,    \* how many events have raised a run
          group,     \* the group factory-<role>-<pr>
          next,      \* the step that the run in progress comes to
          started,   \* the head the check was started for, NoHead before
          outcome,   \* steps.<id>.outcome of the run in progress
          check,     \* the check of every head, with the run it links to
          artifacts, \* what has been uploaded
          orphaned   \* whether the run of the last event was lost (history)

run == <<next, started, outcome>>
vars == <<head, draft, events, group, run, check, artifacts, orphaned>>

NoHead == 0
Heads == 1..MaxEvents
Runs == [id : 1..MaxEvents, draft : BOOLEAN]

\* proof, signature, signature_bundle and upload, then the check is completed.
Steps == 1..4
Outcomes == {"success", "failure", "cancelled", "skipped"}
Fresh == next' = 0 /\ started' = NoHead /\ outcome' = [s \in Steps |-> "skipped"]

TypeOK ==
    /\ head \in Heads /\ draft \in BOOLEAN /\ events \in 0..MaxEvents
    /\ group \in Groups(Runs)
    /\ next \in 0..5 /\ started \in Heads \cup {NoHead}
    /\ outcome \in [Steps -> Outcomes]
    /\ check \in [Heads -> [state : {"none", "in_progress", "success", "failure"},
                            run : 0..MaxEvents]]
    /\ artifacts \subseteq [run : 1..MaxEvents, head : Heads, proof : BOOLEAN, signed : BOOLEAN]
    /\ orphaned \in BOOLEAN

\* The candidate is opened: the first event.
Init ==
    /\ head = 1 /\ draft \in BOOLEAN /\ events = 1
    /\ group = Enter(EmptyGroup, [id |-> 1, draft |-> draft])
    /\ next = 0 /\ started = NoHead /\ outcome = [s \in Steps |-> "skipped"]
    /\ check = [h \in Heads |-> [state |-> "none", run |-> 0]]
    /\ artifacts = {}
    /\ orphaned = FALSE

(***************************************************************************)
(* Events: synchronize, reopened and ready_for_review raise a run, and the *)
(* guard of its job looks at the draft flag of the event.                  *)
(***************************************************************************)
\* Faulty variant: ready_for_review is not among the types.
RaiseUnlessReady(h, d) ==
    /\ events < MaxEvents
    /\ events' = events + 1
    /\ orphaned' = FALSE
    /\ group' = IF h = head /\ draft /\ ~ d THEN group
                ELSE Enter(group, [id |-> events + 1, draft |-> d])

Raise(h, d) ==
    /\ events < MaxEvents
    /\ events' = events + 1
    /\ orphaned' = FALSE
    /\ group' = Enter(group, [id |-> events + 1, draft |-> d])

Push ==
    /\ head < MaxEvents
    /\ head' = head + 1
    /\ Raise(head + 1, draft)
    /\ UNCHANGED <<draft, run, check, artifacts>>

ReadyForReview ==
    /\ draft
    /\ draft' = FALSE
    /\ Raise(head, FALSE)
    /\ UNCHANGED <<head, run, check, artifacts>>

Reopen ==
    /\ Raise(head, draft)
    /\ UNCHANGED <<head, draft, run, check, artifacts>>

\* No event of the two workflows.
ConvertToDraft ==
    /\ ~ draft
    /\ events < MaxEvents
    /\ draft' = TRUE
    /\ UNCHANGED <<head, events, group, run, check, artifacts, orphaned>>

(***************************************************************************)
(* The run in progress                                                     *)
(***************************************************************************)
InProgress == group.running # Idle

EndRun == group' = Leave(group) /\ Fresh

SkippedByGuard ==
    /\ InProgress
    /\ group.running.draft
    /\ EndRun
    /\ UNCHANGED <<head, draft, events, check, artifacts, orphaned>>

\* Faulty variant: the guard of the job does not look at the draft flag.
StartCheckOfDraft ==
    /\ InProgress
    /\ next = 0
    /\ started' = head
    /\ check' = [check EXCEPT ![head] = [state |-> "in_progress", run |-> group.running.id]]
    /\ next' = 1
    /\ UNCHANGED <<head, draft, events, group, outcome, artifacts, orphaned>>

\* Faulty variant: a check in progress is taken for the work of another run.
StartCheckOnce ==
    /\ InProgress
    /\ ~ group.running.draft
    /\ next = 0
    /\ IF check[head].state = "in_progress"
       THEN EndRun /\ UNCHANGED check
       ELSE /\ started' = head
            /\ check' = [check EXCEPT ![head] =
                            [state |-> "in_progress", run |-> group.running.id]]
            /\ next' = 1
            /\ UNCHANGED <<group, outcome>>
    /\ UNCHANGED <<head, draft, events, artifacts, orphaned>>

StartCheck ==
    /\ InProgress
    /\ ~ group.running.draft
    /\ next = 0
    /\ started' = head
    /\ check' = [check EXCEPT ![head] = [state |-> "in_progress", run |-> group.running.id]]
    /\ next' = 1
    /\ UNCHANGED <<head, draft, events, group, outcome, artifacts, orphaned>>

\* When a step runs: the proof once the check is started, the signature after a
\* successful proof, its bundle after a signature, the upload after any proof.
RunsStep(s) ==
    CASE s = 1 -> TRUE
      [] s = 2 -> outcome[1] = "success"
      [] s = 3 -> outcome[2] = "success"
      [] s = 4 -> outcome[1] # "skipped"

\* The steps before the last.  A job that is cancelled skips the rest of them, but
\* the upload of a proof and the completion of the check run always.
CanEnd(s) == {o \in Outcomes : /\ o # "skipped" => RunsStep(s)
                               /\ o = "skipped" => ~ RunsStep(s) \/ s # 4}

Step ==
    /\ InProgress
    /\ next \in Steps
    /\ \E o \in CanEnd(next) :
          /\ outcome' = [outcome EXCEPT ![next] = o]
          /\ artifacts' = IF next = 4 /\ o = "success"
                          THEN artifacts \cup {[run |-> group.running.id, head |-> started,
                                                proof |-> outcome[1] = "success",
                                                signed |-> outcome[3] = "success"]}
                          ELSE artifacts
    /\ next' = next + 1
    /\ UNCHANGED <<head, draft, events, group, started, check, orphaned>>

\* Faulty variant: the outcome of the upload is forgotten.
VerdictBeforeUpload ==
    IF \A s \in Steps \ {4} : outcome[s] = "success" THEN "success" ELSE "failure"

Verdict == IF \A s \in Steps : outcome[s] = "success" THEN "success" ELSE "failure"

CompleteCheck ==
    /\ InProgress
    /\ next = 5
    /\ started # NoHead
    /\ check' = [check EXCEPT ![started].state = Verdict]
    /\ EndRun
    /\ UNCHANGED <<head, draft, events, artifacts, orphaned>>

\* The API refuses to start a check: no proof, no upload, nothing to complete.
StartFails ==
    /\ InProgress
    /\ ~ group.running.draft
    /\ next = 0
    /\ EndRun
    /\ orphaned' = (group.waiting = Idle)
    /\ UNCHANGED <<head, draft, events, check, artifacts>>

\* The runner is lost, or the API refuses the verdict: the check stays open.
RunLost ==
    /\ InProgress
    /\ next > 0
    /\ EndRun
    /\ orphaned' = (group.waiting = Idle)
    /\ UNCHANGED <<head, draft, events, check, artifacts>>

Next == \/ Push \/ ReadyForReview \/ Reopen \/ ConvertToDraft
        \/ SkippedByGuard \/ StartCheck \/ Step \/ CompleteCheck
        \/ StartFails \/ RunLost

Spec == Init /\ [][Next]_vars

\* A job in progress goes on to its end; nobody has to push.
FairSpec == Spec /\ WF_vars(SkippedByGuard) /\ WF_vars(StartCheck \/ StartFails)
                 /\ WF_vars(Step) /\ WF_vars(CompleteCheck)

-----------------------------------------------------------------------------
\* "The check succeeds only if proof generation and artifact upload succeed", and
\* the coordinator "follows that check's run link" (docs/FACTORY-PRODUCERS.md):
\* the run a successful check links to has uploaded a signed proof of that head,
\* however the head moved while the run was at work.
SuccessIsBacked ==
    \A h \in Heads :
       check[h].state = "success" =>
          [run |-> check[h].run, head |-> h, proof |-> TRUE, signed |-> TRUE] \in artifacts

\* What makes it inductive: the run in progress is newer than the checks of other
\* runs, and has uploaded what its outcomes say.
EvidenceInvariant ==
    /\ TypeOK
    /\ SuccessIsBacked
    /\ next > 0 => /\ InProgress /\ started # NoHead
                   /\ check[started].run = group.running.id
    /\ next = 5 /\ outcome[4] = "success" =>
          [run |-> group.running.id, head |-> started, proof |-> outcome[1] = "success",
           signed |-> outcome[3] = "success"] \in artifacts

\* Nothing waits for a group that is free, the guard was passed by a run at work, and
\* the run that waits would be skipped only if the candidate is a draft.
GroupInvariant ==
    /\ group.waiting # Idle => InProgress /\ (group.waiting.draft => draft)
    /\ next > 0 => ~ group.running.draft

RunInvariant == EvidenceInvariant /\ GroupInvariant

\* No event is used up in vain: the newest head of a candidate that is no draft is
\* judged, or the run in progress judges it or has not chosen its head yet, or one
\* that will choose it waits, whatever run took the group's one waiting place, and
\* whatever earlier run was lost and left its check in progress.  The one exception is
\* a run that was refused or lost with no event after its own (lines 4-14, 18-22).
Judged == check[head].state \in {"success", "failure"}
NewestHeadIsAwaited ==
    \/ draft \/ orphaned \/ Judged
    \/ InProgress /\ ~ group.running.draft /\ (next = 0 \/ started = head)
    \/ group.waiting # Idle /\ ~ group.waiting.draft

\* However pushes, draft changes and the group's one waiting place fall out, the
\* head that stays the newest of a candidate that is no draft is judged, also after a
\* lost runner has left its check in progress, if any event came after that run's own
\* (factory-verification.yml lines 2-14, 18-22).
NewestHeadIsJudged == <>[](Judged \/ draft \/ orphaned)
=============================================================================
