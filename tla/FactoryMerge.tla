---------------------------- MODULE FactoryMerge ----------------------------
(***************************************************************************)
(* The merge authority (factory-merge.yml): every completed check of a     *)
(* candidate, and every dispatch of auto-merge.yml or an operator, asks    *)
(* for an evaluation; the evaluations of the whole repository go through   *)
(* one concurrency group; an evaluation looks at the candidate's head,     *)
(* publishes the eligibility of that head and, in merge mode, merges it.   *)
(*                                                                         *)
(* The checks of a head stand for the required checks of policy.json.  The *)
(* policy is the revision of main it was last changed in, reduced to its   *)
(* merge_enabled.                                                          *)
(***************************************************************************)
EXTENDS Naturals, ActionsGroup

CONSTANTS PRs,
          Checks,         \* the required checks of a head
          Producers,      \* those of the protected producers (pull_request_target)
          MaxHead,        \* bound: how many heads a candidate ever has
          ShadowDispatch, \* whether an operator dispatches shadow evaluations
          SkippedRuns,    \* whether runs complete that the job's guard skips
          ApiFails        \* whether an evaluation may end with a hard failure

ASSUME MergeAssumption == /\ MaxHead \in Nat \ {0} /\ Idle \notin PRs
                          /\ Checks # {} /\ Producers \subseteq Checks

VARIABLES policy,  \* merge_enabled of policy.json on main
          pr,      \* the candidates
          group,   \* the concurrency group factory-integration-<repository>
          seen,    \* what the run in progress has read of its candidate
          greenSince, \* candidates all green since their last verdict (history)
          lost        \* whether a mergeable candidate lost its evaluation (history)

vars == <<policy, pr, group, seen, greenSince, lost>>

Heads == 1..MaxHead
Results == {"success", "failure"}
Candidates == [state : {"none", "open", "merged"}, head : Heads,
               current : BOOLEAN,                \* up to date with main
               evidence : BOOLEAN,               \* policy of its producers
               checks : [Checks -> Results \cup {"pending"}],
               eligible : Results \cup {"none"}] \* factory-eligibility of the head
Requests == [pr : PRs, mode : {"merge", "shadow"}, policy : BOOLEAN,
             event : {"workflow_run", "workflow_dispatch"}]
\* A run that evaluates nobody: its guard skips the job (lines 27-32), or the producer
\* it follows has left no artifact that names a candidate (lines 60-67).
Futile == [pr |-> Idle]
Nothing == [head |-> 0, ready |-> FALSE]

ASSUME IdleAssumption == Idle \notin Requests

TypeOK ==
    /\ policy \in BOOLEAN
    /\ pr \in [PRs -> Candidates]
    /\ group \in Groups(Requests \cup {Futile})
    /\ seen \in [head : Heads \cup {0}, ready : BOOLEAN]
    /\ greenSince \in SUBSET PRs
    /\ lost \in BOOLEAN

Init ==
    /\ policy \in BOOLEAN
    /\ pr = [p \in PRs |-> [state |-> "none", head |-> 1, current |-> TRUE,
                            evidence |-> policy,
                            checks |-> [c \in Checks |-> "pending"],
                            eligible |-> "none"]]
    /\ group = EmptyGroup
    /\ seen = Nothing
    /\ greenSince = {}
    /\ lost = FALSE

Green(p) == pr[p].state = "open" /\ \A c \in Checks : pr[p].checks[c] = "success"

\* The policy in force lets p merge, which is all green and up to date.
Mergeable(p) == policy /\ Green(p) /\ pr[p].current

\* An evaluation that would merge p if it read it as mergeable now.
Merges(r, p) == r # Idle /\ r.pr = p /\ r.mode = "merge" /\ r.policy

\* History: who is, or has been, all green since its last verdict; a verdict on
\* p starts over.
CountGreen(verdicts) ==
    greenSince' = (greenSince \ verdicts) \cup {p \in PRs : Green(p)'}

(***************************************************************************)
(* Requests                                                                *)
(***************************************************************************)
\* The mode of a workflow_run is merge_enabled of the commit that main had when
\* the event was raised: the run checks out github.sha (lines 37-40, 73).
FromWorkflowRun(p) ==
    [pr |-> p, mode |-> IF policy THEN "merge" ELSE "shadow",
     policy |-> policy, event |-> "workflow_run"]

FromDispatch(p, mode) ==
    [pr |-> p, mode |-> mode, policy |-> policy, event |-> "workflow_dispatch"]

\* History: a mergeable candidate's request makes place for one that does not stand
\* for it.  The candidates are those after the step that asks.
Displaces(r) ==
    /\ group.running # Idle
    /\ \E p \in PRs : Mergeable(p)' /\ Merges(group.waiting, p) /\ ~ Merges(r, p)

Ask(r) == group' = Enter(group, r) /\ lost' = (lost \/ Displaces(r))

\* Faulty variant: a producer's check may succeed although its upload has failed.
CheckCompletesUnnamed(p, c) ==
    /\ pr[p].state = "open"
    /\ pr[p].checks[c] = "pending"
    /\ \E result \in Results :
          /\ pr' = [pr EXCEPT ![p].checks[c] = result]
          /\ UNCHANGED <<policy, seen>>
          /\ \/ Ask(FromWorkflowRun(p))
             \/ c \in Producers /\ Ask(Futile)
    /\ CountGreen({})

\* A required check of the head completes, and the run that gave it.  A producer that
\* has failed may have left no artifact, and then its event names no candidate.
CheckCompletes(p, c) ==
    /\ pr[p].state = "open"
    /\ pr[p].checks[c] = "pending"
    /\ \E result \in Results :
          /\ pr' = [pr EXCEPT ![p].checks[c] = result]
          /\ UNCHANGED <<policy, seen>>
          /\ \/ Ask(FromWorkflowRun(p))
             \/ c \in Producers /\ result = "failure" /\ Ask(Futile)
    /\ CountGreen({})

\* A check of an earlier head completes late.
OldCheckCompletes(p) ==
    /\ pr[p].state = "open"
    /\ pr[p].head > 1
    /\ UNCHANGED <<policy, pr, seen>>
    /\ Ask(FromWorkflowRun(p))
    /\ CountGreen({})

\* One of the eleven workflows completes for a push to main, or for a run that
\* is associated with no pull request: the job is skipped, its run is not.
SkippedRunCompletes ==
    /\ SkippedRuns
    /\ UNCHANGED <<policy, pr, seen>>
    /\ Ask(Futile)
    /\ CountGreen({})

\* A producer's run completes that leaves the head's checks alone and no artifact: its
\* guard has skipped a draft, its runner was lost with the check in progress, or it has
\* failed on an older head.
RunWithoutArtifact(p) ==
    /\ Producers # {}
    /\ pr[p].state # "none"
    /\ UNCHANGED <<policy, pr, seen>>
    /\ Ask(Futile)
    /\ CountGreen({})

\* auto-merge.yml and auto-merge-dependabot.yml
AutoMergeRequests(p) ==
    /\ pr[p].state = "open"
    /\ UNCHANGED <<policy, pr, seen>>
    /\ Ask(FromDispatch(p, "merge"))
    /\ CountGreen({})

OperatorDispatches(p) ==
    /\ ShadowDispatch
    /\ pr[p].state = "open"
    /\ UNCHANGED <<policy, pr, seen>>
    /\ Ask(FromDispatch(p, "shadow"))
    /\ CountGreen({})

(***************************************************************************)
(* The evaluation: the run in progress.                                    *)
(***************************************************************************)
\* Faulty variant: evidence of another policy is accepted.
ReadyUnbound(p, r) == Green(p)

\* Evidence binds the policy under which it was produced.
Ready(p, r) == Green(p) /\ pr[p].evidence = r.policy

Evaluating == group.running \notin {Idle, Futile}

\* The coordinator reads the candidate and its checks.
Observe ==
    /\ Evaluating
    /\ seen = Nothing
    /\ LET p == group.running.pr
       IN  seen' = [head |-> pr[p].head, ready |-> Ready(p, group.running)]
    /\ UNCHANGED <<policy, pr, group, lost>>
    /\ CountGreen({})

\* Faulty variant: the branch need not be up to date with main.
ForgeMergesLoose(p) == Green(p) /\ pr[p].head = seen.head

\* What the forge asks of a merge: the head that was named (conditional merge),
\* green required checks and, because they are strict, a branch up to date.
ForgeMerges(p) == Green(p) /\ pr[p].head = seen.head /\ pr[p].current

\* Faulty variant: the verdict is published for the head the candidate has by then.
PublishToLatest(p, verdict) == pr' = [pr EXCEPT ![p].eligible = verdict]

Publish(p, verdict) ==
    pr' = [pr EXCEPT ![p].eligible = IF pr[p].head = seen.head THEN verdict ELSE @]

EndRun == group' = Leave(group) /\ seen' = Nothing

\* The verdict is published for the head that was read and, in merge mode, that
\* head is merged; every other candidate is then behind main.
Merge ==
    /\ Evaluating
    /\ seen # Nothing /\ seen.ready
    /\ group.running.mode = "merge"
    /\ ForgeMerges(group.running.pr)
    /\ pr' = [q \in PRs |-> IF q = group.running.pr
                            THEN [pr[q] EXCEPT !.state = "merged", !.eligible = "success"]
                            ELSE [pr[q] EXCEPT !.current = FALSE]]
    /\ EndRun
    /\ UNCHANGED <<policy, lost>>
    /\ CountGreen({group.running.pr})

\* A shadow evaluation stops at the verdict; a merge that the forge refuses, or
\* a candidate that is not ready, publishes a failure.
Conclude ==
    /\ Evaluating
    /\ seen # Nothing
    /\ LET p == group.running.pr
           merging == seen.ready /\ group.running.mode = "merge"
       IN  /\ ~ (merging /\ ForgeMerges(p))
           /\ Publish(p, IF seen.ready /\ ~ merging THEN "success" ELSE "failure")
           /\ CountGreen({p})
    /\ EndRun
    /\ UNCHANGED <<policy, lost>>

\* An API failure or the time limit of 15 minutes: nothing is published.
HardFailure ==
    /\ ApiFails
    /\ Evaluating
    /\ EndRun
    /\ lost' = (lost \/ Mergeable(group.running.pr))
    /\ UNCHANGED <<policy, pr>>
    /\ CountGreen({})

\* "Protected producer must identify one candidate artifact", or a skipped job.
FutileRunEnds ==
    /\ group.running = Futile
    /\ EndRun
    /\ UNCHANGED <<policy, pr, lost>>
    /\ CountGreen({})

(***************************************************************************)
(* Authors, the operator and the policy                                    *)
(***************************************************************************)
NewHead(p, head, current) ==
    pr' = [pr EXCEPT ![p] = [state |-> "open", head |-> head, current |-> current,
                             evidence |-> policy,
                             checks |-> [c \in Checks |-> "pending"],
                             eligible |-> "none"]]

Open(p) ==
    /\ pr[p].state = "none"
    /\ NewHead(p, 1, TRUE)
    /\ UNCHANGED <<policy, group, seen, lost>>
    /\ CountGreen({p})

\* A push, or main merged into the branch.
Push(p) ==
    /\ pr[p].state = "open"
    /\ pr[p].head < MaxHead
    /\ \E current \in {pr[p].current, TRUE} : NewHead(p, pr[p].head + 1, current)
    /\ UNCHANGED <<policy, group, seen, lost>>
    /\ CountGreen({p})

\* Somebody runs a check of the head again.
RunAgain(p, c) ==
    /\ pr[p].state = "open"
    /\ pr[p].checks[c] # "pending"
    /\ pr' = [pr EXCEPT ![p].checks[c] = "pending"]
    /\ UNCHANGED <<policy, group, seen, lost>>
    /\ CountGreen({})

\* A reviewed policy revision is merged by the operator's route.
ChangePolicy ==
    /\ policy' = ~ policy
    /\ pr' = [p \in PRs |-> [pr[p] EXCEPT !.current = FALSE]]
    /\ UNCHANGED <<group, seen, lost>>
    /\ CountGreen({})

Next == \/ \E p \in PRs :
              \/ \E c \in Checks : CheckCompletes(p, c) \/ RunAgain(p, c)
              \/ OldCheckCompletes(p) \/ RunWithoutArtifact(p)
              \/ AutoMergeRequests(p) \/ OperatorDispatches(p)
              \/ Open(p) \/ Push(p)
        \/ SkippedRunCompletes
        \/ Observe \/ Merge \/ Conclude \/ HardFailure \/ FutileRunEnds
        \/ ChangePolicy

Spec == Init /\ [][Next]_vars

\* A run in progress goes on; nobody has to push, dispatch or run again.
FairSpec == Spec /\ WF_vars(Observe) /\ WF_vars(Merge) /\ WF_vars(Conclude)
                 /\ WF_vars(FutileRunEnds)
-----------------------------------------------------------------------------
\* A queued run carries the merge_enabled of the commit it was raised on and may
\* start after the operator has switched merging off.  It merges nothing then:
\* the policy's own merge leaves every branch behind main, the update that
\* brings one up to date makes a new head, and the evidence of that head is
\* bound to the new policy (factory-merge.yml lines 37-40, 73, 111-123).
EventMergesWhileEnabled ==
    [][\A p \in PRs :
          /\ pr[p].state = "open" /\ pr'[p].state = "merged"
          /\ group.running.event = "workflow_run"
          => policy]_vars

\* What makes it inductive.
CurrentIsBound ==
    \A p \in PRs : pr[p].state = "open" /\ pr[p].current => pr[p].evidence = policy

ReadingIsBound ==
    seen.ready =>
       /\ Evaluating
       /\ LET p == group.running.pr
          IN  /\ pr[p].state # "none" /\ seen.head <= pr[p].head
              /\ pr[p].head = seen.head => pr[p].evidence = group.running.policy

ModeIsPolicy ==
    \A r \in {group.running, group.waiting} \ {Idle, Futile} :
       r.event = "workflow_run" => (r.mode = "merge" <=> r.policy)

\* What was read as ready has been all green since the verdict before, unless it
\* has a new head.
ReadingIsCounted ==
    seen.ready /\ pr[group.running.pr].head = seen.head => group.running.pr \in greenSince

EvidenceInvariant ==
    /\ TypeOK
    /\ CurrentIsBound
    /\ ReadingIsBound
    /\ ModeIsPolicy
    /\ ReadingIsCounted

\* Nothing waits for a group that is free, and a run starts with nothing read.
GroupInvariant ==
    /\ group.waiting # Idle => group.running # Idle
    /\ ~ Evaluating => seen = Nothing

PolicyInvariant == EvidenceInvariant /\ GroupInvariant

\* No request is used up in vain: a mergeable candidate is waited for by an evaluation
\* that will read it, or that has read it as it is (lines 3-5, 21-23, 60-67, 73).  The
\* exceptions are its own: its request was displaced, or its evaluation failed, while
\* it was mergeable.  Events that name nobody do no harm but by what they displace: a
\* producer whose check succeeds has uploaded the artifact that names the candidate.
ReadyIsAwaited ==
    \A p \in PRs : Mergeable(p) =>
       \/ lost
       \/ Merges(group.waiting, p)
       \/ Merges(group.running, p) /\ seen \in {Nothing, [head |-> pr[p].head, ready |-> TRUE]}

\* Evaluations never overtake one another: a head becomes eligible only if all
\* its checks have been green at one time since the verdict before
\* (factory-merge.yml lines 21-23; "failed merge evaluations publish a new
\* failure check", docs/FACTORY-ACTIVATION.md).
EligibleOnNewEvidence ==
    [][\A p \in PRs :
          pr[p].eligible # "success" /\ pr'[p].eligible = "success" => p \in greenSince]_vars

\* "Completed candidate check/verdict workflows re-request evaluation, so a
\* request issued before CI finishes does not require a manual retry.
\* Repository-wide serialization still evaluates the latest exact head"
\* (docs/FACTORY-ACTIVATION.md): no candidate stays mergeable for ever.
NoneIsLeftReady ==
    \A p \in PRs : []<> ~ Mergeable(p)

\* It takes an evaluation that a mergeable candidate has lost, displaced or failed, to
\* leave one: no other interleaving of checks, pushes, reruns, policy revisions, runs
\* that name nobody and evaluations does (lines 3-5, 21-23, 60-67).
LeftReadyOnlyByLoss == NoneIsLeftReady \/ <>lost
=============================================================================
