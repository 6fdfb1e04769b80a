--------------------------- MODULE RequiredChecks ---------------------------
(***************************************************************************)
(* The required status checks of main-protection.json and the workflows    *)
(* that report them: ci.yml (lint-test), harness-validate.yml,             *)
(* evidence-gate.yml, adr-gate.yml, commitlint.yml and                     *)
(* lint-exception-audit.yml.  check-daily-batch is module MergeGate.       *)
(*                                                                         *)
(* A check belongs to a head.  Its run is created some time after the      *)
(* event that raised it and works on that event's payload: the merge of    *)
(* the head with main as it was, and the title as it was.  The body alone  *)
(* is read while the run goes on.  Of several runs of one check on one     *)
(* head the last one counts.                                               *)
(***************************************************************************)
EXTENDS Naturals

CONSTANTS Work,       \* pull requests of people and agents
          Release,    \* pull requests of release-please
          Required,   \* the required contexts of this instance
          MaxEvents,  \* bound: pushes, edits, reopenings, re-runs and updates
          MaxMain     \* bound: main that other commits reach

Contexts == {"lint-test", "harness-validate", "evidence-gate", "adr-gate",
             "commitlint", "lint-exception-audit"}

ASSUME ChecksAssumption ==
    /\ Work \cap Release = {}
    /\ Required \subseteq Contexts
    /\ MaxEvents \in Nat /\ MaxMain \in Nat

VARIABLES main,    \* how many commits main has
          pr,      \* what GitHub shows of every pull request
          due,     \* the event of a check whose run is not created yet
          check,   \* the last run of every check on the head
          events   \* how many of the bounded events there have been

vars == <<main, pr, due, check, events>>

PRs == Work \cup Release

\* base: the last commit of main that the head contains.  replaced: runs of an
\* earlier head exist.  docs: the head has a no-ac.json and only paths it allows.
PullRequest == [state : {"none", "open", "closed", "merged"}, base : Nat,
                replaced : BOOLEAN, docs : BOOLEAN, conventional : BOOLEAN, complete : BOOLEAN]

\* What a run takes from the pull request q of its event: the merge with main, and
\* commitlint the title.  A release pull request is never judged.
Event(p, c, q) == [raised |-> TRUE, base |-> IF p \in Work THEN main ELSE 0,
                   conventional |-> p \in Work /\ c = "commitlint" /\ q.conventional]
NoEvent == [raised |-> FALSE, base |-> 0, conventional |-> FALSE]
Events == [raised : BOOLEAN, base : Nat, conventional : BOOLEAN]

Pending == {"expected", "detecting", "running", "proving"}
Satisfied == {"success", "skipped"}
Concluded == Satisfied \cup {"failure", "cancelled"}

Expected == [state |-> "expected", base |-> 0, conventional |-> FALSE]
Runs == [state : Pending \cup Concluded, base : Nat, conventional : BOOLEAN]

TypeOK ==
    /\ main \in Nat
    /\ pr \in [PRs -> PullRequest]
    /\ due \in [PRs -> [Required -> Events]]
    /\ check \in [PRs -> [Required -> Runs]]
    /\ events \in 0..MaxEvents

Init ==
    /\ main = 0
    /\ pr = [p \in PRs |-> [state |-> "none", base |-> 0, replaced |-> FALSE, docs |-> FALSE,
                            conventional |-> FALSE, complete |-> FALSE]]
    /\ due = [p \in PRs |-> [c \in Required |-> NoEvent]]
    /\ check = [p \in PRs |-> [c \in Required |-> Expected]]
    /\ events = 0

(***************************************************************************)
(* Events.  No workflow filters on paths; evidence-gate alone lists        *)
(* "edited".  What GITHUB_TOKEN does raises no run.                        *)
(***************************************************************************)
\* Faulty variant: the default types, as in the other workflows.
OnDefaultTypes == {}

OnEdited == {"evidence-gate"} \cap Required

\* Faulty variant: a paths filter keeps the check from heads that are docs only.
RaiseByPaths(p, q, cs) ==
    due' = [due EXCEPT ![p] = [c \in Required |->
              IF c \in cs /\ ~ (q.docs /\ c = "lint-test") THEN Event(p, c, q) ELSE due[p][c]]]

\* The checks cs are due for the pull request as it is in q.
Raise(p, q, cs) ==
    due' = [due EXCEPT ![p] = [c \in Required |->
              IF c \in cs THEN Event(p, c, q) ELSE due[p][c]]]

Counted == events < MaxEvents /\ events' = events + 1

NewHead(p, q) ==
    /\ pr' = [pr EXCEPT ![p] = q]
    /\ check' = [check EXCEPT ![p] = [c \in Required |-> Expected]]

\* opened: somebody opens a pull request.
Open(p) ==
    /\ pr[p].state = "none"
    /\ \E d, t, b \in BOOLEAN :
         LET q == [state |-> "open", base |-> main, replaced |-> FALSE, docs |-> d,
                   conventional |-> t, complete |-> b]
         IN /\ NewHead(p, q)
            /\ Raise(p, q, Required)
    /\ UNCHANGED <<main, events>>

\* synchronize: a push, which may merge main in ("update branch").
Push(p) ==
    /\ pr[p].state = "open"
    /\ Counted
    /\ \E d \in BOOLEAN, m \in {pr[p].base, main} :
         LET q == [pr[p] EXCEPT !.base = m, !.docs = d, !.replaced = TRUE]
         IN /\ NewHead(p, q)
            /\ Raise(p, q, Required)
    /\ UNCHANGED main

\* edited: the title or the body.
Edit(p) ==
    /\ pr[p].state = "open"
    /\ Counted
    /\ \E t, b \in BOOLEAN :
         LET q == [pr[p] EXCEPT !.conventional = t, !.complete = b]
         IN /\ q # pr[p]
            /\ pr' = [pr EXCEPT ![p] = q]
            /\ Raise(p, q, OnEdited)
    /\ UNCHANGED <<main, check>>

Close(p) ==
    /\ pr[p].state = "open"
    /\ pr' = [pr EXCEPT ![p].state = "closed"]
    /\ UNCHANGED <<main, due, check, events>>

\* reopened: by a person, of a release pull request too.
Reopen(p) ==
    /\ pr[p].state = "closed"
    /\ Counted
    /\ pr' = [pr EXCEPT ![p].state = "open"]
    /\ Raise(p, pr[p], Required)
    /\ UNCHANGED <<main, check>>

\* release-please opens its pull request or pushes to it, with GITHUB_TOKEN.
ReleaseUpdates(p) ==
    /\ pr[p].state \in {"none", "open"}
    /\ Counted
    /\ NewHead(p, [pr[p] EXCEPT !.state = "open", !.base = main])
    /\ due' = [due EXCEPT ![p] = [c \in Required |-> NoEvent]]
    /\ UNCHANGED main

\* A push or a merge of something else.
MainMoves ==
    /\ main < MaxMain
    /\ main' = main + 1
    /\ UNCHANGED <<pr, due, check, events>>

(***************************************************************************)
(* Runs.                                                                   *)
(***************************************************************************)
SetState(p, c, s) == check' = [check EXCEPT ![p][c].state = s]

\* Every job has the condition of the release fast pass; lint-test has it through
\* the job detect that it needs.
FirstState(p, c) ==
    IF p \in Release THEN "skipped" ELSE IF c = "lint-test" THEN "detecting" ELSE "running"

\* The run of an event is created.  In ci.yml it cancels one that is under way.
StartRun(p, c) ==
    /\ due[p][c].raised
    /\ check' = [check EXCEPT ![p][c] = [state |-> FirstState(p, c), base |-> due[p][c].base,
                                         conventional |-> due[p][c].conventional]]
    /\ due' = [due EXCEPT ![p][c] = NoEvent]
    /\ UNCHANGED <<main, pr, events>>

\* The job detect ends; when it fails, the job that needs it is skipped.
Detect(p) ==
    /\ check[p]["lint-test"].state = "detecting"
    /\ \E s \in {"running", "skipped"} : SetState(p, "lint-test", s)
    /\ UNCHANGED <<main, pr, due, events>>

\* evidence-gate lets a head of documents pass, or reads the body as it is now and
\* goes on to prove the evidence again.
ReadBody(p) ==
    /\ check[p]["evidence-gate"].state = "running"
    /\ \E s \in (IF pr[p].docs THEN {"success"} ELSE
                 IF pr[p].complete THEN {"proving"} ELSE {}) \cup {"failure"} :
         SetState(p, "evidence-gate", s)
    /\ UNCHANGED <<main, pr, due, events>>

\* evidence-gate has run smoke and journeys again on the merge.
ProveEvidence(p) ==
    /\ check[p]["evidence-gate"].state = "proving"
    /\ \E s \in {"success", "failure"} : SetState(p, "evidence-gate", s)
    /\ UNCHANGED <<main, pr, due, events>>

\* commitlint has looked at the commits, their trailers and the title of the event.
LintCommits(p) ==
    /\ check[p]["commitlint"].state = "running"
    /\ \E s \in {"failure"} \cup (IF check[p]["commitlint"].conventional THEN {"success"} ELSE {}) :
         SetState(p, "commitlint", s)
    /\ UNCHANGED <<main, pr, due, events>>

\* lint-test, harness-validate, adr-gate and lint-exception-audit end as they find the tree.
Finish(p, c) ==
    /\ c \notin {"evidence-gate", "commitlint"}
    /\ check[p][c].state = "running"
    /\ \E s \in {"success", "failure"} : SetState(p, c, s)
    /\ UNCHANGED <<main, pr, due, events>>

\* Somebody runs a check again: with the payload it had.
Rerun(p, c) ==
    /\ pr[p].state = "open"
    /\ check[p][c].state \in Concluded
    /\ Counted
    /\ SetState(p, c, FirstState(p, c))
    /\ UNCHANGED <<main, pr, due>>

\* Somebody runs ci.yml of an earlier head again: it takes the concurrency group of
\* the pull request from the run under way.
RerunEarlierHead(p) ==
    /\ pr[p].state = "open" /\ pr[p].replaced
    /\ check[p]["lint-test"].state \in {"detecting", "running"}
    /\ Counted
    /\ SetState(p, "lint-test", "cancelled")
    /\ UNCHANGED <<main, pr, due>>

(***************************************************************************)
(* The ruleset: every required check is satisfied, and the head contains   *)
(* main (strict_required_status_checks_policy).                            *)
(***************************************************************************)
\* Faulty variant: without the strict policy.
MergeableWhenBehind(p) ==
    /\ pr[p].state = "open"
    /\ \A c \in Required : check[p][c].state \in Satisfied

Mergeable(p) ==
    /\ pr[p].state = "open"
    /\ \A c \in Required : check[p][c].state \in Satisfied
    /\ pr[p].base = main

Merge(p) ==
    /\ Mergeable(p)
    /\ pr' = [pr EXCEPT ![p].state = "merged"]
    /\ main' = main + 1
    /\ UNCHANGED <<due, check, events>>

Next ==
    \/ MainMoves
    \/ \E p \in PRs :
         \/ Close(p) \/ Reopen(p) \/ Merge(p)
         \/ \E c \in Required : StartRun(p, c) \/ Rerun(p, c)
    \/ \E p \in Release : ReleaseUpdates(p)
    \/ \E p \in Work :
         \/ Open(p) \/ Push(p) \/ Edit(p)
         \/ "lint-test" \in Required /\ (Detect(p) \/ RerunEarlierHead(p))
         \/ "evidence-gate" \in Required /\ (ReadBody(p) \/ ProveEvidence(p))
         \/ "commitlint" \in Required /\ LintCommits(p)
         \/ \E c \in Required : Finish(p, c)

\* Events raise their runs and jobs end, by themselves or by their time limit.
JobStep(p, c) ==
    \/ StartRun(p, c) \/ Finish(p, c)
    \/ c = "lint-test" /\ Detect(p)
    \/ c = "evidence-gate" /\ (ReadBody(p) \/ ProveEvidence(p))
    \/ c = "commitlint" /\ LintCommits(p)

Spec == Init /\ [][Next]_vars
FairSpec == Spec /\ \A p \in Work : \A c \in Required : WF_vars(JobStep(p, c))

-----------------------------------------------------------------------------
(***************************************************************************)
(* Properties.                                                             *)
(***************************************************************************)
\* An event carries main as it was: base never runs ahead of main.
PayloadsAreOld ==
    \A p \in PRs :
      /\ pr[p].base <= main
      /\ \A c \in Required : due[p][c].base <= main /\ check[p][c].base <= main

\* With no run to come, evidence-gate has passed or is proving the body as it is
\* now: an edit after it was read raises a run ("edited", line 10).
EvidenceIsCurrent ==
    \A p \in Work : \A c \in {"evidence-gate"} \cap Required :
      check[p][c].state \in {"proving", "success"} /\ ~ due[p][c].raised
        => pr[p].docs \/ pr[p].complete

\* commitlint passes no title but a conventional one.
TitleWasConventional ==
    \A p \in Work : \A c \in {"commitlint"} \cap Required :
      check[p][c].state = "success" => check[p][c].conventional

\* Of a pull request that is not release-please's only lint-test is ever skipped.
OnlyLintIsSkipped ==
    \A p \in Work : \A c \in Required : check[p][c].state = "skipped" => c = "lint-test"

\* What a pull request relies on when the ruleset lets it merge: base never runs
\* ahead of main, the evidence is of the body as it is unless a run is to come, the
\* title that was judged is conventional, only lint-test can have been skipped.
ChecksInvariant ==
    TypeOK /\ PayloadsAreOld /\ EvidenceIsCurrent /\ TitleWasConventional /\ OnlyLintIsSkipped

\* The states of a run from which one of its jobs goes on.
GoesOn(c) == {"running"} \cup (IF c = "lint-test" THEN {"detecting"} ELSE {})
                         \cup (IF c = "evidence-gate" THEN {"proving"} ELSE {})

\* What NoneIsPendingForever rests on: a required check without a conclusion has a run
\* to come or a job that goes on, on every head, whatever was pushed, edited, closed,
\* cancelled or run again meanwhile (harness-validate.yml:7-10).
NoneIsForgotten ==
    \A p \in Work : \A c \in Required :
      pr[p].state # "none" => \/ due[p][c].raised
                              \/ check[p][c].state \in Concluded \cup GoesOn(c)

\* The last commit of main in the tree that a run has judged: harness-validate
\* takes the head, the others the merge of the head with main as it was or what the
\* head adds to it.
Judged(p, c) ==
    IF c = "harness-validate" \/ check[p][c].base <= pr[p].base THEN pr[p].base
                                                                ELSE check[p][c].base

AsJudged(p) ==
    /\ \A c \in Required :
         \/ check[p][c].state = "success" /\ Judged(p, c) = main
         \/ check[p][c].state = "skipped" /\ c = "lint-test"
    /\ "evidence-gate" \in Required
         => pr[p].docs \/ pr[p].complete \/ due[p]["evidence-gate"].raised
    /\ "commitlint" \in Required
         => pr[p].conventional \/ pr[p].conventional # check[p]["commitlint"].conventional

\* What is merged is what was judged (main-protection.json:35, evidence-gate.yml:3-5,
\* commitlint.yml:46): every check passed on the very tree, the body is complete and
\* the title conventional.  The exceptions are part of the code: lint-test is skipped
\* when the job detect fails, the run of an edit is yet to come, and a title that was
\* edited later is not judged.
MergedAsJudged ==
    [][\A p \in Work : pr[p].state = "open" /\ pr'[p].state = "merged" => AsJudged(p)]_vars

\* "A paths-filtered required check never reports ... and wedges them pending-forever"
\* (harness-validate.yml:7-10): once pushes and edits stop, every required check of
\* an open pull request has a conclusion.
NoneIsPendingForever ==
    \A p \in Work : <>[](pr[p].state = "open" =>
                           \A c \in Required : check[p][c].state \in Concluded)
=============================================================================
