----------------------------- MODULE MergeGate ------------------------------
(***************************************************************************)
(* The daily batch, the merge gate that reads it, and the autofix that     *)
(* answers its failures (daily-batch.yml, merge-gate.yml,                  *)
(* daily-failure-autofix.yml).                                             *)
(*                                                                         *)
(* The gate is a required check of a pull request's head commit.  It looks *)
(* at the most recent batch run once, when it runs; the branch ruleset     *)
(* (main-protection.json) then lets the pull request merge while the check *)
(* of its head is green and its branch is up to date with main.  A tree is *)
(* what the scans can find in it: a "code" defect (semgrep, performance,   *)
(* licences) or a published "advisory" against a dependency (osv-scanner). *)
(*                                                                         *)
(* Only the most recent run matters to the gate; a run overtaken by a      *)
(* newer one is dropped.  Ages count ticks, TicksPerHour to the hour, and  *)
(* stop at Old.                                                            *)
(***************************************************************************)
EXTENDS Naturals

CONSTANTS WorkPRs,       \* slots for ordinary pull requests
          FixPRs,        \* slots for claude/daily-autofix-* pull requests
          ReleasePRs,    \* slots for release-please pull requests of the bot
          NoRun,         \* gh run list returned nothing
          WindowHours,   \* 30
          TicksPerHour,
          BranchDispatch,\* whether anyone runs the batch on a branch
          ScanErrors     \* whether osv-scanner may fail to scan

PRs == WorkPRs \cup FixPRs \cup ReleasePRs

ASSUME GateAssumption ==
    /\ WorkPRs \cap FixPRs = {} /\ ReleasePRs \cap (WorkPRs \cup FixPRs) = {}
    /\ WindowHours \in Nat /\ TicksPerHour \in Nat \ {0}
    /\ BranchDispatch \in BOOLEAN /\ ScanErrors \in BOOLEAN

VARIABLES tree,         \* the defects of main
          last,         \* the most recent daily-batch run
          firstWindow,  \* the repository is at most seven days old
          pr,           \* the pull requests
          slips         \* gated merges since the gate was last open (history)

vars == <<tree, last, firstWindow, pr, slips>>

Defects == {"code", "advisory"}
Deltas == {"plain", "breaks", "fixes"}
Old == (WindowHours + 1) * TicksPerHour

Runs == [age : 0..Old, tree : SUBSET Defects,
         conclusion : {"in_progress", "success", "failure", "cancelled"}]
PullRequests == [state : {"none", "open", "merged"}, delta : Deltas,
                 tree : SUBSET Defects, current : BOOLEAN,
                 check : {"expected", "passing", "failing", "success", "failure"}]

ASSUME NoRunAssumption == NoRun \notin Runs

TypeOK ==
    /\ tree \in SUBSET Defects
    /\ last \in Runs \cup {NoRun}
    /\ firstWindow \in BOOLEAN
    /\ pr \in [PRs -> PullRequests]
    /\ slips \in Nat

NoPR == [state |-> "none", delta |-> "plain", tree |-> {}, current |-> FALSE,
         check |-> "expected"]

Init ==
    /\ tree = {}
    /\ last = NoRun
    /\ firstWindow = TRUE
    /\ pr = [p \in PRs |-> NoPR]
    /\ slips = 0

(***************************************************************************)
(* merge-gate.yml: the verdict on the most recent run.                     *)
(***************************************************************************)
AgeHours(run) == run.age \div TicksPerHour   \* rounded down, as $(( )) does

Green(run) == run.conclusion = "success" /\ AgeHours(run) <= WindowHours

\* The inline semgrep and gitleaks of the first-run window know no advisories.
Verdict(t) ==
    IF last = NoRun THEN firstWindow /\ "code" \notin t ELSE Green(last)

\* Whether the gate would pass a clean tree now.
GateOpen == Verdict({})
GatedMerge(p) == p \notin ReleasePRs /\ pr[p].state = "open" /\ pr'[p].state = "merged"

\* History, part of every action.
CountSlips ==
    slips' = IF GateOpen' THEN 0
             ELSE IF \E p \in PRs : GatedMerge(p) THEN slips + 1 ELSE slips

(***************************************************************************)
(* daily-batch.yml                                                         *)
(***************************************************************************)
StartRun(t) == last' = [age |-> 0, tree |-> t, conclusion |-> "in_progress"]

\* The schedule, or a dispatch on main.
BatchOnMain ==
    /\ StartRun(tree)
    /\ UNCHANGED <<tree, firstWindow, pr>>
    /\ CountSlips

\* workflow_dispatch on the branch of a pull request
BatchOnBranch(p) ==
    /\ BranchDispatch
    /\ pr[p].state = "open"
    /\ StartRun(pr[p].tree)
    /\ UNCHANGED <<tree, firstWindow, pr>>
    /\ CountSlips

\* osv-scanner: exit 1 on an advisory; no lockfile or a scan error only warns.
OsvResults(t) == (IF "advisory" \in t THEN {"failure"} ELSE {"success"})
                    \cup IF ScanErrors THEN {"success"} ELSE {}
CodeResults(t) == IF "code" \in t THEN {"failure"} ELSE {"success"}

\* daily-batch-result: anything but success or skipped fails the batch.
RollUp(results) == IF results \subseteq {"success", "skipped"} THEN "success" ELSE "failure"

Running == last # NoRun /\ last.conclusion = "in_progress"

BatchReports ==
    /\ Running
    /\ \E c \in CodeResults(last.tree), o \in OsvResults(last.tree) :
          last' = [last EXCEPT !.conclusion = RollUp({c, o})]
    /\ UNCHANGED <<tree, firstWindow, pr>>
    /\ CountSlips

BatchCancelled ==
    /\ Running
    /\ last' = [last EXCEPT !.conclusion = "cancelled"]
    /\ UNCHANGED <<tree, firstWindow, pr>>
    /\ CountSlips

(***************************************************************************)
(* merge-gate.yml: the check of a pull request.                            *)
(***************************************************************************)
\* The job reads the run list when the head is opened, pushed or reopened, or
\* when somebody runs the check again.
GateReads(p) ==
    /\ p \notin ReleasePRs
    /\ pr[p].state = "open"
    /\ pr' = [pr EXCEPT ![p].check =
                 IF Verdict(pr[p].tree) THEN "passing" ELSE "failing"]
    /\ UNCHANGED <<tree, last, firstWindow>>
    /\ CountSlips

\* Its exit code becomes the check's conclusion some time later.
GateConcludes(p) ==
    /\ pr[p].state = "open"
    /\ \/ pr[p].check = "passing" /\ pr' = [pr EXCEPT ![p].check = "success"]
       \/ pr[p].check = "failing" /\ pr' = [pr EXCEPT ![p].check = "failure"]
    /\ UNCHANGED <<tree, last, firstWindow>>
    /\ CountSlips

(***************************************************************************)
(* Pull requests: the forge and the branch ruleset.                        *)
(***************************************************************************)
Apply(delta, t) == CASE delta = "plain" -> t
                     [] delta = "breaks" -> t \cup {"code"}
                     [] delta = "fixes" -> {}

Rebased(delta) == [state |-> "open", delta |-> delta, tree |-> Apply(delta, tree),
                   current |-> TRUE, check |-> "expected"]

Open(p) ==
    /\ p \notin FixPRs
    /\ pr[p].state # "open"
    /\ \E delta \in IF p \in ReleasePRs THEN {"plain"} ELSE {"plain", "breaks"} :
          pr' = [pr EXCEPT ![p] = Rebased(delta)]
    /\ UNCHANGED <<tree, last, firstWindow>>
    /\ CountSlips

\* daily-failure-autofix.yml: a failed batch spawns a session that opens a fix.
AutofixOpens(p) ==
    /\ p \in FixPRs
    /\ pr[p].state # "open"
    /\ last # NoRun
    /\ last.conclusion = "failure"
    /\ pr' = [pr EXCEPT ![p] = Rebased("fixes")]
    /\ UNCHANGED <<tree, last, firstWindow>>
    /\ CountSlips

Pushed(p, delta) == [state |-> "open", delta |-> delta, tree |-> Apply(delta, pr[p].tree),
                     current |-> pr[p].current, check |-> "expected"]

\* An author's push: a new head, no more up to date than the old one.
Push(p) ==
    /\ p \in WorkPRs
    /\ pr[p].state = "open"
    /\ \E delta \in {pr[p].delta, "breaks"} :
          pr' = [pr EXCEPT ![p] = Pushed(p, delta)]
    /\ UNCHANGED <<tree, last, firstWindow>>
    /\ CountSlips

\* Faulty variant: a branch update does not run the check again (synchronize).
UpdateBranchKeepsCheck(p) ==
    /\ pr[p].state = "open"
    /\ pr' = [pr EXCEPT ![p] = [Rebased(pr[p].delta) EXCEPT !.check = pr[p].check]]
    /\ UNCHANGED <<tree, last, firstWindow>>
    /\ CountSlips

\* Merging main into the branch makes a new head, whose check starts anew.
UpdateBranch(p) ==
    /\ pr[p].state = "open"
    /\ pr' = [pr EXCEPT ![p] = Rebased(pr[p].delta)]
    /\ UNCHANGED <<tree, last, firstWindow>>
    /\ CountSlips

\* Faulty variant: the branch need not be up to date.
CheckSatisfiedLoose(p) == p \in ReleasePRs \/ pr[p].check = "success"

\* The job is skipped for the bot's release pull request, which satisfies it.
CheckSatisfied(p) ==
    /\ p \in ReleasePRs \/ pr[p].check = "success"
    /\ pr[p].current

Merge(p) ==
    /\ pr[p].state = "open"
    /\ CheckSatisfied(p)
    /\ tree' = pr[p].tree
    /\ pr' = [q \in PRs |-> IF q = p THEN [NoPR EXCEPT !.state = "merged"]
                            ELSE [pr[q] EXCEPT !.current = FALSE]]
    /\ UNCHANGED <<last, firstWindow>>
    /\ CountSlips

(***************************************************************************)
(* The world                                                               *)
(***************************************************************************)
\* An advisory is published against a dependency that every tree has.
AdvisoryPublished ==
    /\ tree' = tree \cup {"advisory"}
    /\ pr' = [p \in PRs |-> IF pr[p].state # "open" \/ pr[p].delta = "fixes" THEN pr[p]
                            ELSE [pr[p] EXCEPT !.tree = @ \cup {"advisory"}]]
    /\ UNCHANGED <<last, firstWindow>>
    /\ CountSlips

Tick ==
    /\ firstWindow' \in IF firstWindow THEN BOOLEAN ELSE {FALSE}
    /\ last' = IF last = NoRun \/ last.age = Old THEN last ELSE [last EXCEPT !.age = @ + 1]
    /\ UNCHANGED <<tree, pr>>
    /\ CountSlips

Next == \/ BatchOnMain
        \/ BatchReports
        \/ BatchCancelled
        \/ \E p \in PRs : \/ BatchOnBranch(p) \/ GateReads(p) \/ GateConcludes(p)
                          \/ Open(p) \/ AutofixOpens(p)
                          \/ Push(p) \/ UpdateBranch(p) \/ Merge(p)
        \/ AdvisoryPublished
        \/ Tick

Spec == Init /\ [][Next]_vars

\* The schedule, the runners and the autofix session all do their part, the
\* check of a fix is run again and again and the fix merged when it may be.
FairSpec ==
    /\ Spec
    /\ SF_vars(BatchOnMain)
    /\ SF_vars(BatchReports)
    /\ \A p \in FixPRs : /\ SF_vars(AutofixOpens(p))
                         /\ SF_vars(UpdateBranch(p))
                         /\ SF_vars(GateReads(p))
                         /\ SF_vars(GateConcludes(p))
                         /\ SF_vars(Merge(p))

-----------------------------------------------------------------------------
\* The verdict of a check is a snapshot, yet at most one pull request gets into
\* main on verdicts that are out of date: its merge leaves every other branch
\* behind, a branch update runs the gate again, and the gate then says no
\* (merge-gate.yml lines 7-10, 90-115; strict checks of main-protection.json).
AtMostOneSlips == slips <= 1

\* What makes it inductive: once one has slipped, no open pull request that the
\* gate judges is both up to date and green, until the gate opens again.
NoneCanSlip ==
    \A p \in PRs \ ReleasePRs :
       pr[p].state = "open" => ~ (pr[p].current /\ pr[p].check \in {"passing", "success"})

GateInvariant ==
    /\ TypeOK
    /\ AtMostOneSlips
    /\ GateOpen => slips = 0
    /\ slips = 1 => NoneCanSlip

\* The recovery loop closes (daily-failure-autofix.yml lines 78-79, CI-COST.md
\* line 117): a defect that a batch found leaves main again.
RecoveryLoopCloses ==
    (last # NoRun /\ last.conclusion = "failure" /\ tree # {}) ~> tree = {}
=============================================================================
