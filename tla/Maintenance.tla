---------------------------- MODULE Maintenance -----------------------------
(***************************************************************************)
(* The reporting maintenance (maintain): each invocation loads a journal   *)
(* from the protected state branch and takes one bounded step of its       *)
(* phase: scan the source (backfill), review the watched rows, checkpoint  *)
(* a projection, stage its facts, and check the coverage.  The journal is  *)
(* stored by a conditional commit; what the step itself writes is          *)
(* committed by the archive and discovery helpers on their own.            *)
(*                                                                         *)
(* The helpers are not part of the repository: every record that a scan    *)
(* retains is watched and becomes one fact, a scan or a projection takes   *)
(* one invocation, and pages and offsets are one position.                 *)
(***************************************************************************)
EXTENDS Integers

CONSTANTS Runners,      \* invocations that may overlap
          MaxEnd,       \* bound: cutoffs
          MaxRecords,   \* bound: records of the source
          MaxChanges,   \* bound: new records, revisions and changes
          Batch         \* rows that one review visits (4)

ASSUME MaintenanceAssumption ==
    /\ MaxEnd \in Nat \ {0} /\ MaxRecords \in Nat /\ Batch \in Nat \ {0}
    /\ MaxChanges \in Nat

VARIABLES journal,   \* the protected journal
          before,    \* the end of the journal that it replaced (history)
          watch,     \* retained rows, the review cursor, and whether it was
                     \* written since the journal last observed it
          scanned,   \* cutoffs whose scan is complete (manifests)
          projected, \* projections that are checkpointed
          staged,    \* facts that are staged, by campaign
          visible,   \* records of the source that can be seen
          policy, trust, \* revisions in force
          calls,     \* what each invocation is about to do
          fresh,     \* invocations whose load is still the head of the branch
          reviewed,  \* rows visited since the review began (history)
          swapped,   \* whether the trust file changed under a stage (history)
          changes

state == <<watch, scanned, projected, staged>>
world == <<visible, policy, trust, changes>>
vars == <<journal, before, state, world, calls, fresh, reviewed, swapped>>

Ends == 1..MaxEnd
Records == 0..MaxRecords
Revisions == 1 .. MaxChanges + 1
Projections == [end : Ends, records : Records, policy : Revisions]
Campaigns == [end : Ends, records : Records, policy : Revisions, trust : Revisions]
NoCampaign == [end |-> 0, records |-> 0, policy |-> 0, trust |-> 0]
Phases == {"backfill", "review", "checkpoint", "stage", "ready"}
Journals == [end : Ends, previous : 0..MaxEnd, phase : Phases,
             remaining : Records, observed : BOOLEAN, cursor : Records, count : Records,
             campaign : Campaigns \cup {NoCampaign}, offset : Records,
             policy : Revisions, trust : Revisions]
NoJournal == [end |-> 0, previous |-> 0, phase |-> "none",
              remaining |-> 0, observed |-> FALSE, cursor |-> 0, count |-> 0,
              campaign |-> NoCampaign, offset |-> 0, policy |-> 0, trust |-> 0]
Steps == {"none", "persist", "backfill", "reconcile", "project", "stage", "coverage"}
NoCall == [step |-> "none", journal |-> NoJournal, cutoff |-> 0]

TypeOK ==
    /\ journal \in Journals \cup {NoJournal} /\ before \in 0..MaxEnd
    /\ watch \in [count : Records, cursor : Records, changed : BOOLEAN]
    /\ scanned \subseteq Ends /\ projected \subseteq Projections
    /\ staged \subseteq [campaign : Campaigns, fact : Records]
    /\ visible \in Records /\ policy \in Revisions /\ trust \in Revisions
    /\ calls \in [Runners -> [step : Steps, journal : Journals \cup {NoJournal},
                              cutoff : 0..MaxEnd]]
    /\ fresh \subseteq Runners
    /\ reviewed \subseteq Records /\ swapped \in BOOLEAN /\ changes \in 0..MaxChanges

Init ==
    /\ journal = NoJournal /\ before = 0
    /\ watch = [count |-> 0, cursor |-> 0, changed |-> FALSE]
    /\ scanned = {} /\ projected = {} /\ staged = {}
    /\ visible \in Records /\ policy = 1 /\ trust = 1
    /\ calls = [r \in Runners |-> NoCall] /\ fresh = {}
    /\ reviewed = {} /\ swapped = FALSE /\ changes = 0

(***************************************************************************)
(* What an invocation is about to do: one step, from what it has loaded.   *)
(***************************************************************************)
Initial(cutoff) ==
    [end |-> cutoff, previous |-> 0, phase |-> "backfill",
     remaining |-> 0, observed |-> FALSE, cursor |-> 0, count |-> 0,
     campaign |-> NoCampaign, offset |-> 0, policy |-> policy, trust |-> trust]

\* Faulty variant: the place that was reached is kept.
RestartInPlace(j) == [j EXCEPT !.phase = "stage"]

\* Back to the first phase: a new policy or trust, a gap, or a new interval.
Restart(j) ==
    [j EXCEPT !.phase = "backfill", !.remaining = 0, !.observed = FALSE, !.cursor = 0,
              !.campaign = NoCampaign, !.offset = 0]

EnterReview(j) ==
    [j EXCEPT !.phase = "review", !.remaining = watch.count, !.count = watch.count,
              !.observed = FALSE, !.cursor = 0]

\* Rows that the review from a cursor visits, and where it leaves the cursor.
Visited(cursor) == IF watch.count - cursor < Batch THEN watch.count - cursor ELSE Batch
Advanced(cursor) ==
    IF cursor + Visited(cursor) < watch.count THEN cursor + Visited(cursor) ELSE 0

\* Faulty variant: any write of the watch counts as the review of a batch.
RemainingOnAnyWrite(j) ==
    IF ~ (j.observed /\ watch.changed) THEN j.remaining
    ELSE IF j.remaining > Visited(j.cursor) THEN j.remaining - Visited(j.cursor) ELSE 0

\* A review counts when the cursor is where it leaves it; else all starts over.
Remaining(j) ==
    IF ~ (j.observed /\ watch.changed) THEN j.remaining
    ELSE IF watch.cursor # Advanced(j.cursor) THEN watch.count
    ELSE IF j.remaining > Visited(j.cursor) THEN j.remaining - Visited(j.cursor) ELSE 0

Projection == [end |-> journal.end, records |-> watch.count, policy |-> policy]
Campaign == [end |-> journal.end, records |-> watch.count, policy |-> policy, trust |-> trust]

(***************************************************************************)
(* Loading: the lineage of the journal is checked, a cutoff that would     *)
(* rewind it is refused, and the step is chosen.                           *)
(***************************************************************************)
Loads(r, cutoff) ==
    /\ calls[r].step = "none"
    /\ cutoff >= journal.end
    /\ journal.previous = before

Plan(r, step, j, cutoff) ==
    /\ calls' = [calls EXCEPT ![r] = [step |-> step, journal |-> j, cutoff |-> cutoff]]
    /\ fresh' = fresh \cup {r}
    /\ UNCHANGED <<journal, before, state, world, reviewed, swapped>>

PlanJournal(r, j) == Plan(r, "persist", [j EXCEPT !.previous = journal.end], 0)

StartsJournal(r, cutoff) ==
    /\ Loads(r, cutoff) /\ journal = NoJournal
    /\ PlanJournal(r, Initial(cutoff))

InForce == journal.policy = policy /\ journal.trust = trust

MeetsRevision(r, cutoff) ==
    /\ Loads(r, cutoff) /\ journal # NoJournal /\ ~ InForce
    /\ PlanJournal(r, [Restart(journal) EXCEPT !.policy = policy, !.trust = trust])

InPhase(r, cutoff, phase) == Loads(r, cutoff) /\ InForce /\ journal.phase = phase

InBackfill(r, cutoff) ==
    /\ InPhase(r, cutoff, "backfill")
    /\ IF journal.end \in scanned THEN PlanJournal(r, EnterReview(journal))
                                  ELSE Plan(r, "backfill", journal, 0)

\* The watch grew since the review began.
ReviewStartsOver(r, cutoff) ==
    /\ InPhase(r, cutoff, "review")
    /\ watch.count # journal.count
    /\ PlanJournal(r, EnterReview(journal))

InReview(r, cutoff) ==
    /\ InPhase(r, cutoff, "review")
    /\ watch.count = journal.count
    /\ LET left == Remaining(journal)
       IN  \/ /\ left = 0
              /\ PlanJournal(r, [Restart(journal) EXCEPT !.phase = "checkpoint"])
           \/ /\ left > 0 /\ (~ journal.observed \/ watch.changed)
              /\ PlanJournal(r, [journal EXCEPT !.remaining = left, !.observed = TRUE,
                                                !.cursor = watch.cursor])
           \/ /\ left > 0 /\ journal.observed /\ ~ watch.changed
              /\ Plan(r, "reconcile", NoJournal, 0)

InCheckpoint(r, cutoff) ==
    /\ InPhase(r, cutoff, "checkpoint")
    /\ IF Projection \in projected
       THEN PlanJournal(r, [journal EXCEPT !.phase = "stage", !.campaign = Campaign,
                                           !.offset = 0])
       ELSE Plan(r, "project", journal, 0)

InStage(r, cutoff) ==
    /\ InPhase(r, cutoff, "stage")
    /\ IF journal.offset >= journal.campaign.records
       THEN PlanJournal(r, [journal EXCEPT !.phase = "ready"])
       ELSE Plan(r, "stage", journal, 0)

InReady(r, cutoff) ==
    /\ InPhase(r, cutoff, "ready")
    /\ Plan(r, "coverage", journal, cutoff)

Load(r, cutoff) ==
    \/ StartsJournal(r, cutoff) \/ MeetsRevision(r, cutoff) \/ InBackfill(r, cutoff)
    \/ ReviewStartsOver(r, cutoff) \/ InReview(r, cutoff) \/ InCheckpoint(r, cutoff)
    \/ InStage(r, cutoff) \/ InReady(r, cutoff)

(***************************************************************************)
(* The step                                                                *)
(***************************************************************************)
Step(r, step) == calls[r].step = step /\ calls' = [calls EXCEPT ![r] = NoCall]

\* What storing does: alone, it would be a store whatever the head of the branch is.
StoreAnyway(r, j) ==
    /\ journal' = j
    /\ before' = journal.end
    /\ fresh' = {}
    /\ reviewed' = IF j.phase = "review" /\ ~ j.observed THEN {} ELSE reviewed
    /\ watch' = [watch EXCEPT !.changed = @ /\ ~ j.observed]

\* The journal is stored if nothing was committed since it was loaded.
Store(r, j) ==
    IF r \in fresh THEN StoreAnyway(r, j)
                   ELSE UNCHANGED <<journal, before, fresh, reviewed, watch>>

Persists(r) ==
    /\ Step(r, "persist")
    /\ Store(r, calls[r].journal)
    /\ UNCHANGED <<scanned, projected, staged, world, swapped>>

\* External: a scan retains, and watches, what can be seen.
Backfills(r) ==
    /\ Step(r, "backfill")
    /\ watch' = [watch EXCEPT !.count = visible, !.changed = TRUE]
    /\ scanned' = scanned \cup {calls[r].journal.end}
    /\ fresh' = {}
    /\ UNCHANGED <<journal, before, projected, staged, world, reviewed, swapped>>

\* External: one batch of rows is reviewed.
Reconciles(r) ==
    /\ Step(r, "reconcile")
    /\ watch' = [watch EXCEPT !.cursor = Advanced(@), !.changed = TRUE]
    /\ reviewed' = reviewed \cup
                   watch.cursor + 1 .. watch.cursor + Visited(watch.cursor)
    /\ fresh' = {}
    /\ UNCHANGED <<journal, before, scanned, projected, staged, world, swapped>>

\* External: what the archive has retained is projected.
Projects(r) ==
    /\ Step(r, "project")
    /\ projected' = projected \cup {[end |-> calls[r].journal.end, records |-> watch.count,
                                     policy |-> calls[r].journal.policy]}
    /\ fresh' = {}
    /\ UNCHANGED <<journal, before, watch, scanned, staged, world, reviewed, swapped>>

\* One fact, under the trust file as it is now.
Fact(j) == [campaign |-> [j.campaign EXCEPT !.trust = trust], fact |-> j.offset + 1]

\* Faulty variant: a fact is credited when its staging is asked for.
NeedsNoStaging(j) == FALSE

NeedsStaging(j) == Fact(j) \notin staged

\* External but for its use: the fact is staged, and credited by a later step.
Stages(r) ==
    /\ Step(r, "stage")
    /\ NeedsStaging(calls[r].journal)
    /\ staged' = staged \cup {Fact(calls[r].journal)}
    /\ fresh' = {}
    /\ UNCHANGED <<journal, before, watch, scanned, projected, world, reviewed, swapped>>

AlreadyStaged(r) ==
    /\ Step(r, "stage")
    /\ ~ NeedsStaging(calls[r].journal)
    /\ LET j == calls[r].journal
       IN  /\ Store(r, [j EXCEPT !.offset = @ + 1, !.previous = j.end])
           /\ swapped' = (swapped \/ trust # j.campaign.trust)
    /\ UNCHANGED <<scanned, projected, staged, world>>

AllStaged(c) == \A n \in 1..c.records : [campaign |-> c, fact |-> n] \in staged

\* External: everything that can be seen is retained, projected and staged.
Covered(j) ==
    /\ j.campaign.records = visible /\ watch.count = visible
    /\ j.campaign.policy = j.policy /\ j.campaign.trust = trust
    /\ AllStaged(j.campaign)

CoverageGap(r) ==
    /\ Step(r, "coverage")
    /\ LET j == calls[r].journal
       IN  /\ ~ Covered(j)
           /\ Store(r, [Restart(j) EXCEPT !.previous = j.end])
    /\ UNCHANGED <<scanned, projected, staged, world, swapped>>

NewInterval(r) ==
    /\ Step(r, "coverage")
    /\ LET j == calls[r].journal
       IN  /\ Covered(j)
           /\ calls[r].cutoff > j.end
           /\ Store(r, [Restart(j) EXCEPT !.end = calls[r].cutoff, !.previous = j.end])
    /\ UNCHANGED <<scanned, projected, staged, world, swapped>>

ReportsReady(r) ==
    /\ Step(r, "coverage")
    /\ Covered(calls[r].journal)
    /\ calls[r].cutoff = calls[r].journal.end
    /\ UNCHANGED <<journal, before, state, world, fresh, reviewed, swapped>>

Act(r) ==
    \/ Persists(r) \/ Backfills(r) \/ Reconciles(r) \/ Projects(r)
    \/ Stages(r) \/ AlreadyStaged(r)
    \/ CoverageGap(r) \/ NewInterval(r) \/ ReportsReady(r)

(***************************************************************************)
(* The world                                                               *)
(***************************************************************************)
Changes == changes < MaxChanges /\ changes' = changes + 1

RecordAppears ==
    /\ Changes
    /\ visible < MaxRecords
    /\ visible' = visible + 1
    /\ UNCHANGED <<journal, before, state, policy, trust, calls, fresh, reviewed, swapped>>

PolicyRevised ==
    /\ Changes
    /\ policy' = policy + 1
    /\ UNCHANGED <<journal, before, state, visible, trust, calls, fresh, reviewed, swapped>>

\* A trust file may be put back.
TrustRevised ==
    /\ Changes
    /\ trust' \in Revisions \ {trust}
    /\ UNCHANGED <<journal, before, state, visible, policy, calls, fresh, reviewed, swapped>>

\* Another worker, or the origin's advancement, commits to the branch.
OtherCommits ==
    /\ Changes
    /\ fresh' = {}
    /\ UNCHANGED <<journal, before, state, visible, policy, trust, calls, reviewed, swapped>>

RunnerLost(r) ==
    /\ Changes
    /\ Step(r, calls[r].step) /\ calls[r].step # "none"
    /\ UNCHANGED <<journal, before, state, visible, policy, trust, fresh, reviewed, swapped>>

Next ==
    \/ \E r \in Runners : (\E cutoff \in Ends : Load(r, cutoff)) \/ Act(r) \/ RunnerLost(r)
    \/ RecordAppears \/ PolicyRevised \/ TrustRevised \/ OtherCommits

Spec == Init /\ [][Next]_vars

\* The schedule goes on asking for the latest cutoff, and a runner goes on.
FairSpec == /\ Spec
            /\ \A r \in Runners : SF_vars(Load(r, MaxEnd)) /\ WF_vars(Act(r))

-----------------------------------------------------------------------------
\* The interval never rewinds, whatever cutoffs overlapping invocations were given
\* ("maintenance cutoff cannot rewind", line 106).
IntervalNeverRewinds == [][journal'.end >= journal.end]_vars

\* What the next invocation demands of the journal's lineage holds, or it would be
\* refused for ever (lines 106-121).
LineageHolds == journal.previous = before

\* A review that is over has visited every row, overlapping reviews and scans
\* included; a watch that one review visits whole is told apart by no cursor, which
\* the code leaves to coverage (lines 153-164).
ReviewVisitsAll ==
    journal.phase = "checkpoint" /\ journal.count > Batch => 1..journal.count \subseteq reviewed

\* All facts of a ready campaign are staged; it takes a trust file that changes
\* between its load and the stage (lines 88-89, 188-190) to credit another
\* campaign's.
StagedBeforeReady ==
    journal.phase = "ready" => swapped \/ AllStaged(journal.campaign)

\* What makes both inductive: an invocation whose load is still the head is about
\* to store a successor of the journal, and every journal, stored or about to be,
\* credits facts that are staged.
Credited(j) ==
    /\ j.phase \in {"stage", "ready"} => j.campaign \in Campaigns
    /\ j.phase = "stage" => j.offset <= j.campaign.records
    /\ swapped \/ /\ j.phase = "stage" =>
                        \A n \in 1..j.offset : [campaign |-> j.campaign, fact |-> n] \in staged
                  /\ j.phase = "ready" => AllStaged(j.campaign)

CallFits(r) ==
    LET j == calls[r].journal
    IN  /\ calls[r].step \notin {"none", "reconcile"} => j \in Journals
        /\ calls[r].step = "stage" => j.phase = "stage" /\ j.offset < j.campaign.records
        /\ calls[r].step = "coverage" => j.phase = "ready" /\ calls[r].cutoff >= j.end
        /\ Credited(j)
        /\ j.cursor <= watch.count
        /\ r \in fresh /\ calls[r].step = "persist" =>
              j.previous = journal.end /\ j.end >= journal.end
        /\ r \in fresh /\ calls[r].step \in {"stage", "coverage"} => j.end = journal.end

JournalInvariant ==
    /\ TypeOK
    /\ LineageHolds
    /\ watch.cursor <= watch.count /\ watch.count <= visible /\ journal.cursor <= watch.count
    /\ policy <= changes + 1
    /\ Credited(journal)
    /\ \A r \in Runners : CallFits(r)

\* Why a review that is over has visited all: the rows it has counted are those that
\* lie behind its cursor, around the end of the watch, and where the watch is ahead of
\* the journal the next batch is visited.
Behind(cursor, count, distance) ==
    {x \in 1..count : (IF x <= cursor THEN cursor - x ELSE cursor - x + count) < distance}

NextRows(cursor) == cursor + 1 .. cursor + Visited(cursor)

ReviewFits(j) ==
    /\ j.phase = "review" =>
          /\ j.count <= watch.count
          /\ ~ j.observed => j.remaining = j.count
          /\ j.observed /\ j.count = watch.count /\ j.count > Batch =>
                Behind(j.cursor, j.count, j.count - j.remaining) \subseteq reviewed
    /\ j.phase = "checkpoint" /\ j.count > Batch => 1..j.count \subseteq reviewed

WatchIsAhead ==
    journal.phase = "review" /\ journal.observed /\ journal.count = watch.count /\ journal.count > Batch =>
        watch.cursor = journal.cursor \/ NextRows(journal.cursor) \subseteq reviewed

PlanReviews(r) ==
    LET j == calls[r].journal
    IN  r \in fresh /\ calls[r].step = "persist" =>
           /\ ReviewFits(j)
           /\ j.phase = "review" => j.count = watch.count /\ (j.observed => j.cursor = watch.cursor)

ReviewInvariant ==
    /\ ReviewFits(journal) /\ WatchIsAhead
    /\ \A r \in Runners : PlanReviews(r)

\* Why the journal goes through its phases in order: what is stored was planned from
\* the journal that it replaces, and nothing is credited before a campaign.
Uncredited(j) == j.campaign.records = 0 /\ j.offset = 0

Follows(j) ==
    /\ journal.phase # "none" => j.end = journal.end
    /\ \/ j.phase = "backfill" /\ Uncredited(j)
       \/ j.phase = "review" /\ journal.phase \in {"backfill", "review"} /\ Uncredited(j)
       \/ j.phase = "checkpoint" /\ journal.phase = "review" /\ Uncredited(j)
       \/ j.phase = "stage" /\ journal.phase = "checkpoint" /\ j.offset = 0
       \/ /\ j.phase = "ready" /\ journal.phase = "stage"
          /\ j.campaign = journal.campaign
          /\ j.offset = journal.offset /\ j.offset = j.campaign.records

PlanFollows(r) ==
    /\ calls[r].step = "persist" => Follows(calls[r].journal)
    /\ calls[r].step \in {"stage", "coverage"} => calls[r].journal = journal

CycleInvariant ==
    /\ journal.phase \notin {"stage", "ready"} => Uncredited(journal)
    /\ \A r \in fresh : PlanFollows(r)

MaintenanceInvariant == JournalInvariant /\ ReviewInvariant /\ CycleInvariant

(***************************************************************************)
(* The journal implements the reporting cycle: overlapping invocations,    *)
(* lost runners, scans and revisions in between show as its steps or not   *)
(* at all.                                                                 *)
(***************************************************************************)
Cycle == INSTANCE ReportingCycle
    WITH interval <- journal.end, phase <- journal.phase,
         size <- journal.campaign.records, credited <- journal.offset,
         Cutoffs <- Ends, Sizes <- Records

\* No interleaving skips a phase, credits a fact twice, finishes a campaign that is
\* not credited whole, or moves on from an interval that is not ready (lines 97-200).
ImplementsCycle == Cycle!Spec

\* With an end to appended records, revisions and changes, maintenance gets ready,
\* unless a record appeared after the scan of its interval, or invocations overlap
\* for ever: two that always review together take the cursor past each other.
Converged == journal.phase = "ready" /\ InForce /\ Covered(journal)
Stranded == visible > watch.count /\ journal.end \in scanned
Overlap == \E r, s \in Runners : r # s /\ "none" \notin {calls[r].step, calls[s].step}
ConvergesUnlessStranded == <>[](Converged \/ Stranded) \/ []<>Overlap
=============================================================================
