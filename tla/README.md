# A verification of the claude-init factory

claude-init is a repository template: policies, session hooks and GitHub
workflows under which people and coding agents change a code base. What it
*does* is done by workflows that run concurrently on GitHub, by a few Python
programs that keep a journal on a protected branch, and by hooks that run in
each session. This directory models the parts of it that keep state and meet
each other: TLA+ modules, the TLC configurations that check them on small
instances, and theorems that TLAPS proves for all instances.

Paths of the form `src/...` are relative to the repository, and every
definition that models code has its lines in `PROJECT.json` ("map").

Contents: 1 the system, 2 the modules, 3 what each run shows, 4 fairness,
5 what is proved, 6 findings, 7 what is not modelled, 8 the plan.

## 1. The system

### Components

| component | state it keeps | operations | module |
|---|---|---|---|
| queue journal | rows of one file on the protected state branch | `validate_journal`, `validate_transition` | QueueJournal, QueueValidate |
| queue store | the branch head, the journal, what callers remember | `QueueStore.read`, `checkpoint` | QueueStore |
| queue observer | nothing between two observations; reads runs, jobs, health | `observe_queue` | QueueObserver |
| reporting maintenance | maintenance journal, watch, manifests, projections, staged facts | `maintain` | Maintenance, ReportingCycle |
| daily batch, merge gate, autofix | the most recent batch run, checks of heads, fix branches | schedule, dispatch, gate, autofix | MergeGate |
| required status checks | the last run of every check of every head | events, runs, re-runs, strict merge | RequiredChecks |
| merge authority | the concurrency group, the eligibility check | requests, evaluation, merge | FactoryMerge |
| proof producers | check runs, artifacts, the candidate's group | verification and review of a head | FactoryProducer |
| capacity drivers | the restored branch, the child process, its object cache, the receipt, what is saved | restore, loop of fresh processes, delivery double, finally | StateFixture, CapacityDrivers |
| reporting workflows | Slack messages, delivery state, their shared group | digest, hosted digest, feedback, alerts, canary, queue monitor | planned: Reporting |
| project board | the status of an issue | issue-lifecycle, hotfix-ingest | planned: Board |
| scheduled writers of main | ramp, DORA, stale specs, archive, memory | cron jobs that commit or open pull requests | planned: MainBranch |
| session hooks | streak, heartbeat, session brief files | hooks of one or several sessions | planned: Sessions |
| guards, stateless scans, deployment templates, installation, policy data | none, or data only | | section 7 |

### How they interact

A pull request raises the required checks (RequiredChecks) and, if it is a
factory candidate, the two producers (FactoryProducer). A producer ends with a
check run; its completion is an event that asks the merge authority
(FactoryMerge) for an evaluation. The merge authority and people merge under
one ruleset: all required checks green, branch up to date. One of those checks
is the merge gate, which reads the conclusion of the daily batch (MergeGate).
Off this path, the reporting programs observe the workflows' queue
(QueueObserver), announce what they see through a journal that every caller
moves by compare-and-set on a branch it shares with other workers (QueueStore),
and are maintained by a job that walks an interval of records in phases
(Maintenance). Before they may run they are measured: drivers restore a saved
branch into a Git double, run the public entry point again and again in fresh
processes, and save the branch for the driver after them (CapacityDrivers).

The components share state in four ways: a Git ref that is updated only from an
expected parent (QueueStore, Maintenance, StateFixture); concurrency groups with one running
and one waiting run (FactoryMerge, FactoryProducer, later Reporting); check runs
on a head, where the last one counts (RequiredChecks, FactoryMerge, MergeGate);
and events, whose payload is older than the run that works on it (all of them).

### What is hard about it

Each behaviour is listed at its line under "hazards" in `PROJECT.json`.

* *Old answers.* Verdicts are snapshots: a gate that was green, a title that was
  read from an event, the policy of the commit a run was raised on, a list that
  has changed since it was read.
* *Displacement.* A concurrency group keeps one waiting run, so a request is
  lost when another comes, and even when the newer run is skipped by its guard.
* *Partial effects.* A ref update takes effect without an acknowledgement, or
  arrives after its caller gave up; a runner is lost between a helper's write
  and the journal that records it; a proof is made and its upload fails.
* *Reading what moves.* `observe_queue` reads up to 15 lists and their jobs, one
  request after another, of runs that go on moving.
* *Loops that wait on each other.* A fix must pass the gate its defect closed.
* *Long legal sequences.* Stall, recovery and drill rows up to a capacity.
* *Starting again from what was left.* A driver restores the branch that a failed one
  has saved, with half a scan or an uncertain send in it, and without the
  receipt, which stayed in the other driver's directory.

### What makes each component correct

| component | correct means |
|---|---|
| journal | one unfinished row at a time; one open stall; a recovery only of a told incident; the code's single pass accepts exactly these |
| store | a success reported is never undone; a conflict is final; of two writers of one row at most one is certain; each call ends; refines the ledger |
| observer | a report is unknown, or exact for one moment of the observation |
| maintenance | lineage and interval never go back; a review visits every row; ready means staged; it gets ready; refines the reporting cycle |
| merge gate | how many pull requests merge after the gate has closed; a failed batch can be repaired |
| required checks | what is merged is what was judged; no check is pending for ever |
| merge authority | nothing merges under a policy that is off; eligibility rests on new evidence; nothing stays mergeable and forgotten |
| capacity drivers | another worker's commit survives; one history carries one send; a batch goes forward; a driver that passes has saved the proof; the corrected driver delivers within its loop; the cache is what its counter says |
| producers | a successful check is backed by its run's artifact; the newest head is judged |

## 2. The modules

Each module names the program it models in its header. One action stands for
one operation with all its calls; where the code reads, then acts, the reading
and the acting are two actions with the other actors in between.

**QueueJournal** states the journal's rules as predicates: `ValidateJournal`
(lines 65-100 of `factory-reporting-queue.py.discarded` under
`src/verify/2026-10-16/T-314/attempt-1/`) and the transitions a caller may ask
for. A row is a kind, a run, an incident, a status and a receipt; a key is
`<<kind, incident>>`. Bytes are counted as `RowBytes` and `ReceiptBytes`, which
is all the capacity rule sees of the serialised form.
**QueueValidate** EXTENDS QueueStore and executes the code's own loop (its sets
`seen` and `recovered`, its flag `unfinished`, its `open_stalled`) row by row,
next to the predicate, on what a caller could submit in each state of the store.
The proofs have the agreement for every sequence of rows, so that what is proved of
`ValidateJournal` is proved of the loop.

**QueueStore** EXTENDS QueueJournal. Variables: the branch (`head`, `journal`,
`workers`, `late`) and, for each caller, the local variables of `checkpoint`.
`Load`, `CasAcknowledged | CasRaises`, `Reload` are the steps of one iteration
of the loop of lines 200-218; `LoadFails`, `ReloadFails` are failing requests;
`Crash` is a lost runner; `LateArrival` is a ref update whose caller has given
up; `WorkerCommit` is another worker of the same branch. The Git access
(`GitState`) is in a script that is not in the repository; it is modelled from how the
store uses it (a conditional update from the loaded head) and marked external.
**NotificationLedger** is the abstract specification: a set of notifications told and
at most one open intent. `QueueStore!Ledger` instantiates it with a refinement
mapping over the stored journal.
**MCQueueStore** adds the symmetry set only.

The queue journal was committed in two steps, T-312 (journal) and T-313 (store), and
the file above holds them together with the observer of T-314; it is the only
complete copy in the repository. Its suffix says that this *attempt at T-314* was set
aside, and a later one replaced its observer. The journal and the store are the
baseline it was built on.

**QueueObserver** models the observer of the same file: `ReadHealth`,
`ReadList` for each workflow and each status of `ACTIVE`, `ReadJobs` for each
run found, the same again, the comparison of the passes, the report, `Recheck`
of the health. `World` is what goes on meanwhile: runs arrive, move between
statuses, work, complete; the health is delivered. Every malformed or failing
answer is the one step `Abandon`, which ends in the answer "unknown", as it does in the code.
**MCQueueObserver** fixes the workflow of each run.

**Maintenance** models `maintain` (`discarded-candidate.py` under
`src/verify/2026-10-17/T-334/attempt-1-helper/`, a revision set aside later;
MAINTENANCE.md beside it says what became of it). `Load` chooses, from the journal that is loaded, what the invocation
will do (`InBackfill`, `InReview`, `InCheckpoint`, `InStage`, `InReady`,
`MeetsRevision`), `Act` does it: helper writes and the conditional store.
Lineage is the previous interval's end; pages and offsets are one position;
there is one segment; a scan and a projection are one invocation each.
**ReportingCycle** is the abstract specification: one sequential cycle of backfill,
review, checkpoint, stage and ready per interval, in which a campaign gets its size once and is
credited fact by fact, and which may only start over or go on to a later interval.
`Maintenance!Cycle` instantiates it with four fields of the journal.

**MergeGate** models `daily-batch.yml` (run, roll-up, cancellation),
`merge-gate.yml` (`GateReads`, `GateConcludes`), `daily-failure-autofix.yml`
(`AutofixOpens`) and the strict ruleset (`UpdateBranch`, `Merge`). A tree is a
set of two defects: one that comes with code and one that is published from
outside.

**ActionsGroup** is the concurrency group with `cancel-in-progress: false`, as operators
`Enter` and `Leave`; it is external behaviour, shared by the next two modules.
**FactoryMerge** models `factory-merge.yml` and who asks it: completed checks
(`CheckCompletes`, `OldCheckCompletes`), `AutoMergeRequests` and
`OperatorDispatches`. An evaluation is `Observe`, then `Merge` or nothing, then
`Conclude`. Some requests come to nothing (`Futile`, `FutileRunEnds`): the guard skips
runs of pushes to main (`SkippedRunCompletes`), and a producer that has left no
artifact names no candidate (`RunWithoutArtifact`, and the failure of one of
`Producers` in `CheckCompletes`).
`factory-coordinator.py` is not in the repository; it is modelled from how the workflow
calls it and what `src/docs/FACTORY-ACTIVATION.md` says the evaluation does.
**FactoryProducer** models `factory-verification.yml` and `factory-review.yml`,
which have the same steps: events of a candidate, the group of the candidate,
`StartCheck`, the four steps with their conditions, `CompleteCheck`. `StartFails` and
`RunLost` are the refused start and the lost runner, which leaves its check in progress.

**RequiredChecks** models `ci.yml`, `harness-validate.yml`,
`evidence-gate.yml`, `adr-gate.yml`, `commitlint.yml`,
`lint-exception-audit.yml`, the request of `release-please.yml` and
`main-protection.json`. An event is first `due`, then a run is created
(`StartRun`), works on the payload and ends. `Detect`, `ReadBody`,
`ProveEvidence`, `LintCommits` are the steps of the checks that differ from the
rest. The check `check-daily-batch` is the subject of MergeGate.

**StateFixture** is the Git double that opens the six frozen drivers of T-334
(`State`, `PipelineState`, `HistoryState`; the text is the same in all of them,
and the map gives its lines in one). A commit is named by its history, so that
`merge-base --is-ancestor` compares sequences. `PatchApplied` and `PatchRefused`
are the two outcomes of the ref update after the other writer has had its turn;
`Fetch` and `MakeRoom` are the bounded cache of immutable objects.
**CapacityDrivers** EXTENDS it. A driver is a record of what tells its file from
the others: how it may end and go on, the head its listing gives, whether its
source revision caches comparisons, whether it may send, what its `finally`
keeps. `Chain` is the order in which the drivers restored each other's results.
`Restore`, `Spawn`, `Judge`, `LoopExhausted`, `Finally` are the driver process;
`DriverLost` loses it with its directory; `Load`, `Patch`, `Send`, `Lookup` and the
phases are the child. `hosted.run` is not in the repository: its phases are
modelled from the answers that the drivers expect, the logs beside them, and
`src/docs/FACTORY-DIGEST.md` (uncertain is durable before the send, no blind
resend, prepared bytes are retained). **MCCapacityDrivers** gives the loop bounds,
object sizes and switches.

Two things in it are settings of a test, not deeds of a driver. The switches of
`State` (conflict, lost, failed, fail_after_ack) are fields that the fixture's own
tests set; the frozen drivers leave them as they are. `Bench` is the set of
settings an invocation may start with, as such a test would, and counts against `MaxFaults`.
And the current source starts `single` from an older commit of the history, so
the promise of one send is per history and not for all time.

Definitions with a comment "Faulty variant" are not used by any specification. They
are plausible bugs: `PROJECT.json` ("mutants") names, for every property, the definition
that one of them replaces, and with it the property is violated.

## 3. The runs

Twelve runs. "States" are distinct states; all passing runs explore their space
completely.

| run | question | bounds | states |
|---|---|---|---|
| queue_store | what do racing callers know of their writes? | 2 callers (symmetric), 1 row, 2 attempts, 1 worker commit, 1 late request | 362 898 |
| queue_store_long | does the store implement the ledger, does each call end, and does the single pass accept what the rules describe? | 1 caller, 3 stored rows and 1 submitted, 2 runs; submissions on each stored journal, wrong rows included | 267 249 |
| queue_store_capacity | can an unfinished row always be confirmed? **violated** | 1 caller, room for one confirmed and one pending row but not for the receipt of the second | |
| merge_gate | how many merge after the gate closed? | 1 ordinary, 1 fix, 1 release pull request, window of 1 hour | 550 208 |
| merge_gate_recovery | does the repair loop close? **violated** | 1 fix pull request | |
| factory_merge | one candidate under all events | 3 heads, 2 checks, one of them a producer's | 203 748 |
| factory_merge_two | is a candidate ever forgotten? **violated** | 2 candidates, 1 head and 1 check each | |
| factory_producer | what is behind a successful check, and is the newest head judged? | 4 events | 422 339 |
| maintenance | overlapping invocations | 2 runners, 2 cutoffs, 2 records, 1 change, batch of 1 | 284 839 |
| queue_observer | is a report true of a moment? | 1 workflow, 2 runs, 2 changes, clock 0..2, grace 2, clock ahead by 1 | 3 180 938 |
| capacity_drivers | does each driver leave what the next one needs, and nobody's work lost? | 8 drivers, loops of 1 to 6, 2 pages, cache of 8 units, 2 faults, 1 repeat | 192 552 |
| required_checks | is what merges what was judged? | 1 work and 1 release pull request, 3 checks, 2 events, 1 other commit | 524 876 |

### What they show

*queue_store.* `SuccessIsDurable`: after any further calls, late requests and
worker commits the stored journal still grows from what the successful caller
wanted. `ConflictIsFinal`: a snapshot that met a conflict never becomes current
again. `OneCertainWriter`: when two callers wanted the same row, at most one gets "applied"
without `uncertain_write_reconciled`, so that flag does tell author from
bystander. Two callers and one late request give every order of two updates
and one lost acknowledgement; a second attempt is the first with a used flag.
`StepsRunOut`: every step of a call uses up its loop, and what others do
gives none of it back.

*queue_store_long.* `ImplementsLedger`: through all of that, each incident is
told once, a recovery only after its incident, and an intent is durable before
its receipt. `CallReturns`: the loop is bounded whatever the branch does.
`DefinitionsAgree`: the predicate that the store uses and the code's pass agree on
each journal a caller could submit after reading the stored one: the stored rows
with any row at all appended, or in the place of the last one, with wrong incidents, receipts and
cutoffs among them. Both definitions stop at the first wrong row. `OneStallOpen`: the
pass's variable for the open stall is exactly the one stalled row without a
confirmed recovery. Three stored rows are a stall, its recovery and a second stall, and the submitted
one is any row after them; the pass keeps no other memory, and the theorem has every length.

*merge_gate.* `AtMostOneSlips`: verdicts are out of date as soon as the batch
fails, and yet only one gated pull request can use one, because its merge puts
all other branches behind main and an update runs the gate again. The fix and
the release pull requests are in the run because they take other ways through the
gate. One hour is enough as the code compares whole hours with the window: ages 0,
1 and beyond are told apart, `TicksPerHour` being the rounding.

*factory_merge.* `EventMergesWhileEnabled`: a run raised by an event under a
policy that allowed merging may start after the policy was switched off. It
does not merge: switching it off is a commit, and that leaves every candidate
behind main. `EligibleOnNewEvidence`: evaluations never overtake one another, so
each positive verdict has seen all checks green since the verdict before.
`ReadyIsAwaited`: at every moment a mergeable candidate has an evaluation in the group
that will read it or has read it as it is, unless the request of a mergeable candidate was displaced
or its evaluation failed outright (`lost`); and `LeftReadyOnlyByLoss`: only such a loss leaves it
mergeable for ever. A failure that meets a candidate before it is mergeable is no excuse: a
later event has to make up for it. Nor is a producer that ends without an artifact, skipped, failed or lost:
its evaluation ends at "must identify one candidate artifact" and helps nobody, but
no candidate depends on it, since a producer whose check succeeds has uploaded the artifact. It does
harm only by what it displaces.

*factory_producer.* `SuccessIsBacked`: a successful check links to a run that
has uploaded a signed proof of that very head. `NewestHeadIsJudged`: the group's
one waiting place loses runs, and still never the one for the newest head.
`NewestHeadIsAwaited` says so of each moment: that head is judged, or the run in progress has
taken it or not yet chosen, or one that will choose it waits. A lost run leaves its check
in progress, and any event after the run's own heals that: the next run finds the
check so and starts it again (a start that left it alone violates the property). The
exception, `orphaned`, is a run that is refused or lost with no event after its own. Four
events are a running, a waiting and a displaced run, and one that changes the
draft state between them.

*maintenance.* `ReviewVisitsAll`, `StagedBeforeReady` and `IntervalNeverRewinds`
with two invocations that load the same journal. `ImplementsCycle`: however they overlap, are lost,
or meet a revision, the journal moves as one sequential reporting cycle: no phase is skipped, no fact
is credited twice, no campaign is finished before it is credited whole. `ConvergesUnlessStranded`:
without further changes, and whatever revisions, commits and lost runners came before, it ends in
"ready" and covered, but for two named cases, of which it shows nothing. A record that
appears after the scan of its interval and before its coverage strands the interval:
coverage sends it back to the backfill, whose manifest says it is complete
(line 195 and 148). And two invocations that overlap in each review for ever take the cursor past each
other. A batch of 1 with two records makes reviews of several invocations.

*queue_observer.* `ReportIsOfOneMoment`: a report that is not "unknown" names
exactly the runs that were stalled when the second pass began, and the health of that
moment, although no two requests see one moment. It needs
`Ahead < Grace`: a clock that is ahead by the grace period calls a run stalled that
has just moved. Two runs suffice since what is read of one run depends on no
other but for the capacity, and one workflow since the lists are read one by one
in either case. A run that is repeated counts as a new run.

*capacity_drivers.* `OthersSurvive`: through conflicts, lost acknowledgements, lost
drivers and restarts, what another worker committed is in every later tree.
`OneSendPerHistory`: a driver that died after its send leaves a history in which nobody
sends again, because `lookup` never claims authoritative absence; the price is
that such a batch stays uncertain, and every later driver stops there.
`BatchGoesForward`: what a batch reports is fixed when it is prepared; later
listings and the quiet call add authenticated origin only. `PassedIsBacked`: "delivered"
implies a saved confirmed batch, its send, the agreed listing and
the receipt. `CorrectedDelivers`: pages scanned from the old listing
are found out by the second reading, the scan starts again, and the loop still has room for
all of it; the comparison alone starting again would fail for ever. `CacheIsExact`: a hit
moves an entry, an eviction counts down, and the ref is never stored. The real loops are 1024, 16, 16, 16, 1 and 8 invocations for 11 pages; with 2
pages, loops of 4, 3, 3, 6, 1 and 2 leave the three drivers before the corrected one failing, by
their bound or in the last invocation, and give the corrected one no more than it needs. Objects of
1, 2 and 3 units in a cache of 8 let the second reading of a process evict what its first has stored; an
object larger than the cache does not occur at these sizes, as none does at the real ones. The branches of `Recover` for a receipt found
and for certain absence are in the protocol and cannot be reached with these
doubles, as a directory with a receipt is never started again.

*required_checks.* `MergedAsJudged`: at the moment of a merge every required
check has passed on the tree that is merged, with three exceptions that are in
the code: `lint-test` is skipped when `detect` fails for a reason of its own; the run for an edit of
the body is not created yet; a title edited after it was judged is not judged again.
`NoneIsPendingForever`: no required check has a filter that keeps it from reporting.
`NoneIsForgotten`: at every moment a check without a conclusion has a run to come or a job that
goes on.
The three contexts of the run stand for the kinds: `lint-test` (needs another job, can be skipped),
`evidence-gate` (raised by edits, reads the body late), `commitlint` (works on the
payload); the others end like `lint-test` without `detect` and are in the theorems.

Why the small instances are enough, in general: each actor's steps depend on its own
locals and on shared state that holds one value (a head, a journal, a group of
two), so two actors and one disturbance of each kind reach each order that
matters. What must hold for more of them is what the proofs are for.

## 4. Fairness

Safety runs assume none. The liveness properties assume what the code or its
runner does by itself, and no more:

* `CallReturns`: weak fairness of the steps of the calling process. Nothing is
  assumed of the branch; the loop's own bound does the rest.
* `LeftReadyOnlyByLoss`, `NoneIsLeftReady`: weak fairness of the steps of the run in
  progress; a job ends by itself or at its time limit, and a group starts the run that
  waits.
* `NewestHeadIsJudged`: weak fairness of the job's steps. A step that hangs is ended by
  `timeout-minutes`, which loses the run: that is exempt only if no event came after the run's own.
* `ConvergesUnlessStranded`: strong fairness of `Load(r, MaxEnd)`, as the daily
  schedule asks again and again for the latest cutoff, and weak fairness of `Act`.
* `CorrectedDelivers`: weak fairness of the driver's own steps (the loop, the judgement
  of a joined process, finally) and of the child's: a process goes on until
  it has answered. Nothing is assumed of the operator, and faults are exempt.
* `NoneIsPendingForever`: weak fairness of `JobStep` of each run; GitHub creates
  the run of an event, and jobs end. People owe nothing.
* `RecoveryLoopCloses`: strong fairness of the schedule, the runners, the autofix
  and the merge of its fix: more than the code promises, and the property is still
  violated.

## 5. The proofs

Eight modules hold some 9 000 obligations, all proved. What they assume
is the ASSUME of each module, which TLC evaluates in every run.

| module | theorem | says |
|---|---|---|
| QueueStoreProofs | TypeCorrect, InvariantHolds, SuccessHolds, ConflictHolds, OneCertainWriterHolds | types, `StoreInvariant`, `SuccessIsDurable`, `ConflictIsFinal`, `OneCertainWriter` |
| | StepsRunOutHolds | `StepsRunOut`: a call is bounded, whoever else is at work |
| | StoreImplementsLedger | `ImplementsLedger`, by step simulation |
| | PassDecidesValidity, DefinitionsAgreeHolds, OneStallOpenHolds | the loop of `validate_journal` decides `ValidateJournal` for every sequence of rows; `DefinitionsAgree`, `OneStallOpen` |
| MergeGateProofs | GateInvariantHolds, AtMostOneSlipsHolds | |
| FactoryMergeProofs | PolicyInvariantHolds, EventMergesWhileEnabledHolds, EligibleOnNewEvidenceHolds, ReadyIsAwaitedHolds | |
| FactoryProducerProofs | RunInvariantHolds, SuccessIsBackedHolds, NewestHeadIsAwaitedHolds | |
| MaintenanceProofs | MaintenanceInvariantHolds, StagedBeforeReadyHolds, ReviewVisitsAllHolds, IntervalNeverRewindsHolds | |
| | MaintenanceImplementsCycle | `ImplementsCycle`, by step simulation |
| QueueObserverProofs | ObserverInvariantHolds, ReportIsOfOneMomentHolds | |
| RequiredChecksProofs | ChecksInvariantHolds, MergedAsJudgedHolds, NoneIsForgottenHolds | |
| CapacityDriversProofs | DriversInvariantHolds, TypeOKHolds, OthersSurviveHolds, OneSendPerHistoryHolds, BatchGoesForwardHolds, PassedIsBackedHolds, CacheIsExactHolds | |

In each, the inductive invariant is a definition of the model, checked by TLC in
the component's run before it was proved. Why each is needed:

* **Store.** That success is durable is not inductive: one has to know that a pending
  or late update can only do legal things. `BaseIsFresh` and `LateIsLegal` say
  that an update built on the current head asks for a legal transition of the
  current journal; an update built on an older one is refused. Hence every change is legal,
  `SnapshotsArePast` is preserved by transitivity of `Growth`, and the properties
  follow. For the ledger a legal transition maps to one abstract action or a
  stutter, which needs that a valid journal has its unfinished row last and no
  two rows of one key. `OneAuthor`: what a
  caller wrote, once its update was acknowledged, is in the past of the journal. Nobody
  can write it again, for that would put the journal in its own past, and growth is antisymmetric.
  For `StepsRunOut` the types are enough: three steps for each attempt that is left.
* **Gate.** `NoneCanSlip`: after the first slip no open gated pull request is both
  current and green. A merge makes the others not current, an update makes the check
  pending, and a closed gate makes it red.
* **Merge authority.** `CurrentIsBound` (evidence of an up-to-date head was made
  under the policy in force), `ReadingIsBound` (what the running evaluation has seen was bound
  to the policy it was raised under) and `ModeIsPolicy`. A merge needs a current head, so the
  policy of the run and the policy in force are one. `ReadingIsCounted`: a
  candidate read as ready, whose head has not moved, has been all green since the verdict before.
  `GroupInvariant` (nothing waits for a free group, a run starts with nothing read) is what `ReadyIsAwaited`
  needs: the event that makes a candidate mergeable puts its request into the group, where only a displacement, which sets
  `lost`, or its own verdict takes it out. That event names the candidate: the check that turns it green is one
  that succeeds, and a producer that succeeds has uploaded its artifact. It is assumed that there is a required check, as there is in
  `policy.json`: with none a candidate would be green without an event; and that the producers' checks are among
  the required ones.
* **Producers.** The run in progress owns its check and has uploaded what its step outcomes say;
  and its guard was passed, so a run that judges an older head leaves the group to one that was raised
  by the newer one. A run that waits was raised for a draft only if the candidate still is one, since
  leaving that state is an event with a run of its own: so what a lost run leaves behind is taken up.
* **Maintenance.** `CallFits`: what an invocation is about to store is a
  successor of the journal if its load is still current, and credits only facts
  that are staged. `LineageHolds` is the code's own requirement of the next load. For the
  review one has to say *which* rows a number stands for: `ReviewFits`: the rows
  counted are those that lie behind the recorded cursor, around the end of the watch; and
  `WatchIsAhead`: if the watch has left that cursor, by whomever, the batch that follows it was
  visited. A cursor that is found where one batch takes it is then enough, as in a watch longer than a
  batch no cursor stays where it is. For the cycle, `CycleInvariant`: what an invocation whose load is current
  will store follows from the journal it replaces, by one abstract step or none; an
  invocation whose load is not current stores nothing.
* **Observer.** An argument about time: what was last updated before the
  observation started has not changed since. `FirstPassInvariant` and `SecondPassInvariant` say
  what each pass has of such a run at every position of the reading; jobs are
  compared by event numbers, so that equal readings before and after a moment fix the
  value at that moment.
* **Drivers.** `Sound` says of a history what all five properties need: times and
  batches go forward, a send sits on the commit that made a pending batch
  uncertain, the other worker's file stays. It is asserted of three histories at once: the
  branch, the one last saved, and the one an update under way will make (`Tip`).
  One history cannot carry two sends as it passes from pending to uncertain but once;
  for a *new* send one needs `AnnouncementIsFresh`: the commit it is made on is the process's own,
  was never saved, and so is in no history a later driver may restore. `ProcessIsCurrent` says
  that the process plans on the branch as it is, `ReceiptIsOfASend` that a
  receipt outlives its process only with a delivery or an error, and
  `EarlyDriversPrepareNothing` that the drivers that keep no receipt never pass. All this
  is `HistoryInvariant`. `CacheIsFresh` is apart from it: a cache lives as long as its process, the branch
  grows only meanwhile, the ref is not cached, a commit that was in the
  branch stays in its continuations, and a tree or blob is its own content; the restore that replaces the branch comes
  with a process that has not asked for anything yet.
* **Checks.** Payloads are never newer than main (`PayloadsAreOld`), so strict
  merging makes the judged and the merged tree equal; `EvidenceIsCurrent` carries
  the body from its reading to the merge unless a run is due. `NoneIsForgotten` is inductive with the types: an event
  of a new head raises all the checks that it takes the conclusions from.

**Folds without induction.** The pass over the journal and the counter of the cache are
folds, and the library's induction theorems are out of the installed provers' reach. A
fold of the community modules is a recursive *function* on the sets of positions, so it is
enough that there is one such function only and that a closed form is one. Two that
differ would differ on a smallest set of positions (the inclusion of finite sets is
well founded, `MinimalSubset`), yet they agree on that set without its last position and go on from
there alike (`PassIsUnique`). The closed form of the pass is `Outcome`: the sets of
rows, recoveries and open stalls at the positions visited, and whether each row is accepted after
those before it (`OutcomeFolds`). `ValidateJournal` says the same of each position at once. The bytes
of a cache are the cardinality of a set of units, one for each byte of each entry.

Every safety property of the passing runs is proved, and the refinements. Only
model-checked are the liveness properties: `CallReturns`, `LeftReadyOnlyByLoss`, `NewestHeadIsJudged`,
`ConvergesUnlessStranded`, `NoneIsPendingForever`, `CorrectedDelivers`. Liveness under fairness and ENABLED
are beyond the installed prover. Of four of them the safety half is proved: `StepsRunOut` of `CallReturns`,
`ReadyIsAwaited` of `LeftReadyOnlyByLoss`, `NewestHeadIsAwaited` of `NewestHeadIsJudged`, and `NoneIsForgotten` of
`NoneIsPendingForever`. Nobody is waiting for something that was lost; what TLC alone shows is
that, when runs go on, that is enough.

## 6. Findings

1. **queue_store_capacity / `UnfinishedCanReconcile`** (code). The byte capacity is checked when a
   row is appended without its receipt, and again when the receipt is added. A pending row
   that just fits can never be confirmed, and the rule that an unfinished row is
   reconciled first then refuses every later row. With the real limits it takes 590 rows.
2. **merge_gate_recovery / `RecoveryLoopCloses`** (docs). The gate blocks the
   autofix pull request like any other, and each scheduled batch tests main,
   which fails until the fix is merged. The loop closes only if someone dispatches the batch on the fix branch.
3. **factory_merge_two / `NoneIsLeftReady`** (docs). The evaluations of all candidates
   share one waiting place. The last request of a green candidate can be displaced
   by one for another candidate, or by a run that comes to nothing, and nothing asks again.

The quotations are in `PROJECT.json`. Weaknesses the code names itself, or that
no text of the repository denies, are hazards with a note.

## 7. What is not modelled

* Scripts under `.claude/` (GitState, coordinator, producers, archive and discovery
  helpers, hooks): they are not in the repository. Their effects are modelled from
  their callers and marked external.
* Guards of edits and commands: stateless matching.
* Reviews and scanners that look at one tree and keep nothing.
* `canary-deploy.yml`, `e2e-preview.yml`: templates with placeholders.
* `install.sh`, `demo.sh`, `setup-stack`: run once by one person.
* `src/factory/*.json`: data; the merge switch and the trust file are in FactoryMerge
  and Maintenance.
* Of the drivers: the callback `before_patch` and `policy_drift` of the Git double, which no
  driver sets; the counters, the SQLite tables and the form of requests; the `coverage` mode of
  the reader, which no driver asks for; the workflow-run provider (`runs`), of which
  only "source artifacts expired" matters here.
* Within the models: conflicts between branches, pushes to closed pull requests,
  the form and paging of API answers, signatures and digests of evidence (an outcome each),
  the content of scans (two defects), identities of repository and workflows.
* Reporting, Board, MainBranch and Sessions: next section.

## 8. The plan

In this order; the first group is done.

1. **Core, checked and proved**: QueueJournal, QueueStore with NotificationLedger, MergeGate, FactoryMerge,
   FactoryProducer, Maintenance with ReportingCycle, QueueObserver, RequiredChecks, StateFixture with CapacityDrivers.
2. **Reporting**: digest, hosted digest, feedback, alerts and file canary share the group
   `factory-reporting-<repository>` (ActionsGroup, three or more kinds of request). To state: the alert for a failed digest
   is told or displaced only by a later one; the queue monitor, in a group
   of its own, never drills twice for one dispatch. Composes QueueObserver's report with QueueStore's journal (a
   report leads to at most one told notification per incident).
3. **Pipeline**: FactoryProducer composed with FactoryMerge: the request is the
   producer's completion. Abstract specification: a candidate is merged at most once, at a head with a
   backed success for each check. Theorem: the composition implements it.
4. **MainBranch**: scheduled writers that push with `|| true` or from an
   old checkout; the quarterly archive and the references it rewrites. To state: no
   reference to a moved spec is lost, a push that is refused loses only its own result.
5. **Board**: unordered runs of issue events, hotfix-ingest. To state: with no further
   events the status agrees with the issue.
6. **Sessions**: the streak file as read, modify, write of several sessions; heartbeat; brief.
   To state: counts lost or doubled are bounded, a brief belongs to the session before.
7. **Proofs to come**: safety of each new module; the Pipeline refinement.

New runs take the place of narrower ones where they subsume them (the Pipeline run
subsumes factory_merge's single candidate, for example), and short proofs are kept with related
ones, so that the project stays small enough to be checked in minutes.
