--------------------------- MODULE CapacityDrivers ---------------------------
(***************************************************************************)
(* The drivers of T-287 and T-334, run one after the other by an operator: *)
(* each restores what an earlier one has saved, runs the public reporting  *)
(* entry point (hosted.run) in fresh processes until it ends as it should, *)
(* and saves the branch, however it ends.                                  *)
(*                                                                         *)
(* hosted.run is in scripts that are not under src/.  Its protocol is      *)
(* modelled from docs/FACTORY-DIGEST.md, from the answers the drivers      *)
(* expect and from the logs beside them, and is marked external.           *)
(***************************************************************************)
EXTENDS StateFixture

CONSTANTS Pages,         \* pages of the pull-request listing
          OriginBatch,   \* commits an invocation can authenticate
          Bound,         \* Bound[driver]: range(...) of its loop
          Bench,         \* settings of State's switches a test may start with
          MaxFaults,     \* bound: switches set, processes lost, requests failed
          MaxRepeats     \* bound: drivers started again by the operator

\* full-prefix-resume-driver.py: one process; a stage that was made before is
\* accepted; the finalizer keeps the result of a failure, too.
FullPrefixResume ==
    [ends |-> {"staged", "already-staged"}, goes_on |-> {}, listing |-> "pr head",
     cached |-> FALSE, sends |-> TRUE, keeps |-> {"git"}]

\* measurement-reader.py, started by measurement-driver.py: a process that
\* reads only and saves nothing.
MeasurementReader ==
    [ends |-> {"projected"}, goes_on |-> {}, listing |-> "pr head",
     cached |-> FALSE, sends |-> TRUE, keeps |-> {}]

\* saved1001-public-tail-current-capacity-frozen.py: each comparison is made
\* again, which the last invocation cannot afford.
PublicTail ==
    [ends |-> {"delivered"}, goes_on |-> {"maintenance", "origin", "pull-requests"},
     listing |-> "workflow sha", cached |-> FALSE, sends |-> TRUE, keeps |-> {"git"}]

\* saved1001-final-invocation-measurement-frozen.py
FinalMeasurement ==
    [ends |-> {"delivered"}, goes_on |-> {"maintenance", "origin", "pull-requests"},
     listing |-> "workflow sha", cached |-> FALSE, sends |-> TRUE,
     keeps |-> {"git", "report"}]

\* saved1001-compare-cache-final-tail-frozen.py
CompareCache ==
    [ends |-> {"delivered"}, goes_on |-> {"maintenance", "origin", "pull-requests"},
     listing |-> "workflow sha", cached |-> TRUE, sends |-> TRUE,
     keeps |-> {"git", "report", "receipt"}]

\* saved1001-compare-cache-metadata-corrected-frozen.py
MetadataCorrected ==
    [ends |-> {"delivered"}, goes_on |-> {"maintenance", "origin", "pull-requests"},
     listing |-> "pr head", cached |-> TRUE, sends |-> TRUE,
     keeps |-> {"git", "report", "receipt"}]

\* current355-single-final-tail-frozen.py
SingleFinalTail ==
    [ends |-> {"delivered"}, goes_on |-> {"maintenance", "origin", "pull-requests"},
     listing |-> "pr head", cached |-> TRUE, sends |-> TRUE,
     keeps |-> {"git", "report", "receipt"}]

\* current355-same-cutoff-quiet-frozen.py: any send is an error.
Quiet ==
    [ends |-> {"not-due"}, goes_on |-> {"origin"},
     listing |-> "pr head", cached |-> TRUE, sends |-> FALSE,
     keeps |-> {"git", "report", "receipt"}]

Chain == <<"resume", "reader", "public", "measurement", "compare", "corrected",
           "single", "quiet">>
Scenario == [resume |-> FullPrefixResume, reader |-> MeasurementReader,
             public |-> PublicTail, measurement |-> FinalMeasurement,
             compare |-> CompareCache, corrected |-> MetadataCorrected,
             single |-> SingleFinalTail, quiet |-> Quiet]

ASSUME DriversAssumption ==
    /\ Pages \in Nat \ {0} /\ OriginBatch \in Nat /\ OriginBatch > 1
    /\ Bound \in [DOMAIN Scenario -> Nat \ {0}]
    /\ Off \in Bench /\ Bench \subseteq Switches
    /\ MaxFaults \in Nat /\ MaxRepeats \in Nat

VARIABLES turn,     \* the driver that was started last, a position of Chain
          phase,    \* of that driver
          before,   \* the commit it has restored
          index,    \* invocations so far
          outcome,  \* how the driver ended
          files,    \* in its directory: sent.json (receipt), report-N.sqlite
          saved,    \* the commit in the last saved context
          kept,     \* what was saved with it
          pc,       \* where the child process is
          then,     \* what it does after its checkpoint is acknowledged
          loaded,   \* the commit it has read
          reads,    \* requests answered of the reading under way
          posted,   \* the commit it has built
          result,   \* what it answers
          sends,    \* times of the commits on which a report was sent
          faults,
          repeats

driver == <<turn, phase, before, index, outcome, saved, kept, repeats>>
child == <<pc, then, loaded, reads, posted, result>>
vars == <<fixture, driver, child, files, sends, faults>>

Running == Scenario[Chain[turn]]
InTail == Chain[turn] \notin {"resume", "reader"}
None == <<>>
NoResult == [status |-> "none", phase |-> "none"]
Result(status) == [status |-> status, phase |-> "none"]
Incomplete(p) == [status |-> "incomplete", phase |-> p]
Times(history) == {history[i].at : i \in DOMAIN history}

\* The report and maintenance files of the state branch: how much of the
\* branch is authenticated, the listing each page was scanned from, how many
\* pages were compared with a second reading, and the batch.
Report == [staged : BOOLEAN, auth : Nat, compared : 0..(Pages - 1),
           scan : Seq({"workflow sha", "pr head"}),
           batch : {"none", "pending", "uncertain", "confirmed"}]

Captured == <<[tree |-> [envelope |-> Envelope, race |-> NoFile,
                         report |-> [staged |-> FALSE, auth |-> 0, compared |-> 0,
                                     scan |-> <<>>, batch |-> "none"]],
               at |-> 0]>>

Init ==
    /\ ref = Captured /\ clock = 1 /\ foreign = {} /\ switches = Off
    /\ cache = EmptyCache
    /\ turn = 1 /\ phase = "idle" /\ before = Captured /\ index = 0
    /\ outcome = "none" /\ files = {} /\ saved = Captured /\ kept = {}
    /\ pc = "off" /\ then = "done" /\ loaded = None /\ reads = 0 /\ posted = None
    /\ result = NoResult
    /\ sends = <<>> /\ faults = 0 /\ repeats = 0

-----------------------------------------------------------------------------
(***************************************************************************)
(* The driver process.                                                     *)
(***************************************************************************)

\* single starts from an older commit of the saved history, one that was
\* about to compare its last page; the others from its head.
Restorable ==
    {SubSeq(saved, 1, n) : n \in
       {k \in DOMAIN saved :
          LET r == saved[k].tree["report"]
          IN  r.batch = "none" /\ Len(r.scan) = Pages /\ r.compared = Pages - 1}}

\* Lines 143-148: fetch the saved ref; a new directory has no sent.json.
Restore(history) ==
    /\ ref' = history
    /\ before' = history
    /\ files' = {}
    /\ index' = 0
    /\ outcome' = "none"
    /\ phase' = "loop"

Start(t) ==
    /\ phase = "idle"
    /\ \/ outcome = "none" /\ t = turn /\ UNCHANGED repeats
       \/ outcome # "none" /\ t = turn + 1 /\ UNCHANGED repeats
       \/ outcome # "none" /\ t = turn /\ repeats < MaxRepeats /\ repeats' = repeats + 1
    /\ turn' = t
    /\ \E history \in IF Chain[t] = "single" THEN Restorable ELSE {saved} :
          /\ Restore(history)
          /\ foreign' = IF Chain[t] = "single" THEN foreign \cap Times(history) ELSE foreign
    /\ UNCHANGED <<clock, switches, cache, saved, kept, child, sends, faults>>

\* Faulty variant: the loop has no bound.
SpawnAlways ==
    /\ phase = "loop" /\ pc = "off"
    /\ switches' = Off /\ UNCHANGED faults
    /\ cache' = EmptyCache
    /\ pc' = "load" /\ then' = "plan"
    /\ UNCHANGED <<ref, clock, foreign, driver, loaded, reads, posted, result, files, sends>>

\* A forked process per invocation: it has its own copy of the switches and
\* an empty cache (lines 190, 209-210).
Spawn ==
    /\ phase = "loop" /\ pc = "off"
    /\ index < Bound[Chain[turn]]
    /\ \E setting \in Bench :
          /\ switches' = setting
          /\ faults' = IF setting = Off THEN faults ELSE faults + 1
          /\ faults' <= MaxFaults
    /\ cache' = EmptyCache
    /\ pc' = "load" /\ then' = "plan"
    /\ UNCHANGED <<ref, clock, foreign, driver, loaded, reads, posted, result, files, sends>>

Stop(how) == phase' = "finally" /\ outcome' = how /\ UNCHANGED index

\* The loop ends without a break (line 216).
LoopExhausted ==
    /\ phase = "loop" /\ pc = "off"
    /\ index = Bound[Chain[turn]]
    /\ Stop("failed")
    /\ UNCHANGED <<fixture, turn, before, saved, kept, repeats, child, files, sends, faults>>

\* Line 217, and line 76 of the reader: the branch is as it was.
EndsClean ==
    /\ Last(ref).tree["envelope"] = Envelope
    /\ Running.keeps = {} => ref = before

\* Lines 211-217: the parent reads the result of the process it has joined.
Judge ==
    /\ pc = "done"
    /\ CASE result.status \in Running.ends ->
              Stop(IF EndsClean THEN "passed" ELSE "failed")
         [] result.status = "incomplete" /\ result.phase \in Running.goes_on ->
              index' = index + 1 /\ UNCHANGED <<phase, outcome>>
         [] OTHER -> Stop("failed")
    /\ pc' = "off" /\ then' = "done" /\ loaded' = None /\ reads' = 0 /\ posted' = None
    /\ result' = NoResult
    /\ switches' = Off /\ cache' = EmptyCache
    /\ UNCHANGED <<ref, clock, foreign, turn, before, saved, kept, repeats,
                   files, sends, faults>>

\* Faulty variant: what was restored is saved, not what became of it.
FinallyOld ==
    /\ phase = "finally"
    /\ saved' = IF "git" \in Running.keeps THEN before ELSE saved
    /\ kept' = Running.keeps \cap ({"git"} \cup files)
    /\ phase' = "idle"
    /\ UNCHANGED <<fixture, turn, before, index, outcome, repeats, child, files, sends, faults>>

\* Lines 219-227
Finally ==
    /\ phase = "finally"
    /\ saved' = IF "git" \in Running.keeps THEN ref ELSE saved
    /\ kept' = Running.keeps \cap ({"git"} \cup files)
    /\ phase' = "idle"
    /\ UNCHANGED <<fixture, turn, before, index, outcome, repeats, child, files, sends, faults>>

\* The driver is lost with its directory; its finally block does not run.
DriverLost ==
    /\ phase \in {"loop", "finally"}
    /\ faults < MaxFaults /\ faults' = faults + 1
    /\ phase' = "idle" /\ outcome' = "failed"
    /\ foreign' = foreign \cap Times(saved)
    /\ ref' = saved
    /\ pc' = "off" /\ then' = "done" /\ loaded' = None /\ reads' = 0 /\ posted' = None
    /\ result' = NoResult
    /\ switches' = Off /\ cache' = EmptyCache
    /\ UNCHANGED <<clock, turn, before, index, saved, kept, repeats, files, sends>>

-----------------------------------------------------------------------------
(***************************************************************************)
(* The child process: hosted.run over the fixture.                         *)
(***************************************************************************)
Answer(r) ==
    /\ pc' = "done"
    /\ result' = r
    /\ reads' = 0
    /\ UNCHANGED <<then, loaded, posted>>

parent == <<driver, files, sends, faults>>

\* One reading of the branch is four requests: the ref, then its commit, its
\* tree and the report.
ReadOrder(tip) ==
    <<<<"ref">>, <<"commits", tip.at>>, <<"trees", tip.tree>>,
      <<"blobs", tip.tree["report"]>>>>

Load ==
    /\ pc = "load" /\ ~ switches.failed
    /\ LET head == IF reads = 0 THEN Served(<<"ref">>) ELSE loaded
       IN  /\ loaded' = head
           /\ cache' = Fetch(cache, ReadOrder(Last(head))[reads + 1])
    /\ reads' = (reads + 1) % 4
    /\ pc' = IF reads = 3 THEN then ELSE "load"
    /\ UNCHANGED <<ref, clock, foreign, switches, then, posted, result, parent>>

\* Line 62
Unavailable ==
    /\ pc \in {"load", "reconcile"} /\ switches.failed
    /\ Answer(Result("error"))
    /\ UNCHANGED <<fixture, parent>>

\* The API budget is used up, or the process is killed: the parent finds an
\* error or an exit code.
ChildFails ==
    /\ pc \notin {"off", "done"}
    /\ faults < MaxFaults /\ faults' = faults + 1
    /\ Answer(Result("error"))
    /\ UNCHANGED <<fixture, driver, files, sends>>

\* Blob, tree and commit are posted; what follows the ref update is `next'.
Post(report, next, answer) ==
    /\ posted' = PostCommit(PostTree(Last(loaded).tree, "report", report), loaded, clock)
    /\ clock' = clock + 1
    /\ pc' = "patch" /\ then' = next /\ result' = answer
    /\ UNCHANGED <<ref, foreign, switches, cache, loaded, reads, driver, sends, faults>>

Publish(report, next, answer) == Post(report, next, answer) /\ UNCHANGED files

GoOn == /\ pc' = IF then = "done" THEN "done" ELSE "load"
        /\ UNCHANGED <<then, loaded, reads, posted, result>>

Patch ==
    /\ pc = "patch"
    /\ \/ PatchRefused(posted) /\ Answer(Result("error"))
       \/ ~ switches.lost /\ PatchApplied(posted) /\ GoOn
       \/ /\ switches.lost /\ PatchApplied(posted)
          /\ pc' = "reconcile" /\ UNCHANGED <<then, loaded, reads, posted, result>>
    /\ UNCHANGED <<cache, parent>>

\* After a lost acknowledgement the ref is read back.
Reconcile ==
    /\ pc = "reconcile" /\ ~ switches.failed
    /\ IF ref = posted THEN GoOn ELSE Answer(Result("error"))
    /\ UNCHANGED <<fixture, parent>>

Planning == pc = "plan"
Loaded == Last(loaded).tree["report"]
Behind == AheadBy(SubSeq(loaded, 1, Loaded.auth), loaded)
UpToDate == [Loaded EXCEPT !.auth = Len(loaded)]
Planned == Planning /\ InTail /\ Behind <= OriginBatch

\* full-prefix-resume: the stage, or the one made before
StageOnce ==
    /\ Planning /\ Chain[turn] = "resume"
    /\ IF Loaded.staged
       THEN Answer(Result("already-staged")) /\ UNCHANGED <<fixture, parent>>
       ELSE Publish([Loaded EXCEPT !.staged = TRUE], "done", Result("staged"))

\* measurement-reader, mode projection
Project ==
    /\ Planning /\ Chain[turn] = "reader"
    /\ Answer(Result(IF Loaded.staged THEN "projected" ELSE "error"))
    /\ UNCHANGED <<fixture, parent>>

OriginLags ==
    /\ Planning /\ InTail /\ Behind > OriginBatch
    /\ Publish([Loaded EXCEPT !.auth = @ + OriginBatch], "done", Incomplete("origin"))

Maintain ==
    /\ Planned /\ Loaded.batch = "none" /\ ~ Loaded.staged
    /\ Publish([UpToDate EXCEPT !.staged = TRUE], "done", Incomplete("maintenance"))

\* Faulty variant: a prepared batch does not stop the scan.
ScanningAlways == Planned /\ Loaded.staged

Scanning == Planned /\ Loaded.batch = "none" /\ Loaded.staged

ScanPage ==
    /\ Scanning /\ Len(Loaded.scan) < Pages
    /\ Publish([UpToDate EXCEPT !.scan = Append(@, Running.listing)],
               "done", Incomplete("pull-requests"))

Compared == Loaded.scan[Loaded.compared + 1] = Running.listing
Comparing == Scanning /\ Len(Loaded.scan) = Pages
LastPage == Loaded.compared + 1 = Pages

\* Faulty variant: only the comparison starts again.
ComparisonRestarts ==
    /\ Comparing /\ ~ Compared
    /\ Publish([UpToDate EXCEPT !.compared = 0], "done", Incomplete("pull-requests"))

\* The second reading of a page differs: the scan starts again.
MembershipShifts ==
    /\ Comparing /\ ~ Compared
    /\ Publish([UpToDate EXCEPT !.scan = <<>>, !.compared = 0],
               "done", Incomplete("pull-requests"))

ComparePage ==
    /\ Comparing /\ Compared /\ ~ LastPage
    /\ Publish([UpToDate EXCEPT !.compared = @ + 1], "done", Incomplete("pull-requests"))

\* The last invocation reconstructs the facts: more than the call budget
\* without a cache of comparisons, and a conflict if the rows name another
\* head than the retained proofs.
ReconstructionFails ==
    /\ Comparing /\ Compared /\ LastPage
    /\ ~ Running.cached \/ \E p \in 1..Pages : Loaded.scan[p] # "pr head"
    /\ Answer(Result("error"))
    /\ files' = files \cup {"report"}
    /\ UNCHANGED <<fixture, driver, sends, faults>>

Prepare ==
    /\ Comparing /\ Compared /\ LastPage
    /\ Running.cached /\ \A p \in 1..Pages : Loaded.scan[p] = "pr head"
    /\ Post([UpToDate EXCEPT !.batch = "pending"], "plan", NoResult)
    /\ files' = files \cup {"report"}

\* uncertain is durable before the send
Announce ==
    /\ Planned /\ Loaded.batch = "pending"
    /\ Publish([UpToDate EXCEPT !.batch = "uncertain"], "send", NoResult)

\* Lines 181-185 (in quiet, any send is an error)
Send ==
    /\ pc = "send"
    /\ IF ~ Running.sends \/ "receipt" \in files
       THEN Answer(Result("error")) /\ UNCHANGED <<files, sends>>
       ELSE /\ sends' = Append(sends, Last(loaded).at)
            /\ files' = files \cup {"receipt"}
            /\ pc' = "confirm"
            /\ UNCHANGED <<then, loaded, reads, posted, result>>
    /\ UNCHANGED <<fixture, driver, faults>>

\* Faulty variant: no receipt in this directory is taken for no effect.
LookupSure == [receipt |-> "receipt" \in files, authoritative_absence |-> "receipt" \notin files]

\* Line 186: the receipt of an earlier driver is never found here.
Lookup == [receipt |-> "receipt" \in files, authoritative_absence |-> FALSE]

Confirm(answer) ==
    Publish([UpToDate EXCEPT !.batch = "confirmed"], "done", answer)

ConfirmSent == pc = "confirm" /\ Confirm(Result("delivered"))

\* The protocol confirms what it can look up and sends again only what surely
\* had no effect; here a directory with a receipt is never started again.
Recover ==
    /\ Planned /\ Loaded.batch = "uncertain"
    /\ IF Lookup.receipt THEN Confirm(Result("delivered"))
       ELSE IF Lookup.authoritative_absence THEN Publish(UpToDate, "send", NoResult)
       ELSE Answer(Result("error")) /\ UNCHANGED <<fixture, parent>>

NotDue ==
    /\ Planned /\ Loaded.batch = "confirmed"
    /\ Publish(UpToDate, "done", Result("not-due"))

ChildStep ==
    \/ Load \/ Unavailable \/ Patch \/ Reconcile \/ StageOnce \/ Project \/ OriginLags \/ Maintain
    \/ ScanPage \/ MembershipShifts \/ ComparePage \/ ReconstructionFails \/ Prepare
    \/ Announce \/ Send \/ ConfirmSent \/ Recover \/ NotDue

DriverStep == Spawn \/ LoopExhausted \/ Judge \/ Finally

Next == \/ \E t \in DOMAIN Chain : Start(t)
        \/ DriverStep \/ ChildStep \/ ChildFails \/ DriverLost

Spec == Init /\ [][Next]_vars

\* Processes that are not killed go on; the operator owes nothing.
FairSpec == Spec /\ WF_vars(DriverStep) /\ WF_vars(ChildStep)

-----------------------------------------------------------------------------
(***************************************************************************)
(* Properties                                                              *)
(***************************************************************************)
TypeOK ==
    /\ FixtureTypeOK
    /\ turn \in DOMAIN Chain
    /\ phase \in {"idle", "loop", "finally"}
    /\ outcome \in {"none", "passed", "failed"}
    /\ pc \in {"off", "load", "plan", "patch", "reconcile", "send", "confirm", "done"}
    /\ then \in {"plan", "send", "done"} /\ reads \in 0..3
    /\ result.status \in {"none", "error", "incomplete", "staged", "already-staged",
                          "projected", "delivered", "not-due"}
    /\ index \in 0..Bound[Chain[turn]] /\ files \subseteq {"report", "receipt"}
    /\ sends \in Seq(Nat)
    /\ faults \in 0..MaxFaults /\ repeats \in 0..MaxRepeats

\* At most one report is sent along a history of the branch, whoever crashes,
\* loses an acknowledgement or starts over: a driver that finds an uncertain
\* batch does not see the receipt of the driver before it, and yet never sends
\* again (lines 181-186; src/docs/FACTORY-DIGEST.md:25).
OneSendPerHistory ==
    \A i, j \in DOMAIN sends :
       i # j => ~ ({sends[i], sends[j]} \subseteq Times(ref))

\* What a driver that ended in "delivered" leaves behind proves the delivery:
\* a confirmed batch, its one send in the saved history, a listing that agrees
\* with the retained proofs on every page, and the receipt (lines 212-225).
PassedIsBacked ==
    phase = "idle" /\ outcome = "passed" /\ Running.ends = {"delivered"} =>
       LET r == Last(saved).tree["report"]
       IN  /\ r.batch = "confirmed"
           /\ \E i \in DOMAIN sends : sends[i] \in Times(saved)
           /\ \A p \in 1..Pages : r.scan[p] = "pr head"
           /\ "receipt" \in kept

\* The batch goes forward only, and what it reports is fixed when it is
\* prepared: an error, a repeated driver, another listing or a quiet call at
\* the same cutoff changes nothing of it but the authenticated origin.
Rank == [none |-> 0, pending |-> 1, uncertain |-> 2, confirmed |-> 3]
Forward(old, new) ==
    /\ Rank[old.batch] <= Rank[new.batch]
    /\ old.auth <= new.auth
    /\ old.batch # "none" => new = [old EXCEPT !.batch = new.batch, !.auth = new.auth]
BatchGoesForward ==
    \A i, j \in DOMAIN ref :
       i < j => Forward(ref[i].tree["report"], ref[j].tree["report"])

\* The corrected driver reaches the delivery within its loop, whatever is left
\* of the drivers before it, unless something fails or a batch is under way.
CorrectedStarts ==
    /\ phase = "loop" /\ Chain[turn] = "corrected" /\ index = 0
    /\ faults = 0 /\ Last(before).tree["report"].batch = "none"
CorrectedDelivers ==
    CorrectedStarts ~> faults > 0 \/ (Chain[turn] = "corrected" /\ outcome = "passed")

-----------------------------------------------------------------------------
(***************************************************************************)
(* The inductive invariant.                                                *)
(***************************************************************************)
Tree == [envelope : {Envelope}, race : {NoFile, RaceFile}, report : Report]
Sent == {sends[k] : k \in DOMAIN sends}

\* A batch exists only after its stage and over a listing that agrees with the
\* retained proofs.
Prepared(r) ==
    r.batch # "none" => r.staged /\ \A p \in 1..Pages : r.scan[p] = "pr head"

\* Commit i of h makes a pending batch uncertain.
Announced(h, i) ==
    /\ i > 1
    /\ h[i].tree["report"].batch = "uncertain"
    /\ h[i - 1].tree["report"].batch = "pending"

\* A history as of time `now', with the commits of others and the sends so far
Sound(h, now, others, sent) ==
    /\ h \in Seq([tree : Tree, at : Nat]) /\ h # <<>>
    /\ \A i \in DOMAIN h :
          /\ h[i].at < now
          /\ h[i].tree["report"].auth < i
          /\ Prepared(h[i].tree["report"])
          /\ h[i].at \in others => h[i].tree["race"] = RaceFile
          /\ h[i].at \in sent => Announced(h, i)
    /\ \A i, j \in DOMAIN h : i < j =>
          /\ h[i].at < h[j].at
          /\ Forward(h[i].tree["report"], h[j].tree["report"])
          /\ h[i].tree["race"] = RaceFile => h[j].tree["race"] = RaceFile

\* What the branch is, or becomes if the update under way is applied
Tip == IF pc = "patch" THEN posted ELSE ref
Batch(h) == Last(h).tree["report"].batch
Delivered(h) == Batch(h) = "confirmed" /\ Sent \cap Times(h) # {}

HistoriesAreSound ==
    /\ Sound(ref, clock, foreign, Sent)
    /\ Sound(saved, clock, foreign, Sent)
    /\ Sound(Tip, clock, foreign, Sent)

NothingIsLost ==
    /\ \A t \in foreign \cup Sent : t < clock
    /\ foreign \subseteq Times(ref)
    /\ phase = "idle" => foreign \subseteq Times(saved)
    /\ \A i, j \in DOMAIN sends : i # j => sends[i] # sends[j]

ProcessIsCurrent ==
    /\ pc # "off" => phase = "loop" /\ index < Bound[Chain[turn]]
    /\ pc # "load" => reads = 0
    /\ pc \in {"plan", "send", "confirm"} \/ (pc = "load" /\ reads > 0) => loaded = ref
    /\ pc = "reconcile" => ref = posted
    /\ pc = "off" => then = "done"
    /\ pc = "load" => then # "done"
    /\ pc = "plan" => then = "plan"
    /\ pc \in {"send", "confirm"} => then = "send"

ReaderWritesNothing ==
    Chain[turn] = "reader" =>
       /\ ref = saved
       /\ pc \in {"off", "load", "plan", "done"} /\ then # "send"

AnnouncementIsFresh ==
    then = "send" /\ pc \in {"load", "patch", "reconcile", "send"} =>
       /\ Announced(Tip, Len(Tip))
       /\ Last(Tip).at \notin Sent \cup Times(saved)

ReceiptIsOfASend ==
    /\ pc = "confirm" => /\ "receipt" \in files
                         /\ Batch(ref) = "uncertain" /\ Last(ref).at \in Sent
    /\ phase = "loop" /\ "receipt" \in files =>
          \/ pc = "confirm"
          \/ pc \in {"patch", "reconcile"} /\ then = "done" /\ result.status = "delivered"
          \/ pc = "done" /\ result.status \in {"delivered", "error"}
    /\ pc \in {"patch", "reconcile", "done"} /\ result.status = "delivered" =>
          "receipt" \in files /\ Delivered(Tip)

\* Without a cache of comparisons no batch is prepared.
EarlyDriversPrepareNothing ==
    turn <= 4 => Batch(Tip) = "none" /\ Batch(saved) = "none" /\ Batch(ref) = "none"

PassedIsDelivered ==
    phase # "loop" /\ outcome = "passed" /\ Running.ends = {"delivered"} =>
       /\ "receipt" \in (IF phase = "idle" THEN kept ELSE files)
       /\ Delivered(IF phase = "idle" THEN saved ELSE ref)

\* What keeps OthersSurvive, OneSendPerHistory, BatchGoesForward and
\* PassedIsBacked true: every history at hand is sound, a process plans on the
\* branch as it is, the commit it sends on is its own and was never saved, and
\* a receipt outlives the process only with a delivery or an error.
HistoryInvariant ==
    /\ TypeOK
    /\ HistoriesAreSound
    /\ NothingIsLost
    /\ ProcessIsCurrent
    /\ ReaderWritesNothing
    /\ AnnouncementIsFresh
    /\ ReceiptIsOfASend
    /\ EarlyDriversPrepareNothing
    /\ PassedIsDelivered

\* What a process caches: the commits of the branch it has met, and trees and
\* reports, each as large as its kind says.
CacheEntry ==
    [target : ({"commits"} \X Nat) \cup ({"trees"} \X Tree) \cup ({"blobs"} \X Report),
     raw : Tree \cup Report, size : Nat]

EntryIsFresh(entry) ==
    /\ entry.raw = Backend(entry.target)
    /\ entry.size = Bytes[entry.target[1]]
    /\ entry.target[1] = "commits" => entry.target[2] \in Times(ref)

\* What keeps CacheIsExact true: a cache lives as long as its process, during
\* which the branch only grows, so a commit that was in it once still is.
CacheIsFresh ==
    /\ cache \in [entries : Seq(CacheEntry), bytes : Nat]
    /\ CacheIsExact
    /\ \A i \in DOMAIN cache.entries : EntryIsFresh(cache.entries[i])
    /\ pc = "off" => cache = EmptyCache

DriversInvariant == HistoryInvariant /\ CacheIsFresh
=============================================================================
