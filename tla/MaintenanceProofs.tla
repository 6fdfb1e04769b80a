-------------------------- MODULE MaintenanceProofs -------------------------
(***************************************************************************)
(* For every number of overlapping invocations, cutoffs, records and       *)
(* changes: the interval never rewinds, the lineage of the journal is the  *)
(* one that the next invocation demands, a ready campaign is staged, a     *)
(* review that is over has visited every row, and the journal implements   *)
(* ReportingCycle.                                                         *)
(* The argument is MaintenanceInvariant of Maintenance.                    *)
(***************************************************************************)
EXTENDS Maintenance, TLAPS

Calls == [step : Steps, journal : Journals \cup {NoJournal}, cutoff : 0..MaxEnd]

\* Replacing one field of a journal.
LEMMA JournalTypes ==
    ASSUME NEW j \in Journals
    PROVE  /\ \A e \in 0..MaxEnd : [j EXCEPT !.previous = e] \in Journals
           /\ \A p \in Phases : [j EXCEPT !.phase = p] \in Journals
           /\ \A e \in Ends : [j EXCEPT !.end = e] \in Journals
           /\ \A n \in Records : /\ [j EXCEPT !.offset = n] \in Journals
                                 /\ [j EXCEPT !.remaining = n] \in Journals
                                 /\ [j EXCEPT !.cursor = n] \in Journals
                                 /\ [j EXCEPT !.count = n] \in Journals
           /\ \A b \in BOOLEAN : [j EXCEPT !.observed = b] \in Journals
           /\ \A c \in Campaigns \cup {NoCampaign} : [j EXCEPT !.campaign = c] \in Journals
           /\ \A p \in Revisions : /\ [j EXCEPT !.policy = p] \in Journals
                                   /\ [j EXCEPT !.trust = p] \in Journals
  BY DEF Journals

\* What a restart does to a journal.
LEMMA RestartType ==
    ASSUME NEW j \in Journals
    PROVE  /\ Restart(j) \in Journals
           /\ Restart(j).end = j.end /\ Restart(j).phase = "backfill" /\ Restart(j).cursor = 0
           /\ Restart(j).previous = j.previous
  <1> DEFINE j1 == [j EXCEPT !.phase = "backfill"]
             j2 == [j1 EXCEPT !.remaining = 0]
             j3 == [j2 EXCEPT !.observed = FALSE]
             j4 == [j3 EXCEPT !.cursor = 0]
             j5 == [j4 EXCEPT !.campaign = NoCampaign]
             j6 == [j5 EXCEPT !.offset = 0]
  <1>0. 0 \in Records /\ "backfill" \in Phases
    BY MaintenanceAssumption DEF Records, Phases
  <1>1. j1 \in Journals /\ j1.end = j.end /\ j1.phase = "backfill" /\ j1.previous = j.previous
    BY <1>0, JournalTypes DEF Journals
  <1>2. j2 \in Journals /\ j2.end = j.end /\ j2.phase = "backfill" /\ j2.previous = j.previous
    <2> HIDE DEF j1
    <2> QED BY <1>0, <1>1, JournalTypes DEF Journals
  <1>3. j3 \in Journals /\ j3.end = j.end /\ j3.phase = "backfill" /\ j3.previous = j.previous
    <2> HIDE DEF j2
    <2> QED BY <1>0, <1>2, JournalTypes DEF Journals
  <1>4. j4 \in Journals /\ j4.end = j.end /\ j4.phase = "backfill" /\ j4.previous = j.previous /\ j4.cursor = 0
    <2> HIDE DEF j3
    <2> QED BY <1>0, <1>3, JournalTypes DEF Journals
  <1>5. j5 \in Journals /\ j5.end = j.end /\ j5.phase = "backfill" /\ j5.previous = j.previous /\ j5.cursor = 0
    <2> HIDE DEF j4
    <2> QED BY <1>0, <1>4, JournalTypes DEF Journals
  <1>6. j6 \in Journals /\ j6.end = j.end /\ j6.phase = "backfill" /\ j6.previous = j.previous /\ j6.cursor = 0
    <2> HIDE DEF j5
    <2> QED BY <1>0, <1>5, JournalTypes DEF Journals
  <1>7. Restart(j) = j6
    BY Zenon DEF Restart
  <1> QED
    BY <1>6, <1>7

\* Where a cursor goes stays within the watch.
LEMMA CursorBounds ==
    ASSUME TypeOK, NEW c \in Records, c <= watch.count
    PROVE  /\ Visited(c) \in Nat /\ c + Visited(c) <= watch.count
           /\ Advanced(c) \in Records /\ Advanced(c) <= watch.count
  BY MaintenanceAssumption DEF TypeOK, Records, Visited, Advanced

\* A watch that has been entered into review.
LEMMA ReviewTypes ==
    ASSUME TypeOK, NEW j \in Journals
    PROVE  /\ EnterReview(j) \in Journals
           /\ EnterReview(j).end = j.end /\ EnterReview(j).phase = "review"
           /\ EnterReview(j).cursor = 0
           /\ \A n \in Records : LET o == [j EXCEPT !.remaining = n, !.observed = TRUE,
                                                    !.cursor = watch.cursor]
                                 IN  /\ o \in Journals /\ o.end = j.end
                                     /\ o.phase = j.phase /\ o.cursor = watch.cursor
  <1>0. /\ 0 \in Records /\ "review" \in Phases
        /\ watch.count \in Records /\ watch.cursor \in Records
    BY MaintenanceAssumption DEF Records, Phases, TypeOK
  <1>1. /\ EnterReview(j) \in Journals
        /\ EnterReview(j).end = j.end /\ EnterReview(j).phase = "review"
        /\ EnterReview(j).cursor = 0
    <2> DEFINE j1 == [j EXCEPT !.phase = "review"]
               j2 == [j1 EXCEPT !.remaining = watch.count]
               j3 == [j2 EXCEPT !.count = watch.count]
               j4 == [j3 EXCEPT !.observed = FALSE]
               j5 == [j4 EXCEPT !.cursor = 0]
    <2>1. j1 \in Journals /\ j1.end = j.end /\ j1.phase = "review"
      BY <1>0, JournalTypes DEF Journals
    <2>2. j2 \in Journals /\ j2.end = j.end /\ j2.phase = "review"
      <3> HIDE DEF j1
      <3> QED BY <1>0, <2>1, JournalTypes DEF Journals
    <2>3. j3 \in Journals /\ j3.end = j.end /\ j3.phase = "review"
      <3> HIDE DEF j2
      <3> QED BY <1>0, <2>2, JournalTypes DEF Journals
    <2>4. j4 \in Journals /\ j4.end = j.end /\ j4.phase = "review"
      <3> HIDE DEF j3
      <3> QED BY <1>0, <2>3, JournalTypes DEF Journals
    <2>5. j5 \in Journals /\ j5.end = j.end /\ j5.phase = "review" /\ j5.cursor = 0
      <3> HIDE DEF j4
      <3> QED BY <1>0, <2>4, JournalTypes DEF Journals
    <2>6. EnterReview(j) = j5
      BY Zenon DEF EnterReview
    <2> QED
      BY <2>5, <2>6
  <1>2. ASSUME NEW n \in Records
        PROVE  LET o == [j EXCEPT !.remaining = n, !.observed = TRUE, !.cursor = watch.cursor]
               IN  /\ o \in Journals /\ o.end = j.end
                   /\ o.phase = j.phase /\ o.cursor = watch.cursor
    <2> DEFINE j1 == [j EXCEPT !.remaining = n]
               j2 == [j1 EXCEPT !.observed = TRUE]
               j3 == [j2 EXCEPT !.cursor = watch.cursor]
    <2>1. j1 \in Journals /\ j1.end = j.end /\ j1.phase = j.phase
      BY <1>2, JournalTypes DEF Journals
    <2>2. j2 \in Journals /\ j2.end = j.end /\ j2.phase = j.phase
      <3> HIDE DEF j1
      <3> QED BY <2>1, JournalTypes DEF Journals
    <2>3. j3 \in Journals /\ j3.end = j.end /\ j3.phase = j.phase /\ j3.cursor = watch.cursor
      <3> HIDE DEF j2
      <3> QED BY <1>0, <2>2, JournalTypes DEF Journals
    <2>4. [j EXCEPT !.remaining = n, !.observed = TRUE, !.cursor = watch.cursor] = j3
      BY Zenon
    <2> QED
      BY <2>3, <2>4, Zenon
  <1> QED
    BY <1>1, <1>2

\* A journal outside the last two phases credits nothing.
LEMMA CreditsNothing ==
    ASSUME NEW j, j.phase \notin {"stage", "ready"}
    PROVE  Credited(j)
  BY DEF Credited

\* Taking a step: what has been loaded is still the head.
LEMMA PlanStep ==
    ASSUME JournalInvariant, NEW r \in Runners, NEW step \in Steps,
           NEW j \in Journals \cup {NoJournal}, NEW cutoff \in 0..MaxEnd,
           Plan(r, step, j, cutoff),
           step \notin {"none", "reconcile"} => j \in Journals,
           step = "stage" => j.phase = "stage" /\ j.offset < j.campaign.records,
           step = "coverage" => j.phase = "ready" /\ cutoff >= j.end,
           Credited(j), j.cursor <= watch.count,
           step = "persist" => j.previous = journal.end /\ j.end >= journal.end,
           step \in {"stage", "coverage"} => j.end = journal.end
    PROVE  JournalInvariant'
  <1> DEFINE c == [step |-> step, journal |-> j, cutoff |-> cutoff]
  <1>1. /\ c \in Calls
        /\ calls' = [calls EXCEPT ![r] = c] /\ fresh' = fresh \cup {r}
        /\ UNCHANGED <<journal, before, state, world, reviewed, swapped>>
    BY DEF Plan, Calls
  <1>2. calls \in [Runners -> Calls]
    BY DEF JournalInvariant, TypeOK, Calls
  <1>3. calls' \in [Runners -> Calls] /\ calls'[r] = c /\ \A q \in Runners \ {r} : calls'[q] = calls[q]
    BY <1>1, <1>2
  <1>4. TypeOK'
    BY <1>1, <1>3 DEF JournalInvariant, TypeOK, Calls, state, world
  <1>6. CallFits(r)'
    BY <1>1, <1>3 DEF CallFits, Credited, AllStaged, state
  <1>7. ASSUME NEW q \in Runners \ {r}
        PROVE  CallFits(q)'
    BY <1>1, <1>3, <1>7 DEF JournalInvariant, CallFits, Credited, AllStaged, state
  <1> QED
    BY <1>1, <1>4, <1>6, <1>7
       DEF JournalInvariant, LineageHolds, Credited, AllStaged, state, world

\* The end of an invocation that changes neither the journal nor what it credits.
LEMMA EndStep ==
    ASSUME JournalInvariant, TypeOK', NEW r \in Runners,
           calls' = [calls EXCEPT ![r] = NoCall],
           UNCHANGED <<journal, before, swapped>>,
           fresh' = {} \/ (fresh' = fresh /\ UNCHANGED watch),
           staged \subseteq staged',
           watch'.cursor <= watch'.count, watch.count <= watch'.count, watch'.count <= visible',
           policy' <= changes' + 1
    PROVE  JournalInvariant'
  <1>1. /\ calls'[r] = NoCall
        /\ \A q \in Runners \ {r} : calls'[q] = calls[q]
    BY DEF JournalInvariant, TypeOK
  <1>2. /\ watch.count \in Nat /\ watch'.count \in Nat /\ journal.cursor \in Nat
        /\ \A q \in Runners : calls[q].journal.cursor \in Nat
    BY MaintenanceAssumption
       DEF JournalInvariant, TypeOK, Records, Journals, NoJournal
  <1>3. journal'.cursor <= watch'.count
    BY <1>2 DEF JournalInvariant
  <1>4. Credited(journal)'
    BY DEF JournalInvariant, Credited, AllStaged
  <1>5. CallFits(r)'
    BY <1>1, <1>2 DEF CallFits, NoCall, NoJournal, Credited
  <1>6. ASSUME NEW q \in Runners \ {r}
        PROVE  CallFits(q)'
    <2>1. CallFits(q) /\ calls'[q] = calls[q]
      BY <1>1, <1>6 DEF JournalInvariant
    <2>2. calls[q].journal.cursor <= watch'.count
      BY <1>2, <2>1 DEF CallFits
    <2>3. Credited(calls[q].journal)'
      BY <2>1 DEF CallFits, Credited, AllStaged
    <2> QED
      BY <2>1, <2>2, <2>3 DEF CallFits
  <1> QED
    BY <1>3, <1>4, <1>5, <1>6 DEF JournalInvariant, LineageHolds

\* Storing a journal, or being refused.
LEMMA StoreStep ==
    ASSUME JournalInvariant, NEW r \in Runners, NEW j \in Journals,
           calls' = [calls EXCEPT ![r] = NoCall],
           Store(r, j),
           r \in fresh => j.previous = journal.end,
           j.cursor <= watch.count,
           UNCHANGED <<scanned, projected, staged, world>>,
           swapped' \in BOOLEAN, swapped => swapped',
           j.phase \in {"stage", "ready"} => j.campaign \in Campaigns,
           j.phase = "stage" => j.offset <= j.campaign.records,
           swapped' \/ /\ j.phase = "stage" =>
                             \A n \in 1..j.offset : [campaign |-> j.campaign, fact |-> n] \in staged
                       /\ j.phase = "ready" => AllStaged(j.campaign)
    PROVE  JournalInvariant'
  <1>1. /\ calls'[r] = NoCall /\ calls' \in [Runners -> Calls]
        /\ \A q \in Runners \ {r} : calls'[q] = calls[q]
    <2>1. NoCall \in Calls
      BY MaintenanceAssumption DEF NoCall, Calls, Steps
    <2> QED
      BY <2>1 DEF JournalInvariant, TypeOK, Calls
  <1>2. /\ watch' \in [count : Records, cursor : Records, changed : BOOLEAN]
        /\ watch'.count = watch.count /\ watch'.cursor = watch.cursor
        /\ reviewed' \subseteq Records /\ fresh' \subseteq Runners
    BY DEF Store, StoreAnyway, JournalInvariant, TypeOK, Journals
  <1>3. /\ journal' \in {journal, j} /\ journal'.previous = before'
        /\ before' \in 0..MaxEnd
        /\ fresh' = {} \/ UNCHANGED <<journal, fresh>>
    <2>1. CASE r \in fresh
      <3>1. journal' = j /\ before' = journal.end /\ fresh' = {}
        BY <2>1 DEF Store, StoreAnyway
      <3>2. journal.end \in 0..MaxEnd
        BY MaintenanceAssumption DEF JournalInvariant, TypeOK, Journals, NoJournal, Ends
      <3> QED
        BY <2>1, <3>1, <3>2
    <2>2. CASE r \notin fresh
      BY <2>2 DEF Store, JournalInvariant, LineageHolds, TypeOK
    <2> QED
      BY <2>1, <2>2
  <1>4. TypeOK'
    BY <1>1, <1>2, <1>3 DEF JournalInvariant, TypeOK, Calls, world
  <1>5. Credited(journal)' /\ journal'.cursor <= watch'.count
    BY <1>2, <1>3 DEF JournalInvariant, Credited, AllStaged
  <1>6. CallFits(r)'
    BY <1>1, <1>2 DEF CallFits, NoCall, NoJournal, Credited, JournalInvariant, TypeOK, Records
  <1>7. ASSUME NEW q \in Runners \ {r}
        PROVE  CallFits(q)'
    BY <1>1, <1>2, <1>3, <1>7 DEF JournalInvariant, CallFits, Credited, AllStaged
  <1> QED
    BY <1>2, <1>3, <1>4, <1>5, <1>6, <1>7 DEF JournalInvariant, LineageHolds, world

\* Taking the step that stores a journal.
LEMMA PlanJournalStep ==
    ASSUME JournalInvariant, NEW r \in Runners, NEW j \in Journals, PlanJournal(r, j),
           j.end >= journal.end, j.cursor <= watch.count, Credited(j)
    PROVE  JournalInvariant'
  <1> DEFINE k == [j EXCEPT !.previous = journal.end]
  <1>1. journal.end \in 0..MaxEnd
    BY MaintenanceAssumption DEF JournalInvariant, TypeOK, Journals, NoJournal, Ends
  <1>2. /\ k \in Journals /\ k.previous = journal.end
        /\ k.end = j.end /\ k.cursor = j.cursor /\ k.phase = j.phase
        /\ k.campaign = j.campaign /\ k.offset = j.offset
    BY <1>1, JournalTypes DEF Journals
  <1>3. Plan(r, "persist", k, 0)
    BY DEF PlanJournal
  <1>4. Credited(k)
    BY <1>2 DEF Credited
  <1>5. "persist" \in Steps /\ 0 \in 0..MaxEnd
    BY MaintenanceAssumption DEF Steps
  <1> HIDE DEF k
  <1> QED
    BY <1>2, <1>3, <1>4, <1>5, PlanStep

\* A journal under other revisions.
LEMMA RevisedType ==
    ASSUME NEW j \in Journals, NEW p \in Revisions, NEW t \in Revisions
    PROVE  LET k == [j EXCEPT !.policy = p, !.trust = t]
           IN  k \in Journals /\ k.end = j.end /\ k.cursor = j.cursor /\ k.phase = j.phase
  <1> DEFINE k1 == [j EXCEPT !.policy = p]
             k2 == [k1 EXCEPT !.trust = t]
  <1>1. k1 \in Journals /\ k1.end = j.end /\ k1.cursor = j.cursor /\ k1.phase = j.phase
    BY JournalTypes DEF Journals
  <1>2. k2 \in Journals /\ k2.end = j.end /\ k2.cursor = j.cursor /\ k2.phase = j.phase
    <2> HIDE DEF k1
    <2> QED BY <1>1, JournalTypes DEF Journals
  <1>3. [j EXCEPT !.policy = p, !.trust = t] = k2
    BY Zenon
  <1> QED
    BY <1>2, <1>3, Zenon

\* What is left to review is a number of rows.
LEMMA RemainingType ==
    ASSUME TypeOK, NEW j \in Journals, j.cursor <= watch.count
    PROVE  Remaining(j) \in Records
  <1>1. Visited(j.cursor) \in Nat
    BY CursorBounds DEF Journals
  <1> QED
    BY <1>1, MaintenanceAssumption DEF Remaining, Journals, Records, TypeOK

LEMMA LoadStep ==
    ASSUME JournalInvariant, NEW r \in Runners, NEW cutoff \in Ends, Load(r, cutoff)
    PROVE  JournalInvariant'
  <1>0. /\ TypeOK /\ journal.cursor <= watch.count /\ Credited(journal)
        /\ watch.cursor <= watch.count /\ watch.count \in Nat
    BY MaintenanceAssumption DEF JournalInvariant, TypeOK, Records
  <1>1. cutoff \in Nat /\ cutoff \in 0..MaxEnd /\ 0 \in 0..MaxEnd /\ cutoff >= journal.end
    BY MaintenanceAssumption
       DEF Ends, Load, StartsJournal, MeetsRevision, InBackfill, ReviewStartsOver, InReview,
           InCheckpoint, InStage, InReady, InPhase, Loads
  <1>2. CASE StartsJournal(r, cutoff)
    <2>1. Initial(cutoff) \in Journals
      BY <1>0, MaintenanceAssumption
         DEF Initial, Journals, TypeOK, Phases, Records, Revisions
    <2>2. /\ Initial(cutoff).end = cutoff /\ Initial(cutoff).cursor = 0
          /\ Credited(Initial(cutoff))
      BY CreditsNothing DEF Initial
    <2> QED
      BY <1>0, <1>1, <1>2, <2>1, <2>2, PlanJournalStep DEF StartsJournal
  <1>3. ASSUME journal # NoJournal
        PROVE  journal \in Journals /\ journal.end \in Nat
    BY <1>0, <1>3 DEF TypeOK, Journals, Ends
  <1>4. CASE MeetsRevision(r, cutoff)
    <2> DEFINE k == [Restart(journal) EXCEPT !.policy = policy, !.trust = trust]
    <2>1. /\ journal \in Journals /\ journal.end \in Nat /\ Restart(journal) \in Journals
          /\ Restart(journal).end = journal.end /\ Restart(journal).cursor = 0
          /\ Restart(journal).phase = "backfill"
      BY <1>3, <1>4, RestartType DEF MeetsRevision
    <2>2. policy \in Revisions /\ trust \in Revisions
      BY <1>0 DEF TypeOK
    <2>3. /\ k \in Journals /\ k.end = journal.end /\ k.cursor = 0 /\ k.phase = "backfill"
      BY <2>1, <2>2, RevisedType
    <2>4. PlanJournal(r, k)
      BY <1>4 DEF MeetsRevision
    <2> HIDE DEF k
    <2>5. Credited(k)
      BY <2>3, CreditsNothing
    <2> QED
      BY <1>0, <2>1, <2>3, <2>4, <2>5, PlanJournalStep
  <1>5. ASSUME NEW phase \in Phases, InPhase(r, cutoff, phase)
        PROVE  journal \in Journals /\ journal.end \in Nat /\ journal.phase = phase
    BY <1>3, <1>5 DEF InPhase, Phases, NoJournal
  <1>6. ASSUME NEW phase \in Phases, InPhase(r, cutoff, phase),
               PlanJournal(r, EnterReview(journal))
        PROVE  JournalInvariant'
    <2>1. /\ EnterReview(journal) \in Journals /\ EnterReview(journal).end = journal.end
          /\ EnterReview(journal).cursor = 0 /\ EnterReview(journal).phase = "review"
      BY <1>0, <1>5, <1>6, ReviewTypes
    <2>2. Credited(EnterReview(journal))
      BY <2>1, CreditsNothing
    <2> QED
      BY <1>0, <1>5, <1>6, <2>1, <2>2, PlanJournalStep
  <1>7. CASE InBackfill(r, cutoff)
    <2>1. InPhase(r, cutoff, "backfill") /\ "backfill" \in Phases /\ "backfill" \in Steps
      BY <1>7 DEF InBackfill, Phases, Steps
    <2>2. CASE Plan(r, "backfill", journal, 0)
      BY <1>0, <1>1, <1>5, <2>1, <2>2, PlanStep
    <2> QED
      BY <1>6, <1>7, <2>1, <2>2 DEF InBackfill
  <1>8. CASE ReviewStartsOver(r, cutoff)
    BY <1>6, <1>8 DEF ReviewStartsOver, Phases
  <1>9. CASE InReview(r, cutoff)
    <2>1. InPhase(r, cutoff, "review") /\ "review" \in Phases
      BY <1>9 DEF InReview, Phases
    <2>2. journal \in Journals /\ journal.end \in Nat /\ journal.phase = "review"
      BY <1>5, <2>1
    <2>3. CASE PlanJournal(r, [Restart(journal) EXCEPT !.phase = "checkpoint"])
      <3> DEFINE j == [Restart(journal) EXCEPT !.phase = "checkpoint"]
      <3>1. j \in Journals /\ j.end = journal.end /\ j.cursor = 0 /\ j.phase = "checkpoint"
        BY <2>2, RestartType, JournalTypes DEF Phases, Journals
      <3>2. PlanJournal(r, j)
        BY <2>3
      <3> HIDE DEF j
      <3>3. Credited(j)
        BY <3>1, CreditsNothing
      <3> QED
        BY <1>0, <2>2, <3>1, <3>2, <3>3, PlanJournalStep
    <2>4. CASE PlanJournal(r, [journal EXCEPT !.remaining = Remaining(journal),
                                              !.observed = TRUE, !.cursor = watch.cursor])
      <3> DEFINE j == [journal EXCEPT !.remaining = Remaining(journal), !.observed = TRUE,
                                      !.cursor = watch.cursor]
      <3>1. j \in Journals /\ j.end = journal.end /\ j.cursor = watch.cursor /\ j.phase = "review"
        BY <1>0, <2>2, ReviewTypes, RemainingType
      <3>2. Credited(j)
        BY <3>1, CreditsNothing
      <3>3. PlanJournal(r, j)
        BY <2>4
      <3> HIDE DEF j
      <3> QED
        BY <1>0, <2>2, <3>1, <3>2, <3>3, PlanJournalStep
    <2>5. CASE Plan(r, "reconcile", NoJournal, 0)
      <3>1. "reconcile" \in Steps /\ Credited(NoJournal) /\ NoJournal.cursor = 0
        BY CreditsNothing DEF Steps, NoJournal
      <3> QED
        BY <1>0, <1>1, <2>5, <3>1, PlanStep
    <2> QED
      BY <1>9, <2>3, <2>4, <2>5 DEF InReview
  <1>10. CASE InCheckpoint(r, cutoff)
    <2>1. InPhase(r, cutoff, "checkpoint") /\ "checkpoint" \in Phases /\ "project" \in Steps
      BY <1>10 DEF InCheckpoint, Phases, Steps
    <2>2. journal \in Journals /\ journal.end \in Nat /\ journal.phase = "checkpoint"
      BY <1>5, <2>1
    <2>3. CASE Plan(r, "project", journal, 0)
      BY <1>0, <1>1, <2>1, <2>2, <2>3, PlanStep
    <2>4. CASE PlanJournal(r, [journal EXCEPT !.phase = "stage", !.campaign = Campaign,
                                              !.offset = 0])
      <3> DEFINE j1 == [journal EXCEPT !.phase = "stage"]
                 j2 == [j1 EXCEPT !.campaign = Campaign]
                 j3 == [j2 EXCEPT !.offset = 0]
      <3>0. Campaign \in Campaigns /\ 0 \in Records /\ "stage" \in Phases
        BY <1>0, <2>2, MaintenanceAssumption
           DEF Campaign, Campaigns, TypeOK, Journals, Records, Phases
      <3>1. /\ j1 \in Journals /\ j1.end = journal.end /\ j1.cursor = journal.cursor
            /\ j1.phase = "stage"
        BY <2>2, <3>0, JournalTypes DEF Journals
      <3>2. /\ j2 \in Journals /\ j2.end = journal.end /\ j2.cursor = journal.cursor
            /\ j2.phase = "stage" /\ j2.campaign = Campaign
        <4> HIDE DEF j1
        <4> QED BY <3>0, <3>1, JournalTypes DEF Journals
      <3>3. /\ j3 \in Journals /\ j3.end = journal.end /\ j3.cursor = journal.cursor
            /\ j3.phase = "stage" /\ j3.campaign = Campaign /\ j3.offset = 0
        <4> HIDE DEF j2
        <4> QED BY <3>0, <3>2, JournalTypes DEF Journals
      <3>4. PlanJournal(r, j3)
        BY <2>4, Zenon
      <3> HIDE DEF j3
      <3>5. Credited(j3)
        BY <3>0, <3>3 DEF Credited, Campaigns, Records
      <3> QED
        BY <1>0, <2>2, <3>3, <3>4, <3>5, PlanJournalStep
    <2> QED
      BY <1>10, <2>3, <2>4 DEF InCheckpoint
  <1>11. CASE InStage(r, cutoff)
    <2>1. InPhase(r, cutoff, "stage") /\ "stage" \in Phases /\ "ready" \in Phases /\ "stage" \in Steps
      BY <1>11 DEF InStage, Phases, Steps
    <2>2. journal \in Journals /\ journal.end \in Nat /\ journal.phase = "stage"
      BY <1>5, <2>1
    <2>3. journal.campaign \in Campaigns /\ journal.campaign.records \in Nat /\ journal.offset \in Nat
      BY <1>0, <2>2, MaintenanceAssumption DEF Credited, Campaigns, Journals, Records
    <2>4. CASE journal.offset >= journal.campaign.records
      <3> DEFINE j == [journal EXCEPT !.phase = "ready"]
      <3>1. /\ j \in Journals /\ j.end = journal.end /\ j.cursor = journal.cursor
            /\ j.phase = "ready" /\ j.campaign = journal.campaign
        BY <2>1, <2>2, JournalTypes DEF Journals
      <3>2. PlanJournal(r, j)
        BY <1>11, <2>4 DEF InStage
      <3> HIDE DEF j
      <3>3. Credited(j)
        BY <1>0, <2>2, <2>3, <2>4, <3>1 DEF Credited, AllStaged
      <3> QED
        BY <1>0, <2>2, <3>1, <3>2, <3>3, PlanJournalStep
    <2>5. CASE ~ (journal.offset >= journal.campaign.records)
      <3>1. Plan(r, "stage", journal, 0) /\ journal.offset < journal.campaign.records
        BY <1>11, <2>3, <2>5 DEF InStage
      <3> QED
        BY <1>0, <1>1, <2>1, <2>2, <3>1, PlanStep
    <2> QED
      BY <2>4, <2>5
  <1>12. CASE InReady(r, cutoff)
    <2>1. InPhase(r, cutoff, "ready") /\ "ready" \in Phases /\ "coverage" \in Steps
      BY <1>12 DEF InReady, Phases, Steps
    <2>2. journal \in Journals /\ journal.phase = "ready"
      BY <1>5, <2>1
    <2> QED
      BY <1>0, <1>1, <1>12, <2>1, <2>2, PlanStep DEF InReady
  <1> QED
    BY <1>2, <1>4, <1>7, <1>8, <1>9, <1>10, <1>11, <1>12 DEF Load

\* What the steps of the helpers leave of the type.
LEMMA ActStep ==
    ASSUME JournalInvariant, NEW r \in Runners, Act(r)
    PROVE  JournalInvariant'
  <1>j. PICK j : j = calls[r].journal
    OBVIOUS
  <1>0. /\ TypeOK /\ CallFits(r) /\ watch.cursor <= watch.count /\ watch.count <= visible
        /\ watch.count \in Nat /\ visible \in Nat /\ watch.cursor \in Records
        /\ swapped \in BOOLEAN /\ policy <= changes + 1
    BY MaintenanceAssumption DEF JournalInvariant, TypeOK, Records
  <1>1. NoCall \in Calls /\ calls \in [Runners -> Calls]
    BY <1>0, MaintenanceAssumption DEF NoCall, Calls, Steps, TypeOK
  <1>c. calls' = [calls EXCEPT ![r] = NoCall] => calls' \in [Runners -> Calls]
    BY <1>1
  <1>2. CASE Persists(r)
    <2>1. /\ calls[r].step = "persist" /\ calls' = [calls EXCEPT ![r] = NoCall] /\ Store(r, j)
          /\ UNCHANGED <<scanned, projected, staged, world, swapped>>
      BY <1>j, <1>2 DEF Persists, Step
    <2>2. /\ j \in Journals /\ Credited(j) /\ j.cursor <= watch.count
          /\ r \in fresh => j.previous = journal.end
      BY <1>j, <1>0, <2>1 DEF CallFits
    <2> QED
      BY <1>0, <2>1, <2>2, StoreStep DEF Credited
  <1>3. CASE Backfills(r)
    <2>1. /\ calls' = [calls EXCEPT ![r] = NoCall] /\ j \in Journals /\ fresh' = {}
          /\ watch' = [watch EXCEPT !.count = visible, !.changed = TRUE]
          /\ scanned' = scanned \cup {j.end}
          /\ UNCHANGED <<journal, before, projected, staged, world, reviewed, swapped>>
      BY <1>j, <1>0, <1>3 DEF Backfills, Step, CallFits
    <2>2. /\ watch' \in [count : Records, cursor : Records, changed : BOOLEAN]
          /\ watch'.count = visible /\ watch'.cursor = watch.cursor
      BY <1>0, <2>1 DEF TypeOK
    <2>3. TypeOK'
      BY <1>0, <1>c, <2>1, <2>2 DEF TypeOK, Calls, world, Journals
    <2>4. visible' = visible /\ watch.cursor <= visible
      BY <1>0, <2>1, MaintenanceAssumption DEF world, Records
    <2>5. /\ UNCHANGED <<journal, before, swapped>> /\ staged \subseteq staged'
          /\ fresh' = {} \/ (fresh' = fresh /\ UNCHANGED watch)
          /\ watch'.cursor <= watch'.count /\ watch.count <= watch'.count
          /\ watch'.count <= visible' /\ policy' <= changes' + 1
      BY <1>0, <2>1, <2>2, <2>4 DEF world
    <2> QED
      BY <2>1, <2>3, <2>5, EndStep
  <1>4. CASE Reconciles(r)
    <2>1. /\ Visited(watch.cursor) \in Nat /\ watch.cursor + Visited(watch.cursor) <= watch.count
          /\ Advanced(watch.cursor) \in Records /\ Advanced(watch.cursor) <= watch.count
      BY <1>0, CursorBounds
    <2>2. /\ calls' = [calls EXCEPT ![r] = NoCall] /\ fresh' = {}
          /\ watch' = [watch EXCEPT !.cursor = Advanced(@), !.changed = TRUE]
          /\ reviewed' = reviewed \cup watch.cursor + 1 .. watch.cursor + Visited(watch.cursor)
          /\ UNCHANGED <<journal, before, scanned, projected, staged, world, swapped>>
      BY <1>4 DEF Reconciles, Step
    <2>3. /\ watch' \in [count : Records, cursor : Records, changed : BOOLEAN]
          /\ watch'.count = watch.count /\ watch'.cursor = Advanced(watch.cursor)
      BY <1>0, <2>1, <2>2 DEF TypeOK
    <2>4. watch.cursor + 1 .. watch.cursor + Visited(watch.cursor) \subseteq Records
      BY <1>0, <2>1, MaintenanceAssumption DEF Records, TypeOK
    <2>5. TypeOK'
      BY <1>0, <1>c, <2>2, <2>3, <2>4 DEF TypeOK, Calls, world
    <2>6. /\ UNCHANGED <<journal, before, swapped>> /\ staged \subseteq staged'
          /\ fresh' = {} \/ (fresh' = fresh /\ UNCHANGED watch)
          /\ watch'.cursor <= watch'.count /\ watch.count <= watch'.count
          /\ watch'.count <= visible' /\ policy' <= changes' + 1
      BY <1>0, <2>1, <2>2, <2>3 DEF world
    <2> QED
      BY <2>2, <2>5, <2>6, EndStep
  <1>5. CASE Projects(r)
    <2>1. /\ calls' = [calls EXCEPT ![r] = NoCall] /\ j \in Journals /\ fresh' = {}
          /\ projected' = projected \cup {[end |-> j.end, records |-> watch.count,
                                           policy |-> j.policy]}
          /\ UNCHANGED <<journal, before, watch, scanned, staged, world, reviewed, swapped>>
      BY <1>j, <1>0, <1>5 DEF Projects, Step, CallFits
    <2>2. [end |-> j.end, records |-> watch.count, policy |-> j.policy] \in Projections
      BY <1>0, <2>1 DEF Projections, Journals, TypeOK
    <2>3. TypeOK'
      BY <1>0, <1>c, <2>1, <2>2 DEF TypeOK, Calls, world
    <2>4. /\ UNCHANGED <<journal, before, swapped>> /\ staged \subseteq staged'
          /\ fresh' = {} \/ (fresh' = fresh /\ UNCHANGED watch)
          /\ watch'.cursor <= watch'.count /\ watch.count <= watch'.count
          /\ watch'.count <= visible' /\ policy' <= changes' + 1
      BY <1>0, <2>1 DEF world
    <2> QED
      BY <2>1, <2>3, <2>4, EndStep
  <1>6. CASE Stages(r)
    <2>1. /\ calls' = [calls EXCEPT ![r] = NoCall] /\ j \in Journals /\ fresh' = {}
          /\ j.phase = "stage" /\ j.offset < j.campaign.records /\ Credited(j)
          /\ staged' = staged \cup {Fact(j)}
          /\ UNCHANGED <<journal, before, watch, scanned, projected, world, reviewed, swapped>>
      BY <1>j, <1>0, <1>6 DEF Stages, Step, CallFits
    <2>2. Fact(j) \in [campaign : Campaigns, fact : Records]
      <3>1. j.campaign \in Campaigns /\ j.offset \in Records /\ trust \in Revisions
        BY <1>0, <2>1 DEF Credited, Journals, TypeOK
      <3>2. [j.campaign EXCEPT !.trust = trust] \in Campaigns
        BY <3>1 DEF Campaigns
      <3>3. j.offset + 1 \in Records
        BY <2>1, <3>1, MaintenanceAssumption DEF Records, Campaigns
      <3> QED
        BY <3>2, <3>3 DEF Fact
    <2>3. TypeOK'
      BY <1>0, <1>c, <2>1, <2>2 DEF TypeOK, Calls, world
    <2>4. /\ UNCHANGED <<journal, before, swapped>> /\ staged \subseteq staged'
          /\ fresh' = {} \/ (fresh' = fresh /\ UNCHANGED watch)
          /\ watch'.cursor <= watch'.count /\ watch.count <= watch'.count
          /\ watch'.count <= visible' /\ policy' <= changes' + 1
      BY <1>0, <2>1 DEF world
    <2> QED
      BY <2>1, <2>3, <2>4, EndStep
  <1>7. CASE AlreadyStaged(r)
    <2> DEFINE k1 == [j EXCEPT !.offset = j.offset + 1]
               k == [k1 EXCEPT !.previous = j.end]
    <2>1. /\ calls[r].step = "stage" /\ calls' = [calls EXCEPT ![r] = NoCall]
          /\ j \in Journals /\ Fact(j) \in staged
          /\ j.phase = "stage" /\ j.offset < j.campaign.records /\ Credited(j)
          /\ j.cursor <= watch.count
          /\ r \in fresh => j.end = journal.end
          /\ swapped' = (swapped \/ trust # j.campaign.trust)
          /\ UNCHANGED <<scanned, projected, staged, world>>
      BY <1>j, <1>0, <1>7 DEF AlreadyStaged, Step, CallFits, NeedsStaging
    <2>2. Store(r, k)
      BY <1>j, <1>7, Zenon DEF AlreadyStaged
    <2>3. /\ j.campaign \in Campaigns /\ j.offset \in Nat /\ j.campaign.records \in Nat
          /\ j.offset + 1 \in Records /\ j.offset + 1 <= j.campaign.records
          /\ j.end \in 0..MaxEnd
      BY <2>1, MaintenanceAssumption DEF Credited, Journals, Campaigns, Records, Ends
    <2>4. /\ k1 \in Journals /\ k1.offset = j.offset + 1 /\ k1.cursor = j.cursor
          /\ k1.phase = j.phase /\ k1.campaign = j.campaign
      <3> QED BY <2>1, <2>3, JournalTypes DEF Journals
    <2>5. /\ k \in Journals /\ k.offset = j.offset + 1 /\ k.cursor = j.cursor
          /\ k.phase = j.phase /\ k.campaign = j.campaign /\ k.previous = j.end
      <3> HIDE DEF k1
      <3> QED BY <2>3, <2>4, JournalTypes DEF Journals
    <2>6. swapped' \in BOOLEAN /\ (swapped => swapped')
      BY <1>0, <2>1, Zenon
    <2>7. ~ swapped' => \A n \in 1 .. j.offset + 1 :
                           [campaign |-> j.campaign, fact |-> n] \in staged
      <3> SUFFICES ASSUME ~ swapped', NEW n \in 1 .. j.offset + 1
                   PROVE  [campaign |-> j.campaign, fact |-> n] \in staged
        OBVIOUS
      <3>1. ~ swapped /\ trust = j.campaign.trust
        BY <2>1
      <3>2. [j.campaign EXCEPT !.trust = trust] = j.campaign
        BY <2>3, <3>1 DEF Campaigns
      <3>3. CASE n = j.offset + 1
        BY <2>1, <3>2, <3>3 DEF Fact
      <3>4. CASE n # j.offset + 1
        <4>1. n \in 1..j.offset
          BY <2>3, <3>4
        <4> QED
          BY <2>1, <3>1, <4>1 DEF Credited
      <3> QED
        BY <3>3, <3>4
    <2> HIDE DEF k
    <2> QED
      BY <1>0, <2>1, <2>2, <2>3, <2>5, <2>6, <2>7, StoreStep
  <1>8. CASE CoverageGap(r)
    <2> DEFINE k == [Restart(j) EXCEPT !.previous = j.end]
    <2>1. /\ calls[r].step = "coverage" /\ calls' = [calls EXCEPT ![r] = NoCall]
          /\ j \in Journals
          /\ r \in fresh => j.end = journal.end
          /\ Store(r, k)
          /\ UNCHANGED <<scanned, projected, staged, world, swapped>>
      BY <1>j, <1>0, <1>8 DEF CoverageGap, Step, CallFits
    <2>0. j \in Journals
      BY <2>1
    <2>2. /\ Restart(j) \in Journals /\ Restart(j).phase = "backfill" /\ Restart(j).cursor = 0
          /\ j.end \in 0..MaxEnd
      <3>1. j.end \in 0..MaxEnd
        BY <2>1, MaintenanceAssumption DEF Journals, Ends
      <3> QED
        BY <2>0, <3>1, RestartType
    <2>3. k \in Journals /\ k.phase = "backfill" /\ k.cursor = 0 /\ k.previous = j.end
      <3> QED BY <2>2, JournalTypes DEF Journals
    <2> HIDE DEF k
    <2>6. swapped' \in BOOLEAN /\ (swapped => swapped') /\ UNCHANGED <<scanned, projected, staged, world>>
      BY <1>0, <2>1, Zenon
    <2>7. 0 <= watch.count /\ (r \in fresh => k.previous = journal.end)
      BY <1>0, <2>1, <2>3
    <2>8. k.phase \notin {"stage", "ready"}
      BY <2>3
    <2> QED
      BY <2>1, <2>3, <2>6, <2>7, <2>8, StoreStep
  <1>9. CASE NewInterval(r)
    <2> DEFINE k1 == [Restart(j) EXCEPT !.end = calls[r].cutoff]
               k == [k1 EXCEPT !.previous = j.end]
    <2>1. /\ calls[r].step = "coverage" /\ calls' = [calls EXCEPT ![r] = NoCall]
          /\ j \in Journals
          /\ r \in fresh => j.end = journal.end
          /\ calls[r].cutoff > j.end
          /\ UNCHANGED <<scanned, projected, staged, world, swapped>>
      BY <1>j, <1>0, <1>9 DEF NewInterval, Step, CallFits
    <2>2. Store(r, k)
      BY <1>j, <1>9, Zenon DEF NewInterval
    <2>0. j \in Journals
      BY <2>1
    <2>3. /\ Restart(j) \in Journals /\ Restart(j).phase = "backfill" /\ Restart(j).cursor = 0
          /\ j.end \in 0..MaxEnd /\ calls[r].cutoff \in Ends
      <3>1. j.end \in 0..MaxEnd /\ j.end \in Nat /\ calls[r].cutoff \in 0..MaxEnd
        BY <1>1, <2>1, MaintenanceAssumption DEF Journals, Ends, Calls
      <3>2. calls[r].cutoff \in Ends
        BY <2>1, <3>1, MaintenanceAssumption DEF Ends
      <3> QED
        BY <2>0, <3>1, <3>2, RestartType
    <2>4. k1 \in Journals /\ k1.phase = "backfill" /\ k1.cursor = 0
      <3> QED BY <2>3, JournalTypes DEF Journals
    <2>5. k \in Journals /\ k.phase = "backfill" /\ k.cursor = 0 /\ k.previous = j.end
      <3> HIDE DEF k1
      <3> QED BY <2>3, <2>4, JournalTypes DEF Journals
    <2> HIDE DEF k
    <2>6. swapped' \in BOOLEAN /\ (swapped => swapped') /\ UNCHANGED <<scanned, projected, staged, world>>
      BY <1>0, <2>1, Zenon
    <2>7. 0 <= watch.count /\ (r \in fresh => k.previous = journal.end)
      BY <1>0, <2>1, <2>5
    <2>8. k.phase \notin {"stage", "ready"}
      BY <2>5
    <2> QED
      BY <2>1, <2>2, <2>5, <2>6, <2>7, <2>8, StoreStep
  <1>10. CASE ReportsReady(r)
    <2>1. /\ calls' = [calls EXCEPT ![r] = NoCall]
          /\ UNCHANGED <<journal, before, state, world, fresh, reviewed, swapped>>
      BY <1>10 DEF ReportsReady, Step
    <2>2. TypeOK'
      BY <1>0, <1>c, <2>1 DEF TypeOK, Calls, state, world
    <2>3. /\ UNCHANGED <<journal, before, swapped>> /\ staged \subseteq staged'
          /\ fresh' = {} \/ (fresh' = fresh /\ UNCHANGED watch)
          /\ watch'.cursor <= watch'.count /\ watch.count <= watch'.count
          /\ watch'.count <= visible' /\ policy' <= changes' + 1
      BY <1>0, <2>1 DEF state, world
    <2> QED
      BY <2>1, <2>2, <2>3, EndStep
  <1> QED
    BY <1>2, <1>3, <1>4, <1>5, <1>6, <1>7, <1>8, <1>9, <1>10 DEF Act

\* What happens around the invocations.
LEMMA WorldStep ==
    ASSUME JournalInvariant,
           RecordAppears \/ PolicyRevised \/ TrustRevised \/ OtherCommits
    PROVE  JournalInvariant'
  <1>1. /\ UNCHANGED <<journal, before, state, calls, reviewed, swapped>>
        /\ fresh' \in {fresh, {}} /\ Changes
        /\ \/ UNCHANGED <<visible, policy, trust>>
           \/ visible < MaxRecords /\ visible' = visible + 1 /\ UNCHANGED <<policy, trust>>
           \/ policy' = policy + 1 /\ UNCHANGED <<visible, trust>>
           \/ trust' \in Revisions /\ UNCHANGED <<visible, policy>>
    BY DEF RecordAppears, PolicyRevised, TrustRevised, OtherCommits
  <1>2. /\ TypeOK /\ watch.count \in Nat /\ watch.count <= visible
        /\ policy \in Nat /\ changes \in Nat /\ policy <= changes + 1
        /\ changes < MaxChanges /\ changes' = changes + 1 /\ visible \in Nat
    BY <1>1, MaintenanceAssumption DEF JournalInvariant, TypeOK, Records, Revisions, Changes
  <1>3. /\ visible' \in Records /\ policy' \in Revisions /\ trust' \in Revisions
        /\ changes' \in 0..MaxChanges /\ policy' <= changes' + 1 /\ watch.count <= visible'
    BY <1>1, <1>2, MaintenanceAssumption DEF TypeOK, Records, Revisions
  <1>4. TypeOK'
    BY <1>1, <1>2, <1>3 DEF TypeOK, state
  <1>5. ASSUME NEW q \in Runners
        PROVE  CallFits(q)'
    BY <1>1, <1>5 DEF JournalInvariant, CallFits, Credited, AllStaged, state
  <1> QED
    BY <1>1, <1>3, <1>4, <1>5
       DEF JournalInvariant, LineageHolds, Credited, AllStaged, state

\* An invocation that is lost has done nothing more.
LEMMA LostStep ==
    ASSUME JournalInvariant, NEW r \in Runners, RunnerLost(r)
    PROVE  JournalInvariant'
  <1>1. /\ calls' = [calls EXCEPT ![r] = NoCall]
        /\ UNCHANGED <<journal, before, state, visible, policy, trust, fresh, reviewed, swapped>>
        /\ changes < MaxChanges /\ changes' = changes + 1
    BY DEF RunnerLost, Step, Changes
  <1>2. /\ TypeOK /\ NoCall \in Calls /\ policy <= changes + 1
        /\ policy \in Nat /\ changes \in Nat /\ watch.count \in Nat
        /\ watch.cursor <= watch.count /\ watch.count <= visible
    BY MaintenanceAssumption
       DEF JournalInvariant, NoCall, Calls, Steps, TypeOK, Records, Revisions
  <1>3. TypeOK'
    BY <1>1, <1>2, MaintenanceAssumption DEF TypeOK, Calls, state
  <1>4. /\ UNCHANGED <<journal, before, swapped, watch>> /\ staged \subseteq staged'
        /\ watch'.cursor <= watch'.count /\ watch.count <= watch'.count
        /\ watch'.count <= visible' /\ policy' <= changes' + 1 /\ fresh' = fresh
    BY <1>1, <1>2 DEF state
  <1> QED
    BY <1>1, <1>3, <1>4, EndStep

LEMMA StepKeeps ==
    ASSUME JournalInvariant, [Next]_vars
    PROVE  JournalInvariant'
  <1>1. CASE \E r \in Runners : \E cutoff \in Ends : Load(r, cutoff)
    BY <1>1, LoadStep
  <1>2. CASE \E r \in Runners : Act(r)
    BY <1>2, ActStep
  <1>3. CASE \E r \in Runners : RunnerLost(r)
    BY <1>3, LostStep
  <1>4. CASE RecordAppears \/ PolicyRevised \/ TrustRevised \/ OtherCommits
    BY <1>4, WorldStep
  <1>5. CASE UNCHANGED vars
    BY <1>5 DEF vars, state, world, JournalInvariant, TypeOK, LineageHolds,
                Credited, CallFits, AllStaged
  <1> QED
    BY <1>1, <1>2, <1>3, <1>4, <1>5 DEF Next

\* The lineage that the next invocation demands is the one that was stored, what is
\* credited is staged, and cursors stay within what is watched, for every number of
\* overlapping invocations (lines 54-137, 181-198).
LEMMA JournalInvariantHolds == Spec => []JournalInvariant
  <1>1. Init => JournalInvariant
    <2> SUFFICES ASSUME Init PROVE JournalInvariant
      OBVIOUS
    <2>1. NoCall \in Calls /\ 0 \in Records /\ 1 \in Revisions /\ 0 \in 0..MaxEnd /\ 0 \in 0..MaxChanges
      BY MaintenanceAssumption DEF NoCall, Calls, Steps, Records, Revisions
    <2>2. TypeOK
      BY <2>1 DEF Init, TypeOK, Calls
    <2>3. Credited(NoJournal) /\ NoJournal.cursor = 0 /\ NoJournal.previous = 0
      BY CreditsNothing DEF NoJournal
    <2>4. \A r \in Runners : CallFits(r)
      <3> SUFFICES ASSUME NEW r \in Runners PROVE CallFits(r)
        OBVIOUS
      <3>1. calls[r] = NoCall /\ fresh = {} /\ watch.count = 0
        BY DEF Init
      <3> QED
        BY <2>3, <3>1 DEF CallFits, NoCall
    <2>5. 0 <= visible
      BY MaintenanceAssumption DEF Init, Records
    <2> QED
      BY <2>2, <2>3, <2>4, <2>5 DEF Init, JournalInvariant, LineageHolds
  <1>2. JournalInvariant /\ [Next]_vars => JournalInvariant'
    BY StepKeeps
  <1> QED
    BY <1>1, <1>2, PTL DEF Spec

\* All rows lie behind a cursor by less than the length of the watch, none by less
\* than zero.
LEMMA BehindBounds ==
    ASSUME NEW n \in Nat, NEW c \in 0..n
    PROVE  Behind(c, n, n) = 1..n /\ Behind(c, n, 0) = {}
  BY DEF Behind

\* A batch adds its rows to those behind the cursor.
LEMMA BehindAdvances ==
    ASSUME TypeOK, NEW c \in 0..watch.count, NEW left \in Nat, NEW rows,
           Behind(c, watch.count, watch.count - left) \subseteq rows,
           NextRows(c) \subseteq rows
    PROVE  LET v == Visited(c)
           IN  Behind(Advanced(c), watch.count,
                      watch.count - (IF left > v THEN left - v ELSE 0)) \subseteq rows
  <1> DEFINE n == watch.count
             v == Visited(c)
             now == IF left > v THEN left - v ELSE 0
  <1>1. n \in Nat /\ c \in Nat /\ c <= n /\ v \in Nat /\ c + v <= n
    BY MaintenanceAssumption DEF TypeOK, Records, Visited
  <1>2. Advanced(c) = IF c + v < n THEN c + v ELSE 0
    BY DEF Advanced
  <1>3. SUFFICES ASSUME NEW x \in 1..n,
                        (IF x <= Advanced(c) THEN Advanced(c) - x ELSE Advanced(c) - x + n) < n - now
                 PROVE  x \in rows
    BY DEF Behind
  <1>4. CASE x \in c + 1 .. c + v
    BY <1>4 DEF NextRows
  <1>5. CASE x \notin c + 1 .. c + v
    <2> HIDE DEF v
    <2>1. (IF x <= c THEN c - x ELSE c - x + n) < n - left
      BY <1>1, <1>2, <1>3, <1>5
    <2> QED
      BY <2>1 DEF Behind
  <1> QED
    BY <1>4, <1>5

\* In a watch that takes more than one batch, the cursor moves.
LEMMA CursorMoves ==
    ASSUME TypeOK, NEW c \in 0..watch.count, watch.count > Batch
    PROVE  Advanced(c) # c
  BY MaintenanceAssumption DEF TypeOK, Records, Advanced, Visited

\* What an invocation credits to a review has been visited.
LEMMA CreditIsVisited ==
    ASSUME JournalInvariant, ReviewInvariant, journal \in Journals,
           journal.phase = "review", watch.count = journal.count, journal.count > Batch
    PROVE  /\ ~ journal.observed \/ watch.changed =>
                 Behind(watch.cursor, watch.count, watch.count - Remaining(journal)) \subseteq reviewed
           /\ Remaining(journal) = 0 => 1..journal.count \subseteq reviewed
  <1> DEFINE n == watch.count
             c == journal.cursor
  <1>1. /\ TypeOK /\ n \in Nat /\ n > Batch /\ n # 0 /\ n - n = 0 /\ n - 0 = n
        /\ c \in 0..n /\ watch.cursor \in 0..n /\ journal.remaining \in Nat
        /\ journal.observed \in BOOLEAN
    BY MaintenanceAssumption DEF JournalInvariant, TypeOK, Records, Journals
  <1>2. /\ Behind(c, n, n) = 1..n /\ Behind(watch.cursor, n, 0) = {}
        /\ Behind(watch.cursor, n, n) = 1..n
    BY <1>1, BehindBounds
  <1>3. CASE ~ journal.observed
    <2>1. Remaining(journal) = n
      BY <1>3 DEF Remaining, ReviewInvariant, ReviewFits
    <2> QED
      BY <1>1, <1>2, <2>1
  <1>4. journal.observed => Behind(c, n, n - journal.remaining) \subseteq reviewed
    BY DEF ReviewInvariant, ReviewFits
  <1>5. CASE journal.observed /\ ~ watch.changed
    <2>1. Remaining(journal) = journal.remaining
      BY <1>5 DEF Remaining
    <2> QED
      BY <1>1, <1>2, <1>4, <1>5, <2>1
  <1>6. CASE journal.observed /\ watch.changed /\ watch.cursor # Advanced(c)
    <2>1. Remaining(journal) = n
      BY <1>6 DEF Remaining
    <2> QED
      BY <1>1, <1>2, <2>1
  <1>7. CASE journal.observed /\ watch.changed /\ watch.cursor = Advanced(c)
    <2>1. NextRows(c) \subseteq reviewed
      BY <1>1, <1>7, CursorMoves DEF ReviewInvariant, WatchIsAhead
    <2>2. Remaining(journal) = IF journal.remaining > Visited(c) THEN journal.remaining - Visited(c) ELSE 0
      BY <1>7 DEF Remaining
    <2>3. Behind(Advanced(c), n, n - Remaining(journal)) \subseteq reviewed
      BY <1>1, <1>4, <1>7, <2>1, <2>2, BehindAdvances
    <2> QED
      BY <1>1, <1>2, <1>7, <2>3
  <1> QED
    BY <1>3, <1>5, <1>6, <1>7

\* Taking a step: a plan that stores a review is of the watch as it is.
LEMMA ReviewPlanStep ==
    ASSUME JournalInvariant, ReviewInvariant, NEW r \in Runners, NEW step, NEW j, NEW cutoff,
           Plan(r, step, j, cutoff),
           step = "persist" =>
               /\ ReviewFits(j)
               /\ j.phase = "review" => j.count = watch.count /\ (j.observed => j.cursor = watch.cursor)
    PROVE  ReviewInvariant'
  <1>1. /\ calls'[r].step = step /\ calls'[r].journal = j
        /\ \A q \in Runners \ {r} : calls'[q] = calls[q]
        /\ fresh' = fresh \cup {r}
        /\ journal' = journal /\ watch' = watch /\ reviewed' = reviewed
    BY DEF Plan, JournalInvariant, TypeOK, state
  <1>2. ReviewFits(journal)' /\ WatchIsAhead'
    BY <1>1 DEF ReviewInvariant, ReviewFits, WatchIsAhead, NextRows, Visited
  <1>3. PlanReviews(r)'
    BY <1>1 DEF PlanReviews, ReviewFits
  <1>4. ASSUME NEW q \in Runners \ {r}
        PROVE  PlanReviews(q)'
    BY <1>1, <1>4 DEF ReviewInvariant, PlanReviews, ReviewFits
  <1> QED
    BY <1>2, <1>3, <1>4 DEF ReviewInvariant

\* The end of an invocation that does not store a journal.
LEMMA ReviewEndStep ==
    ASSUME JournalInvariant, ReviewInvariant, TypeOK',
           \A q \in Runners : calls'[q] \in {calls[q], NoCall},
           journal' = journal, watch.count <= watch'.count, reviewed \subseteq reviewed',
           fresh' = {} \/ (fresh' = fresh /\ watch' = watch /\ reviewed' = reviewed),
           watch'.cursor = watch.cursor \/ NextRows(watch.cursor) \subseteq reviewed'
    PROVE  ReviewInvariant'
  <1>1. watch.count \in Nat /\ watch'.count \in Nat
    BY DEF JournalInvariant, TypeOK, Records
  <1>2. journal # NoJournal => journal.count \in Nat
    BY DEF JournalInvariant, TypeOK, Journals, Records
  <1>3. journal.phase \in {"review", "checkpoint"} => journal # NoJournal
    BY DEF NoJournal
  <1>4. ReviewFits(journal)'
    BY <1>1, <1>2, <1>3 DEF ReviewInvariant, ReviewFits
  <1>5. WatchIsAhead'
    <2> SUFFICES ASSUME journal.phase = "review", journal.observed, journal.count = watch'.count,
                        journal.count > Batch, watch'.cursor # journal.cursor
                 PROVE  (NextRows(journal.cursor) \subseteq reviewed)'
      BY DEF WatchIsAhead
    <2>1. watch.count = watch'.count /\ journal.count = watch.count
      BY <1>1, <1>2, <1>3 DEF ReviewInvariant, ReviewFits
    <2>2. watch.cursor = journal.cursor \/ NextRows(journal.cursor) \subseteq reviewed
      BY <2>1 DEF ReviewInvariant, WatchIsAhead
    <2> QED
      BY <2>1, <2>2 DEF NextRows, Visited
  <1>6. ASSUME NEW q \in Runners
        PROVE  PlanReviews(q)'
    <2>1. CASE calls'[q] = NoCall \/ fresh' = {}
      BY <2>1 DEF PlanReviews, NoCall
    <2>2. CASE calls'[q] = calls[q] /\ fresh' = fresh /\ watch' = watch /\ reviewed' = reviewed
      BY <2>2 DEF ReviewInvariant, PlanReviews, ReviewFits
    <2> QED
      BY <2>1, <2>2
  <1> QED
    BY <1>4, <1>5, <1>6 DEF ReviewInvariant

\* Storing a journal, or being refused.
LEMMA ReviewStoreStep ==
    ASSUME JournalInvariant, ReviewInvariant, TypeOK', NEW r \in Runners, NEW j \in Journals,
           calls' = [calls EXCEPT ![r] = NoCall],
           Store(r, j),
           r \in fresh =>
               /\ ReviewFits(j)
               /\ j.phase = "review" => j.count = watch.count /\ (j.observed => j.cursor = watch.cursor)
    PROVE  ReviewInvariant'
  <1>1. \A q \in Runners : calls'[q] \in {calls[q], NoCall}
    BY DEF JournalInvariant, TypeOK
  <1>2. CASE r \in fresh
    <2>1. /\ journal' = j /\ fresh' = {}
          /\ reviewed' = IF j.phase = "review" /\ ~ j.observed THEN {} ELSE reviewed
          /\ watch'.count = watch.count /\ watch'.cursor = watch.cursor
      BY <1>2 DEF Store, StoreAnyway, JournalInvariant, TypeOK
    <2>2. j.observed \in BOOLEAN
      BY DEF Journals
    <2>3. ReviewFits(journal)'
      BY <1>2, <2>1, <2>2 DEF ReviewFits
    <2>4. WatchIsAhead'
      BY <1>2, <2>1 DEF WatchIsAhead
    <2>5. \A q \in Runners : PlanReviews(q)'
      BY <2>1 DEF PlanReviews
    <2> QED
      BY <2>3, <2>4, <2>5 DEF ReviewInvariant
  <1>3. CASE r \notin fresh
    <2>1. journal' = journal /\ fresh' = fresh /\ watch' = watch /\ reviewed' = reviewed
      BY <1>3 DEF Store
    <2>2. watch.count <= watch'.count
      BY <2>1 DEF JournalInvariant, TypeOK, Records
    <2> QED
      BY <1>1, <2>1, <2>2, ReviewEndStep
  <1> QED
    BY <1>2, <1>3

\* What a review that is entered, observed or over says of its rows.
LEMMA ReviewFields ==
    ASSUME NEW j \in Journals
    PROVE  /\ EnterReview(j).remaining = watch.count /\ EnterReview(j).count = watch.count
           /\ EnterReview(j).observed = FALSE
           /\ Restart(j).count = j.count
           /\ \A n : LET o == [j EXCEPT !.remaining = n, !.observed = TRUE, !.cursor = watch.cursor]
                     IN  o.remaining = n /\ o.observed = TRUE /\ o.count = j.count
  <1>1. /\ EnterReview(j).remaining = watch.count /\ EnterReview(j).count = watch.count
        /\ EnterReview(j).observed = FALSE
    BY DEF EnterReview, Journals
  <1>2. Restart(j).count = j.count
    BY DEF Restart, Journals
  <1>3. ASSUME NEW n
        PROVE  LET o == [j EXCEPT !.remaining = n, !.observed = TRUE, !.cursor = watch.cursor]
               IN  o.remaining = n /\ o.observed = TRUE /\ o.count = j.count
    BY DEF Journals
  <1> QED
    BY <1>1, <1>2, <1>3

\* Taking the step that stores a journal.
LEMMA ReviewPlanJournalStep ==
    ASSUME JournalInvariant, ReviewInvariant, NEW r \in Runners, NEW j \in Journals,
           PlanJournal(r, j), ReviewFits(j),
           j.phase = "review" => j.count = watch.count /\ (j.observed => j.cursor = watch.cursor)
    PROVE  ReviewInvariant'
  <1> DEFINE k == [j EXCEPT !.previous = journal.end]
  <1>1. /\ k.phase = j.phase /\ k.remaining = j.remaining /\ k.observed = j.observed
        /\ k.cursor = j.cursor /\ k.count = j.count
    BY DEF Journals
  <1>2. Plan(r, "persist", k, 0)
    BY DEF PlanJournal
  <1> HIDE DEF k
  <1>3. ReviewFits(k)
    BY <1>1 DEF ReviewFits
  <1> QED
    BY <1>1, <1>2, <1>3, ReviewPlanStep

LEMMA ReviewLoadStep ==
    ASSUME JournalInvariant, ReviewInvariant, NEW r \in Runners, NEW cutoff \in Ends,
           Load(r, cutoff)
    PROVE  ReviewInvariant'
  <1>0. /\ TypeOK /\ journal.cursor <= watch.count /\ watch.count \in Nat
        /\ policy \in Revisions /\ trust \in Revisions
    BY DEF JournalInvariant, TypeOK, Records
  <1>1. ASSUME journal # NoJournal
        PROVE  journal \in Journals
    BY <1>0, <1>1 DEF TypeOK
  <1>2. ASSUME NEW phase \in Phases, InPhase(r, cutoff, phase)
        PROVE  journal \in Journals /\ journal.phase = phase
    BY <1>1, <1>2 DEF InPhase, Phases, NoJournal
  <1>3. ASSUME NEW j \in Journals, PlanJournal(r, j), j.phase \notin {"review", "checkpoint"}
        PROVE  ReviewInvariant'
    BY <1>3, ReviewPlanJournalStep DEF ReviewFits
  <1>4. ASSUME journal \in Journals, PlanJournal(r, EnterReview(journal))
        PROVE  ReviewInvariant'
    <2> DEFINE j == EnterReview(journal)
    <2>1. /\ j \in Journals /\ j.phase = "review" /\ j.observed = FALSE
          /\ j.remaining = watch.count /\ j.count = watch.count
      BY <1>0, <1>4, ReviewTypes, ReviewFields
    <2>2. PlanJournal(r, j)
      BY <1>4
    <2> HIDE DEF j
    <2>3. ReviewFits(j)
      BY <1>0, <2>1 DEF ReviewFits
    <2> QED
      BY <2>1, <2>2, <2>3, ReviewPlanJournalStep
  <1>5. ASSUME NEW step, NEW j, NEW c, Plan(r, step, j, c), step # "persist"
        PROVE  ReviewInvariant'
    BY <1>5, ReviewPlanStep
  <1>6. CASE StartsJournal(r, cutoff)
    <2>1. Initial(cutoff) \in Journals /\ Initial(cutoff).phase = "backfill"
      BY <1>0, MaintenanceAssumption DEF Initial, Journals, TypeOK, Phases, Records, Revisions
    <2> QED
      BY <1>3, <1>6, <2>1 DEF StartsJournal
  <1>7. CASE MeetsRevision(r, cutoff)
    <2> DEFINE k == [Restart(journal) EXCEPT !.policy = policy, !.trust = trust]
    <2>1. Restart(journal) \in Journals /\ Restart(journal).phase = "backfill"
      BY <1>1, <1>7, RestartType DEF MeetsRevision
    <2>2. k \in Journals /\ k.phase = "backfill"
      BY <1>0, <2>1, RevisedType
    <2>3. PlanJournal(r, k)
      BY <1>7 DEF MeetsRevision
    <2> HIDE DEF k
    <2> QED
      BY <1>3, <2>2, <2>3
  <1>8. CASE InBackfill(r, cutoff)
    BY <1>2, <1>4, <1>5, <1>8 DEF InBackfill, Phases
  <1>9. CASE ReviewStartsOver(r, cutoff)
    BY <1>2, <1>4, <1>9 DEF ReviewStartsOver, Phases
  <1>10. CASE InReview(r, cutoff)
    <2>1. /\ journal \in Journals /\ journal.phase = "review" /\ watch.count = journal.count
      BY <1>2, <1>10 DEF InReview, Phases
    <2>2. Remaining(journal) \in Records
      BY <1>0, <2>1, RemainingType
    <2>3. CASE Remaining(journal) = 0 /\ PlanJournal(r, [Restart(journal) EXCEPT !.phase = "checkpoint"])
      <3> DEFINE j == [Restart(journal) EXCEPT !.phase = "checkpoint"]
      <3>0. Restart(journal) \in Journals /\ Restart(journal).count = journal.count
        BY <2>1, RestartType, ReviewFields
      <3>1. j \in Journals /\ j.phase = "checkpoint" /\ j.count = journal.count
        BY <3>0, JournalTypes DEF Phases, Journals
      <3>2. PlanJournal(r, j)
        BY <2>3
      <3> HIDE DEF j
      <3>3. ReviewFits(j)
        BY <2>1, <2>3, <3>1, CreditIsVisited DEF ReviewFits
      <3> QED
        BY <3>1, <3>2, <3>3, ReviewPlanJournalStep
    <2>4. CASE /\ ~ journal.observed \/ watch.changed
               /\ PlanJournal(r, [journal EXCEPT !.remaining = Remaining(journal),
                                                 !.observed = TRUE, !.cursor = watch.cursor])
      <3> DEFINE j == [journal EXCEPT !.remaining = Remaining(journal), !.observed = TRUE,
                                      !.cursor = watch.cursor]
      <3>1. /\ j \in Journals /\ j.phase = "review" /\ j.cursor = watch.cursor
            /\ j.remaining = Remaining(journal) /\ j.observed = TRUE /\ j.count = watch.count
        BY <1>0, <2>1, <2>2, ReviewTypes, ReviewFields
      <3>2. PlanJournal(r, j)
        BY <2>4
      <3> HIDE DEF j
      <3>3. ReviewFits(j)
        BY <1>0, <2>1, <2>4, <3>1, CreditIsVisited DEF ReviewFits
      <3> QED
        BY <3>1, <3>2, <3>3, ReviewPlanJournalStep
    <2>5. CASE Plan(r, "reconcile", NoJournal, 0)
      BY <1>5, <2>5
    <2> QED
      BY <1>10, <2>3, <2>4, <2>5 DEF InReview
  <1>11. CASE InCheckpoint(r, cutoff)
    <2>1. journal \in Journals
      BY <1>2, <1>11 DEF InCheckpoint, Phases
    <2>2. CASE Plan(r, "project", journal, 0)
      BY <1>5, <2>2
    <2>3. CASE PlanJournal(r, [journal EXCEPT !.phase = "stage", !.campaign = Campaign,
                                              !.offset = 0])
      <3> DEFINE j1 == [journal EXCEPT !.phase = "stage"]
                 j2 == [j1 EXCEPT !.campaign = Campaign]
                 j3 == [j2 EXCEPT !.offset = 0]
      <3>0. Campaign \in Campaigns /\ 0 \in Records /\ "stage" \in Phases
        BY <1>0, <2>1, MaintenanceAssumption
           DEF Campaign, Campaigns, TypeOK, Journals, Records, Phases
      <3>1. j1 \in Journals /\ j1.phase = "stage"
        BY <2>1, <3>0, JournalTypes DEF Journals
      <3>2. j2 \in Journals /\ j2.phase = "stage"
        <4> HIDE DEF j1
        <4> QED BY <3>0, <3>1, JournalTypes DEF Journals
      <3>3. j3 \in Journals /\ j3.phase = "stage"
        <4> HIDE DEF j2
        <4> QED BY <3>0, <3>2, JournalTypes DEF Journals
      <3>4. PlanJournal(r, j3)
        BY <2>3, Zenon
      <3> HIDE DEF j3
      <3> QED
        BY <1>3, <3>3, <3>4
    <2> QED
      BY <1>11, <2>2, <2>3 DEF InCheckpoint
  <1>12. CASE InStage(r, cutoff)
    <2>1. journal \in Journals
      BY <1>2, <1>12 DEF InStage, Phases
    <2>2. /\ [journal EXCEPT !.phase = "ready"] \in Journals
          /\ [journal EXCEPT !.phase = "ready"].phase = "ready"
      BY <2>1, JournalTypes DEF Phases, Journals
    <2> QED
      BY <1>3, <1>5, <1>12, <2>2 DEF InStage
  <1>13. CASE InReady(r, cutoff)
    BY <1>5, <1>13 DEF InReady
  <1> QED
    BY <1>6, <1>7, <1>8, <1>9, <1>10, <1>11, <1>12, <1>13 DEF Load

LEMMA ReviewActStep ==
    ASSUME JournalInvariant, ReviewInvariant, JournalInvariant', NEW r \in Runners, Act(r)
    PROVE  ReviewInvariant'
  <1>j. PICK j : j = calls[r].journal
    OBVIOUS
  <1>0. /\ TypeOK /\ TypeOK' /\ CallFits(r) /\ PlanReviews(r) /\ watch.count <= visible
        /\ watch.count \in Nat
    BY DEF JournalInvariant, ReviewInvariant, TypeOK, Records
  <1>1. ASSUME calls' = [calls EXCEPT ![r] = NoCall]
        PROVE  \A q \in Runners : calls'[q] \in {calls[q], NoCall}
    BY <1>0, <1>1 DEF TypeOK
  <1>2. CASE Persists(r)
    <2>1. /\ calls[r].step = "persist" /\ calls' = [calls EXCEPT ![r] = NoCall] /\ Store(r, j)
      BY <1>j, <1>2 DEF Persists, Step
    <2>2. j \in Journals
      BY <1>j, <1>0, <2>1 DEF CallFits
    <2> QED
      BY <1>j, <1>0, <2>1, <2>2, ReviewStoreStep DEF PlanReviews
  <1>3. CASE Backfills(r)
    <2>1. /\ calls' = [calls EXCEPT ![r] = NoCall] /\ fresh' = {} /\ journal' = journal
          /\ reviewed' = reviewed /\ watch'.count = visible /\ watch'.cursor = watch.cursor
      BY <1>0, <1>3 DEF Backfills, Step, TypeOK
    <2> QED
      BY <1>0, <1>1, <2>1, ReviewEndStep
  <1>4. CASE Reconciles(r)
    <2>1. /\ calls' = [calls EXCEPT ![r] = NoCall] /\ fresh' = {} /\ journal' = journal
          /\ watch'.count = watch.count
          /\ reviewed' = reviewed \cup NextRows(watch.cursor)
      BY <1>0, <1>4 DEF Reconciles, Step, TypeOK, NextRows
    <2>2. watch.count <= watch'.count /\ reviewed \subseteq reviewed'
          /\ NextRows(watch.cursor) \subseteq reviewed'
      BY <1>0, <2>1
    <2> QED
      BY <1>0, <1>1, <2>1, <2>2, ReviewEndStep
  <1>5. CASE Projects(r) \/ Stages(r) \/ ReportsReady(r)
    <2>1. /\ calls' = [calls EXCEPT ![r] = NoCall] /\ fresh' \in {fresh, {}} /\ journal' = journal
          /\ watch' = watch /\ reviewed' = reviewed
      BY <1>5 DEF Projects, Stages, ReportsReady, Step, state
    <2>2. watch.count <= watch'.count
      BY <1>0, <2>1
    <2> QED
      BY <1>0, <1>1, <2>1, <2>2, ReviewEndStep
  <1>6. ASSUME NEW k \in Journals, calls' = [calls EXCEPT ![r] = NoCall], Store(r, k),
               k.phase \notin {"review", "checkpoint"}
        PROVE  ReviewInvariant'
    BY <1>0, <1>6, ReviewStoreStep DEF ReviewFits
  <1>7. CASE AlreadyStaged(r)
    <2> DEFINE j1 == [j EXCEPT !.offset = j.offset + 1]
               k == [j1 EXCEPT !.previous = j.end]
    <2>1. /\ calls' = [calls EXCEPT ![r] = NoCall] /\ j.phase = "stage" /\ j \in Journals
          /\ Store(r, [j EXCEPT !.offset = j.offset + 1, !.previous = j.end])
          /\ j.offset < j.campaign.records /\ Credited(j)
      BY <1>j, <1>0, <1>7 DEF AlreadyStaged, Step, CallFits
    <2>2. j.offset + 1 \in Records /\ j.end \in 0..MaxEnd
      BY <2>1, MaintenanceAssumption DEF Credited, Campaigns, Journals, Records, Ends
    <2>3. j1 \in Journals /\ j1.phase = "stage"
      BY <2>1, <2>2, JournalTypes DEF Journals
    <2>4. k \in Journals /\ k.phase = "stage"
      <3> HIDE DEF j1
      <3> QED BY <2>2, <2>3, JournalTypes DEF Journals
    <2>5. Store(r, k)
      BY <2>1, Zenon
    <2> HIDE DEF k
    <2> QED
      BY <1>6, <2>1, <2>4, <2>5
  <1>8. CASE CoverageGap(r)
    <2>1. /\ calls' = [calls EXCEPT ![r] = NoCall] /\ j \in Journals
          /\ Store(r, [Restart(j) EXCEPT !.previous = j.end])
      BY <1>j, <1>0, <1>8 DEF CoverageGap, Step, CallFits
    <2>2. Restart(j) \in Journals /\ Restart(j).phase = "backfill" /\ j.end \in 0..MaxEnd
      BY <2>1, RestartType, MaintenanceAssumption DEF Journals, Ends
    <2>3. /\ [Restart(j) EXCEPT !.previous = j.end] \in Journals
          /\ [Restart(j) EXCEPT !.previous = j.end].phase = "backfill"
      BY <2>2, JournalTypes DEF Journals
    <2> QED
      BY <1>6, <2>1, <2>3
  <1>9. CASE NewInterval(r)
    <2> DEFINE c == calls[r].cutoff
               j1 == [Restart(j) EXCEPT !.end = c]
               k == [j1 EXCEPT !.previous = j.end]
    <2>1. /\ calls' = [calls EXCEPT ![r] = NoCall] /\ j \in Journals /\ c > j.end /\ c \in 0..MaxEnd
          /\ Store(r, [Restart(j) EXCEPT !.end = c, !.previous = j.end])
      BY <1>j, <1>0, <1>9 DEF NewInterval, Step, CallFits, TypeOK
    <2>2. /\ Restart(j) \in Journals /\ Restart(j).phase = "backfill"
          /\ j.end \in 0..MaxEnd /\ c \in Ends
      BY <2>1, RestartType, MaintenanceAssumption DEF Journals, Ends
    <2> HIDE DEF c
    <2>3. j1 \in Journals /\ j1.phase = "backfill"
      BY <2>2, JournalTypes DEF Journals
    <2>4. k \in Journals /\ k.phase = "backfill"
      <3> HIDE DEF j1
      <3> QED BY <2>2, <2>3, JournalTypes DEF Journals
    <2>5. Store(r, k)
      BY <2>1, Zenon
    <2> HIDE DEF k
    <2> QED
      BY <1>6, <2>1, <2>4, <2>5
  <1> QED
    BY <1>2, <1>3, <1>4, <1>5, <1>7, <1>8, <1>9 DEF Act

LEMMA ReviewKeeps ==
    ASSUME JournalInvariant, ReviewInvariant, JournalInvariant', [Next]_vars
    PROVE  ReviewInvariant'
  <1>1. CASE \E r \in Runners : \E cutoff \in Ends : Load(r, cutoff)
    BY <1>1, ReviewLoadStep
  <1>2. CASE \E r \in Runners : Act(r)
    BY <1>2, ReviewActStep
  <1>3. CASE \/ \E r \in Runners : RunnerLost(r)
             \/ RecordAppears \/ PolicyRevised \/ TrustRevised \/ OtherCommits
             \/ UNCHANGED vars
    <2>1. /\ \A q \in Runners : calls'[q] \in {calls[q], NoCall}
          /\ fresh' \in {fresh, {}} /\ journal' = journal /\ watch' = watch /\ reviewed' = reviewed
      BY <1>3 DEF RunnerLost, RecordAppears, PolicyRevised, TrustRevised, OtherCommits, Step,
                  vars, state, JournalInvariant, TypeOK
    <2>2. TypeOK' /\ watch.count <= watch'.count
      BY <2>1 DEF JournalInvariant, TypeOK, Records
    <2> QED
      BY <2>1, <2>2, ReviewEndStep
  <1> QED
    BY <1>1, <1>2, <1>3 DEF Next

-----------------------------------------------------------------------------
(* The journal goes through its phases in order. *)

\* What the plans of maintain do to the fields that the cycle is about.
LEMMA CycleFields ==
    ASSUME NEW j \in Journals
    PROVE  /\ Restart(j).campaign = NoCampaign /\ Restart(j).offset = 0
           /\ EnterReview(j).campaign = j.campaign /\ EnterReview(j).offset = j.offset
           /\ EnterReview(j).end = j.end /\ EnterReview(j).phase = "review"
  <1>1. Restart(j).campaign = NoCampaign /\ Restart(j).offset = 0
    BY DEF Restart, Journals
  <1>2. /\ EnterReview(j).campaign = j.campaign /\ EnterReview(j).offset = j.offset
        /\ EnterReview(j).end = j.end /\ EnterReview(j).phase = "review"
    BY DEF EnterReview, Journals
  <1> QED
    BY <1>1, <1>2

\* Nothing is credited of a journal that has been restarted.
LEMMA RestartUncredits ==
    ASSUME NEW j \in Journals, NEW k, k.campaign = Restart(j).campaign, k.offset = Restart(j).offset
    PROVE  Uncredited(k)
  BY CycleFields DEF Uncredited, NoCampaign

\* Taking a step: what is planned follows the journal as it is.
LEMMA CyclePlanStep ==
    ASSUME JournalInvariant, CycleInvariant, NEW r \in Runners, NEW step, NEW j, NEW cutoff,
           Plan(r, step, j, cutoff),
           step = "persist" => Follows(j),
           step \in {"stage", "coverage"} => j = journal
    PROVE  CycleInvariant'
  <1>1. /\ calls'[r].step = step /\ calls'[r].journal = j
        /\ \A q \in Runners \ {r} : calls'[q] = calls[q]
        /\ fresh' = fresh \cup {r} /\ fresh \subseteq Runners
        /\ journal' = journal
    BY DEF Plan, JournalInvariant, TypeOK
  <1>2. PlanFollows(r)'
    BY <1>1 DEF PlanFollows, Follows, Uncredited
  <1>3. ASSUME NEW q \in fresh \ {r}
        PROVE  PlanFollows(q)'
    BY <1>1, <1>3 DEF CycleInvariant, PlanFollows, Follows, Uncredited
  <1> QED
    BY <1>1, <1>2, <1>3 DEF CycleInvariant, Uncredited

\* Taking the step that stores a journal: the reference to its predecessor is all
\* that is added.
LEMMA CyclePlanJournalStep ==
    ASSUME JournalInvariant, CycleInvariant, NEW r \in Runners, NEW j \in Journals,
           PlanJournal(r, j), Follows(j)
    PROVE  CycleInvariant'
  <1> DEFINE k == [j EXCEPT !.previous = journal.end]
  <1>1. /\ k.phase = j.phase /\ k.end = j.end
        /\ k.campaign = j.campaign /\ k.offset = j.offset
    BY DEF Journals
  <1>2. Plan(r, "persist", k, 0)
    BY DEF PlanJournal
  <1> HIDE DEF k
  <1>3. Follows(k)
    BY <1>1 DEF Follows, Uncredited
  <1> QED
    BY <1>2, <1>3, CyclePlanStep

\* The end of an invocation, and what the world does, leaves the plans of the others.
LEMMA CycleEndStep ==
    ASSUME JournalInvariant, CycleInvariant,
           \A q \in Runners : calls'[q] \in {calls[q], NoCall},
           journal' = journal, fresh' \in {fresh, {}}
    PROVE  CycleInvariant'
  <1>1. ASSUME NEW q \in fresh'
        PROVE  PlanFollows(q)'
    <2>1. q \in fresh /\ calls'[q] \in {calls[q], NoCall}
      BY <1>1 DEF JournalInvariant, TypeOK
    <2>2. CASE calls'[q] = NoCall
      BY <2>2 DEF PlanFollows, NoCall
    <2>3. CASE calls'[q] = calls[q]
      BY <2>1, <2>3 DEF CycleInvariant, PlanFollows, Follows, Uncredited
    <2> QED
      BY <2>1, <2>2, <2>3
  <1> QED
    BY <1>1 DEF CycleInvariant, Uncredited

\* Loading plans a journal that follows, in every phase.
LEMMA CycleLoadStep ==
    ASSUME JournalInvariant, CycleInvariant, NEW r \in Runners, NEW cutoff \in Ends,
           Load(r, cutoff)
    PROVE  CycleInvariant'
  <1>0. /\ TypeOK /\ journal.cursor <= watch.count /\ watch.count \in Nat /\ Credited(journal)
        /\ policy \in Revisions /\ trust \in Revisions
    BY DEF JournalInvariant, TypeOK, Records
  <1>1. ASSUME journal # NoJournal
        PROVE  journal \in Journals
    BY <1>0, <1>1 DEF TypeOK
  <1>2. ASSUME NEW phase \in Phases, InPhase(r, cutoff, phase)
        PROVE  /\ journal \in Journals /\ journal.phase = phase
               /\ phase \notin {"stage", "ready"} => Uncredited(journal)
    BY <1>1, <1>2 DEF InPhase, Phases, NoJournal, CycleInvariant
  <1>3. ASSUME NEW step, NEW j, NEW c, Plan(r, step, j, c),
               step \in {"backfill", "reconcile", "project"}
                  \/ (step \in {"stage", "coverage"} /\ j = journal)
        PROVE  CycleInvariant'
    BY <1>3, CyclePlanStep
  <1>4. ASSUME journal \in Journals, journal.phase \in {"backfill", "review"}, Uncredited(journal),
               PlanJournal(r, EnterReview(journal))
        PROVE  CycleInvariant'
    <2> DEFINE j == EnterReview(journal)
    <2>1. j \in Journals
      BY <1>0, <1>4, ReviewTypes
    <2>2. Follows(j)
      BY <1>4, CycleFields DEF Follows, Uncredited
    <2> QED
      BY <1>4, <2>1, <2>2, CyclePlanJournalStep
  <1>5. CASE StartsJournal(r, cutoff)
    <2>1. Initial(cutoff) \in Journals
      BY <1>0, MaintenanceAssumption DEF Initial, Journals, TypeOK, Phases, Records, Revisions
    <2>2. Follows(Initial(cutoff))
      BY <1>5 DEF StartsJournal, Follows, Uncredited, Initial, NoCampaign, NoJournal
    <2> QED
      BY <1>5, <2>1, <2>2, CyclePlanJournalStep DEF StartsJournal
  <1>6. CASE MeetsRevision(r, cutoff)
    <2> DEFINE j == Restart(journal)
               k == [j EXCEPT !.policy = policy, !.trust = trust]
    <2>1. /\ journal \in Journals /\ j \in Journals
          /\ j.phase = "backfill" /\ j.end = journal.end
          /\ j.campaign = NoCampaign /\ j.offset = 0
      BY <1>1, <1>6, RestartType, CycleFields DEF MeetsRevision
    <2>2. PlanJournal(r, k)
      BY <1>6 DEF MeetsRevision
    <2> HIDE DEF j
    <2>3. k \in Journals /\ k.phase = "backfill" /\ k.end = journal.end
      BY <1>0, <2>1, RevisedType
    <2>4. k.campaign = NoCampaign /\ k.offset = 0
      BY <2>1 DEF Journals
    <2> HIDE DEF k
    <2>5. Follows(k)
      BY <2>3, <2>4 DEF Follows, Uncredited, NoCampaign
    <2> QED
      BY <2>2, <2>3, <2>5, CyclePlanJournalStep
  <1>7. CASE InBackfill(r, cutoff)
    BY <1>2, <1>3, <1>4, <1>7 DEF InBackfill, Phases
  <1>8. CASE ReviewStartsOver(r, cutoff)
    BY <1>2, <1>4, <1>8 DEF ReviewStartsOver, Phases
  <1>9. CASE InReview(r, cutoff)
    <2>1. /\ journal \in Journals /\ journal.phase = "review" /\ Uncredited(journal)
      BY <1>2, <1>9 DEF InReview, Phases
    <2>2. Remaining(journal) \in Records
      BY <1>0, <2>1, RemainingType
    <2>3. CASE PlanJournal(r, [Restart(journal) EXCEPT !.phase = "checkpoint"])
      <3> DEFINE i == Restart(journal)
                 j == [i EXCEPT !.phase = "checkpoint"]
      <3>1. /\ i \in Journals /\ i.end = journal.end
            /\ i.campaign = NoCampaign /\ i.offset = 0
        BY <2>1, RestartType, CycleFields
      <3>2. PlanJournal(r, j)
        BY <2>3
      <3> HIDE DEF i
      <3>3. /\ j \in Journals /\ j.phase = "checkpoint" /\ j.end = journal.end
            /\ j.campaign = NoCampaign /\ j.offset = 0
        BY <3>1, JournalTypes DEF Phases, Journals
      <3> HIDE DEF j
      <3>4. Follows(j)
        BY <2>1, <3>3 DEF Follows, Uncredited, NoCampaign
      <3> QED
        BY <3>2, <3>3, <3>4, CyclePlanJournalStep
    <2>4. CASE PlanJournal(r, [journal EXCEPT !.remaining = Remaining(journal),
                                              !.observed = TRUE, !.cursor = watch.cursor])
      <3> DEFINE j == [journal EXCEPT !.remaining = Remaining(journal), !.observed = TRUE,
                                      !.cursor = watch.cursor]
      <3>1. j \in Journals /\ j.phase = "review"
        BY <1>0, <2>1, <2>2, ReviewTypes
      <3>2. j.end = journal.end /\ j.campaign = journal.campaign /\ j.offset = journal.offset
        BY <2>1 DEF Journals
      <3>3. PlanJournal(r, j)
        BY <2>4
      <3> HIDE DEF j
      <3>4. Follows(j)
        BY <2>1, <3>1, <3>2 DEF Follows, Uncredited
      <3> QED
        BY <3>1, <3>3, <3>4, CyclePlanJournalStep
    <2>5. CASE Plan(r, "reconcile", NoJournal, 0)
      BY <1>3, <2>5
    <2> QED
      BY <1>9, <2>3, <2>4, <2>5 DEF InReview
  <1>10. CASE InCheckpoint(r, cutoff)
    <2>1. journal \in Journals /\ journal.phase = "checkpoint"
      BY <1>2, <1>10 DEF InCheckpoint, Phases
    <2>2. CASE Plan(r, "project", journal, 0)
      BY <1>3, <2>2
    <2>3. CASE PlanJournal(r, [journal EXCEPT !.phase = "stage", !.campaign = Campaign,
                                              !.offset = 0])
      <3> DEFINE j1 == [journal EXCEPT !.phase = "stage"]
                 j2 == [j1 EXCEPT !.campaign = Campaign]
                 j3 == [j2 EXCEPT !.offset = 0]
      <3>0. Campaign \in Campaigns /\ 0 \in Records /\ "stage" \in Phases
        BY <1>0, <2>1, MaintenanceAssumption
           DEF Campaign, Campaigns, TypeOK, Journals, Records, Phases
      <3>1. j1 \in Journals /\ j1.phase = "stage" /\ j1.end = journal.end
        BY <2>1, <3>0, JournalTypes DEF Journals
      <3>2. j2 \in Journals /\ j2.phase = "stage" /\ j2.end = journal.end
        <4> HIDE DEF j1
        <4> QED BY <3>0, <3>1, JournalTypes DEF Journals
      <3>3. j3 \in Journals /\ j3.phase = "stage" /\ j3.end = journal.end /\ j3.offset = 0
        <4> HIDE DEF j2
        <4> QED BY <3>0, <3>2, JournalTypes DEF Journals
      <3>4. PlanJournal(r, j3)
        BY <2>3, Zenon
      <3> HIDE DEF j3
      <3>5. Follows(j3)
        BY <2>1, <3>3 DEF Follows
      <3> QED
        BY <3>3, <3>4, <3>5, CyclePlanJournalStep
    <2> QED
      BY <1>10, <2>2, <2>3 DEF InCheckpoint
  <1>11. CASE InStage(r, cutoff)
    <2>1. journal \in Journals /\ journal.phase = "stage"
      BY <1>2, <1>11 DEF InStage, Phases
    <2>2. CASE Plan(r, "stage", journal, 0)
      BY <1>3, <2>2
    <2>3. CASE /\ journal.offset >= journal.campaign.records
               /\ PlanJournal(r, [journal EXCEPT !.phase = "ready"])
      <3> DEFINE j == [journal EXCEPT !.phase = "ready"]
      <3>1. /\ j \in Journals /\ j.phase = "ready" /\ j.end = journal.end
            /\ j.campaign = journal.campaign /\ j.offset = journal.offset
        BY <2>1, JournalTypes DEF Phases, Journals
      <3>2. journal.offset = journal.campaign.records
        <4>1. journal.offset <= journal.campaign.records /\ journal.campaign \in Campaigns
          BY <1>0, <2>1 DEF Credited
        <4>2. journal.offset \in Int /\ journal.campaign.records \in Int
          BY <2>1, <4>1 DEF Campaigns, Journals, Records
        <4> QED
          BY <2>3, <4>1, <4>2
      <3> HIDE DEF j
      <3>3. Follows(j)
        BY <2>1, <3>1, <3>2 DEF Follows
      <3>4. PlanJournal(r, j)
        BY <2>3 DEF j
      <3> QED
        BY <3>1, <3>3, <3>4, CyclePlanJournalStep
    <2> QED
      BY <1>11, <2>2, <2>3 DEF InStage
  <1>12. CASE InReady(r, cutoff)
    BY <1>3, <1>12 DEF InReady
  <1> QED
    BY <1>5, <1>6, <1>7, <1>8, <1>9, <1>10, <1>11, <1>12 DEF Load

\* What an invocation stores, if anything, by the action that ends it.
LEMMA StoredJournal ==
    ASSUME JournalInvariant, CycleInvariant, NEW r \in Runners, r \in fresh, Act(r)
    PROVE  \/ journal' = journal
           \/ journal' \in Journals /\ Follows(journal')
           \/ /\ journal.phase = "stage" /\ journal'.phase = "stage"
              /\ journal.offset < journal.campaign.records
              /\ journal'.offset = journal.offset + 1
              /\ journal'.campaign = journal.campaign /\ journal'.end = journal.end
           \/ /\ journal.phase = "ready" /\ journal'.phase = "backfill" /\ Uncredited(journal')
              /\ journal'.end \in Ends /\ journal'.end >= journal.end
  <1>j. PICK j : j = calls[r].journal
    OBVIOUS
  <1>0. /\ TypeOK /\ CallFits(r) /\ PlanFollows(r)
    BY DEF JournalInvariant, CycleInvariant
  <1>1. CASE Persists(r)
    BY <1>j, <1>0, <1>1 DEF Persists, Step, Store, StoreAnyway, CallFits, PlanFollows
  <1>2. CASE Backfills(r) \/ Reconciles(r) \/ Projects(r) \/ Stages(r) \/ ReportsReady(r)
    BY <1>2 DEF Backfills, Reconciles, Projects, Stages, ReportsReady
  <1>3. CASE AlreadyStaged(r)
    <2>1. /\ j = journal /\ j \in Journals /\ j.phase = "stage" /\ j.offset < j.campaign.records
          /\ journal' = [j EXCEPT !.offset = j.offset + 1, !.previous = j.end]
      BY <1>j, <1>0, <1>3 DEF AlreadyStaged, Step, Store, StoreAnyway, CallFits, PlanFollows
    <2>2. /\ journal'.offset = j.offset + 1 /\ journal'.phase = j.phase
          /\ journal'.campaign = j.campaign /\ journal'.end = j.end
      BY <2>1 DEF Journals
    <2> QED
      BY <2>1, <2>2
  <1>4. CASE CoverageGap(r)
    <2>1. /\ j = journal /\ j \in Journals /\ j.phase = "ready"
          /\ journal' = [Restart(j) EXCEPT !.previous = j.end]
      BY <1>j, <1>0, <1>4 DEF CoverageGap, Step, Store, StoreAnyway, CallFits, PlanFollows
    <2>2. Restart(j) \in Journals /\ Restart(j).end = j.end /\ Restart(j).phase = "backfill"
      BY <2>1, RestartType
    <2>3. /\ journal'.phase = "backfill" /\ journal'.end = j.end
          /\ journal'.campaign = Restart(j).campaign /\ journal'.offset = Restart(j).offset
      BY <2>1, <2>2 DEF Journals
    <2>4. j.end \in Ends /\ j.end >= j.end
      BY <2>1 DEF Journals, Ends
    <2>5. Uncredited(journal')
      BY <2>1, <2>3, RestartUncredits
    <2> QED
      BY <2>1, <2>3, <2>4, <2>5
  <1>5. CASE NewInterval(r)
    <2> DEFINE c == calls[r].cutoff
    <2>1. /\ j = journal /\ j \in Journals /\ j.phase = "ready"
          /\ c > j.end /\ c \in 0..MaxEnd
          /\ journal' = [Restart(j) EXCEPT !.end = c, !.previous = j.end]
      BY <1>j, <1>0, <1>5 DEF NewInterval, Step, Store, StoreAnyway, CallFits, PlanFollows, TypeOK
    <2> HIDE DEF c
    <2>2. Restart(j) \in Journals /\ Restart(j).phase = "backfill"
      BY <2>1, RestartType
    <2>3. /\ journal'.phase = "backfill" /\ journal'.end = c
          /\ journal'.campaign = Restart(j).campaign /\ journal'.offset = Restart(j).offset
      BY <2>1, <2>2 DEF Journals
    <2>4. c \in Ends /\ c >= j.end
      BY <2>1, MaintenanceAssumption DEF Journals, Ends
    <2> QED
      BY <2>1, <2>3, <2>4, RestartUncredits
  <1> QED
    BY <1>1, <1>2, <1>3, <1>4, <1>5 DEF Act

\* Steps of an invocation whose load is no longer the head store nothing.
LEMMA StaleStoresNothing ==
    ASSUME NEW r \in Runners, r \notin fresh, Act(r)
    PROVE  journal' = journal
  BY DEF Act, Persists, Backfills, Reconciles, Projects, Stages, AlreadyStaged, CoverageGap,
         NewInterval, ReportsReady, Store

\* An action ends one invocation, and a commit ends the freshness of all loads.
LEMMA CycleActStep ==
    ASSUME JournalInvariant, CycleInvariant, NEW r \in Runners, Act(r)
    PROVE  CycleInvariant'
  <1>1. /\ calls' = [calls EXCEPT ![r] = NoCall] /\ fresh' \in {fresh, {}}
        /\ fresh' = {} \/ journal' = journal
    BY DEF Act, Persists, Backfills, Reconciles, Projects, Stages, AlreadyStaged, CoverageGap,
           NewInterval, ReportsReady, Store, StoreAnyway, Step
  <1>2. \A q \in Runners : calls'[q] \in {calls[q], NoCall}
    BY <1>1 DEF JournalInvariant, TypeOK
  <1>3. CASE journal' = journal
    BY <1>1, <1>2, <1>3, CycleEndStep
  <1>4. CASE journal' # journal
    <2>1. fresh' = {} /\ r \in fresh
      BY <1>1, <1>4, StaleStoresNothing
    <2>2. journal'.phase \notin {"stage", "ready"} => Uncredited(journal')
      BY <1>4, <2>1, StoredJournal DEF Follows
    <2> QED
      BY <2>1, <2>2 DEF CycleInvariant, Uncredited
  <1> QED
    BY <1>3, <1>4

LEMMA CycleKeeps ==
    ASSUME JournalInvariant, CycleInvariant, [Next]_vars
    PROVE  CycleInvariant'
  <1>1. CASE \E r \in Runners : \E cutoff \in Ends : Load(r, cutoff)
    BY <1>1, CycleLoadStep
  <1>2. CASE \E r \in Runners : Act(r)
    BY <1>2, CycleActStep
  <1>3. CASE \/ \E r \in Runners : RunnerLost(r)
             \/ RecordAppears \/ PolicyRevised \/ TrustRevised \/ OtherCommits
             \/ UNCHANGED vars
    <2>1. /\ \A q \in Runners : calls'[q] \in {calls[q], NoCall}
          /\ fresh' \in {fresh, {}} /\ journal' = journal
      BY <1>3 DEF RunnerLost, RecordAppears, PolicyRevised, TrustRevised, OtherCommits, Step,
                  vars, JournalInvariant, TypeOK
    <2> QED
      BY <2>1, CycleEndStep
  <1> QED
    BY <1>1, <1>2, <1>3 DEF Next

-----------------------------------------------------------------------------
\* Journals follow the lineage, what is credited is staged, and what a review has
\* counted is visited, for every number of overlapping invocations, cutoffs and
\* records and for every batch (lines 54-198).
THEOREM MaintenanceInvariantHolds == Spec => []MaintenanceInvariant
  <1>1. Init => ReviewInvariant
    BY DEF Init, ReviewInvariant, ReviewFits, WatchIsAhead, PlanReviews, NoJournal, NoCall
  <1>2. JournalInvariant /\ JournalInvariant' /\ ReviewInvariant /\ [Next]_vars => ReviewInvariant'
    BY ReviewKeeps
  <1>3. Init => CycleInvariant
    BY DEF Init, CycleInvariant, Uncredited, NoJournal, NoCampaign
  <1>4. JournalInvariant /\ CycleInvariant /\ [Next]_vars => CycleInvariant'
    BY CycleKeeps
  <1>5. JournalInvariant /\ ReviewInvariant /\ CycleInvariant => MaintenanceInvariant
    BY DEF MaintenanceInvariant
  <1> QED
    BY <1>1, <1>2, <1>3, <1>4, <1>5, JournalInvariantHolds, PTL DEF Spec

\* A review that is over has visited every row, unless one batch visits the whole
\* watch, however invocations, scans and losses interleave (lines 149-166).
THEOREM ReviewVisitsAllHolds == Spec => []ReviewVisitsAll
  <1>1. MaintenanceInvariant => ReviewVisitsAll
    BY DEF MaintenanceInvariant, ReviewInvariant, ReviewFits, ReviewVisitsAll
  <1> QED
    BY <1>1, MaintenanceInvariantHolds, PTL

\* A campaign that is ready is staged whole, unless the trust file changed between
\* its load and a stage (lines 181-191).
THEOREM StagedBeforeReadyHolds == Spec => []StagedBeforeReady
  <1>1. JournalInvariant => StagedBeforeReady
    BY DEF JournalInvariant, Credited, StagedBeforeReady
  <1> QED
    BY <1>1, JournalInvariantHolds, PTL

\* No overlap of invocations rewinds the interval (lines 106, 122-126, 196-198).
THEOREM IntervalNeverRewindsHolds == Spec => IntervalNeverRewinds
  <1>1. JournalInvariant /\ [Next]_vars => [journal'.end >= journal.end]_vars
    <2> SUFFICES ASSUME JournalInvariant, [Next]_vars
                 PROVE  journal'.end >= journal.end \/ UNCHANGED vars
      OBVIOUS
    <2>1. journal.end \in Nat
      BY MaintenanceAssumption
         DEF JournalInvariant, TypeOK, Journals, NoJournal, Ends
    <2>2. CASE journal' = journal
      BY <2>1, <2>2
    <2>3. ASSUME NEW r \in Runners, Persists(r) \/ AlreadyStaged(r) \/ CoverageGap(r) \/ NewInterval(r),
                 r \in fresh
          PROVE  journal'.end >= journal.end
      <3> PICK j : j = calls[r].journal
        OBVIOUS
      <3>1. CallFits(r) /\ j \in Journals /\ calls \in [Runners -> Calls]
        BY <2>3 DEF JournalInvariant, TypeOK, Calls, CallFits, Persists, AlreadyStaged,
                    CoverageGap, NewInterval, Step
      <3>2. j.end \in Nat /\ Restart(j).end = j.end /\ Restart(j) \in Journals
        <4>1. j.end \in Nat
          BY <3>1, MaintenanceAssumption DEF Journals, Ends
        <4> QED
          BY <3>1, <4>1, RestartType
      <3>3. CASE Persists(r)
        BY <2>3, <3>1, <3>3 DEF Persists, Step, Store, StoreAnyway, CallFits
      <3>4. CASE AlreadyStaged(r)
        <4>1. /\ journal' = [j EXCEPT !.offset = j.offset + 1, !.previous = j.end]
              /\ j.end = journal.end
          BY <2>3, <3>1, <3>4 DEF AlreadyStaged, Step, Store, StoreAnyway, CallFits
        <4>2. [j EXCEPT !.offset = j.offset + 1, !.previous = j.end].end = j.end
          BY <3>1 DEF Journals
        <4> QED
          BY <3>2, <4>1, <4>2
      <3>5. CASE CoverageGap(r)
        BY <2>1, <2>3, <3>1, <3>2, <3>5
           DEF CoverageGap, Step, Store, StoreAnyway, CallFits, Journals
      <3>6. CASE NewInterval(r)
        BY <2>1, <2>3, <3>1, <3>2, <3>6, MaintenanceAssumption
           DEF NewInterval, Step, Store, StoreAnyway, CallFits, Journals, Calls
      <3> QED
        BY <2>3, <3>3, <3>4, <3>5, <3>6
    <2>4. \/ journal' = journal
          \/ \E r \in Runners : /\ r \in fresh
                                /\ Persists(r) \/ AlreadyStaged(r) \/ CoverageGap(r) \/ NewInterval(r)
      <3>1. ASSUME NEW r \in Runners, NEW cutoff \in Ends, Load(r, cutoff)
            PROVE  journal' = journal
        BY <3>1 DEF Load, StartsJournal, MeetsRevision, InBackfill, ReviewStartsOver, InReview,
                    InCheckpoint, InStage, InReady, PlanJournal, Plan
      <3>2. ASSUME NEW r \in Runners, Act(r)
            PROVE  \/ journal' = journal
                   \/ /\ r \in fresh
                      /\ Persists(r) \/ AlreadyStaged(r) \/ CoverageGap(r) \/ NewInterval(r)
        BY <3>2 DEF Act, Persists, Backfills, Reconciles, Projects, Stages, AlreadyStaged,
                    CoverageGap, NewInterval, ReportsReady, Store
      <3>3. ASSUME \/ \E r \in Runners : RunnerLost(r)
                   \/ RecordAppears \/ PolicyRevised \/ TrustRevised \/ OtherCommits
                   \/ UNCHANGED vars
            PROVE  journal' = journal
        BY <3>3 DEF RunnerLost, RecordAppears, PolicyRevised, TrustRevised, OtherCommits, vars
      <3> QED
        BY <3>1, <3>2, <3>3 DEF Next
    <2> QED
      BY <2>2, <2>3, <2>4
  <1> QED
    BY <1>1, JournalInvariantHolds, PTL DEF Spec, IntervalNeverRewinds

\* Every step of the maintenance is a step of the cycle or leaves it alone.
LEMMA StepIsCycleStep ==
    ASSUME MaintenanceInvariant, [Next]_vars
    PROVE  [Cycle!CycleNext]_(Cycle!cycle)
  <1> USE DEF Cycle!cycle, Cycle!CycleNext
  <1>0. JournalInvariant /\ CycleInvariant
    BY DEF MaintenanceInvariant
  <1>1. CASE journal' = journal
    BY <1>1
  <1>2. CASE journal' # journal
    <2>1. PICK r \in Runners : r \in fresh /\ Act(r)
      <3>1. \E r \in Runners : Act(r)
        BY <1>2 DEF Next, vars, Load, StartsJournal, MeetsRevision, InBackfill, ReviewStartsOver, InReview,
                    InCheckpoint, InStage, InReady, PlanJournal, Plan, RunnerLost, RecordAppears, PolicyRevised,
                    TrustRevised, OtherCommits
      <3> QED
        BY <1>2, <3>1, StaleStoresNothing
    <2>2. CASE journal' \in Journals /\ Follows(journal')
      <3>1. journal'.end \in Ends /\ (journal.phase # "none" => journal'.end = journal.end)
        BY <2>2 DEF Journals, Follows
      <3>2. CASE journal'.phase = "backfill" /\ Uncredited(journal')
        <4>1. CASE journal.phase = "none"
          BY <3>1, <3>2, <4>1 DEF Cycle!Begin, Cycle!Goes, Uncredited
        <4>2. CASE journal.phase # "none"
          BY <3>1, <3>2, <4>2 DEF Cycle!GoBack, Cycle!Goes, Uncredited
        <4> QED
          BY <4>1, <4>2
      <3>3. CASE journal'.phase = "review" /\ journal.phase = "backfill" /\ Uncredited(journal')
        BY <3>1, <3>3 DEF Cycle!Scanned, Cycle!Goes, Uncredited
      <3>4. CASE journal'.phase = "review" /\ journal.phase = "review" /\ Uncredited(journal')
        <4>1. Uncredited(journal)
          BY <1>0, <3>4 DEF CycleInvariant
        <4> QED
          BY <3>1, <3>4, <4>1 DEF Uncredited
      <3>5. CASE journal'.phase = "checkpoint" /\ journal.phase = "review" /\ Uncredited(journal')
        BY <3>1, <3>5 DEF Cycle!Reviewed, Cycle!Goes, Uncredited
      <3>6. CASE journal'.phase = "stage" /\ journal.phase = "checkpoint" /\ journal'.offset = 0
        <4>1. JournalInvariant'
          BY <1>0, StepKeeps
        <4>2. journal'.campaign.records \in Records
          BY <3>6, <4>1 DEF JournalInvariant, Credited, Campaigns
        <4> QED
          BY <3>1, <3>6, <4>2 DEF Cycle!Projected
      <3>7. CASE /\ journal'.phase = "ready" /\ journal.phase = "stage"
                 /\ journal'.campaign = journal.campaign
                 /\ journal'.offset = journal.offset /\ journal'.offset = journal'.campaign.records
        BY <3>1, <3>7 DEF Cycle!Finish
      <3> QED
        BY <2>2, <3>2, <3>3, <3>4, <3>5, <3>6, <3>7 DEF Follows
    <2>3. CASE /\ journal.phase = "stage" /\ journal'.phase = "stage"
               /\ journal.offset < journal.campaign.records
               /\ journal'.offset = journal.offset + 1
               /\ journal'.campaign = journal.campaign /\ journal'.end = journal.end
      BY <2>3 DEF Cycle!Credit
    <2>4. CASE /\ journal.phase = "ready" /\ journal'.phase = "backfill" /\ Uncredited(journal')
               /\ journal'.end \in Ends /\ journal'.end >= journal.end
      <3>1. CASE journal'.end = journal.end
        BY <2>4, <3>1 DEF Cycle!GoBack, Cycle!Goes, Uncredited
      <3>2. CASE journal'.end # journal.end
        <4>1. journal.end \in Int /\ journal'.end \in Int
          BY <1>0, <2>4, MaintenanceAssumption
             DEF JournalInvariant, TypeOK, Journals, NoJournal, Ends
        <4>2. journal'.end > journal.end
          BY <2>4, <3>2, <4>1
        <4> QED
          BY <2>4, <4>2 DEF Cycle!NextInterval, Cycle!Goes, Uncredited
      <3> QED
        BY <3>1, <3>2
    <2> QED
      BY <1>0, <1>2, <2>1, <2>2, <2>3, <2>4, StoredJournal
  <1> QED
    BY <1>1, <1>2

\* The maintenance implements the reporting cycle, for every number of overlapping
\* invocations, cutoffs and records: no interleaving skips a phase, credits a fact
\* twice, or leaves an interval that is not ready (lines 97-200).
THEOREM MaintenanceImplementsCycle == Spec => ImplementsCycle
  <1>1. Init => Cycle!CycleInit
    BY DEF Init, Cycle!CycleInit, NoJournal, NoCampaign
  <1>2. MaintenanceInvariant /\ [Next]_vars => [Cycle!CycleNext]_(Cycle!cycle)
    BY StepIsCycleStep
  <1> QED
    BY <1>1, <1>2, MaintenanceInvariantHolds, PTL DEF Spec, ImplementsCycle, Cycle!Spec
=============================================================================
