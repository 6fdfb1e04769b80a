------------------------ MODULE FactoryProducerProofs -----------------------
(***************************************************************************)
(* However many events a candidate sees, a successful check links to a run *)
(* that has uploaded a signed proof of that head: EvidenceInvariant, by    *)
(* which the check that the run in progress started links to it, and its   *)
(* upload holds what its outcomes say.  And however the events fall out,   *)
(* the newest head is judged or a run that will judge it is on its way:    *)
(* NewestHeadIsAwaited, which needs GroupInvariant alone.                  *)
(***************************************************************************)
EXTENDS FactoryProducer, TLAPS

\* Entering the group keeps the run in progress, leaving it starts the next.
LEMMA GroupTypes ==
    ASSUME NEW g \in Groups(Runs)
    PROVE  /\ Leave(g) \in Groups(Runs)
           /\ \A r \in Runs : /\ Enter(g, r) \in Groups(Runs)
                              /\ g.running # Idle => Enter(g, r).running = g.running
  BY DEF Enter, Leave, Groups

\* An event counts, and keeps the run in progress.
LEMMA RaiseTypes ==
    ASSUME TypeOK, NEW h, NEW d \in BOOLEAN, Raise(h, d)
    PROVE  /\ events' \in 0..MaxEvents /\ group' \in Groups(Runs)
           /\ orphaned' \in BOOLEAN
           /\ InProgress => InProgress' /\ group'.running = group.running
  <1>1. events + 1 \in 1..MaxEvents
    BY ProducerAssumption DEF TypeOK, Raise
  <1>2. [id |-> events + 1, draft |-> d] \in Runs
    BY <1>1 DEF Runs
  <1>3. orphaned' \in BOOLEAN
    BY DEF Raise
  <1>4. /\ events' \in 0..MaxEvents /\ group' \in Groups(Runs)
        /\ InProgress => InProgress' /\ group'.running = group.running
    BY <1>1, <1>2, GroupTypes DEF TypeOK, Raise, InProgress
  <1> QED
    BY <1>3, <1>4, Zenon

\* Events leave the run in progress and what it has done alone.
LEMMA EventStep ==
    ASSUME EvidenceInvariant, NEW h, NEW d \in BOOLEAN, Raise(h, d),
           UNCHANGED <<run, check, artifacts>>, head' \in Heads, draft' \in BOOLEAN
    PROVE  EvidenceInvariant'
  <1>1. TypeOK'
    BY RaiseTypes DEF EvidenceInvariant, TypeOK, run
  <1>2. next > 0 => InProgress' /\ group'.running = group.running
    BY RaiseTypes DEF EvidenceInvariant
  <1>3. next = 5 => next > 0
    OBVIOUS
  <1> QED
    BY <1>1, <1>2, <1>3 DEF EvidenceInvariant, SuccessIsBacked, run

\* The end of a run leaves nothing in progress behind.
LEMMA EndRunStep ==
    ASSUME EvidenceInvariant, EndRun, UNCHANGED <<head, draft, events, artifacts>>,
           orphaned' \in BOOLEAN, SuccessIsBacked',
           check' \in [Heads -> [state : {"none", "in_progress", "success", "failure"},
                                 run : 0..MaxEvents]]
    PROVE  EvidenceInvariant'
  <1>1. next' = 0
    BY DEF EndRun, Fresh
  <1>2. TypeOK'
    BY GroupTypes DEF EvidenceInvariant, TypeOK, EndRun, Fresh, Outcomes
  <1> QED
    BY <1>1, <1>2 DEF EvidenceInvariant

LEMMA InvariantStep == EvidenceInvariant /\ [Next]_vars => EvidenceInvariant'
  <1> SUFFICES ASSUME EvidenceInvariant, [Next]_vars
               PROVE  EvidenceInvariant'
    OBVIOUS
  <1>0. TypeOK /\ SuccessIsBacked
    BY DEF EvidenceInvariant
  <1>1. CASE Push
    <2>1. head' \in Heads
      BY <1>0, <1>1, ProducerAssumption DEF Push, TypeOK, Heads
    <2> QED
      BY <1>0, <1>1, <2>1, EventStep DEF Push, TypeOK
  <1>2. CASE ReadyForReview
    BY <1>0, <1>2, EventStep DEF ReadyForReview, TypeOK
  <1>3. CASE Reopen
    BY <1>0, <1>3, EventStep DEF Reopen, TypeOK
  <1>4. CASE ConvertToDraft
    BY <1>4 DEF ConvertToDraft, EvidenceInvariant, TypeOK, SuccessIsBacked, InProgress, run
  <1>5. CASE SkippedByGuard \/ StartFails \/ RunLost
    <2>1. SuccessIsBacked'
      BY <1>0, <1>5 DEF SkippedByGuard, StartFails, RunLost, SuccessIsBacked
    <2> QED
      BY <1>0, <1>5, <2>1, EndRunStep DEF SkippedByGuard, StartFails, RunLost, TypeOK
  <1>6. CASE StartCheck
    <2>1. group.running \in Runs
      BY <1>0, <1>6 DEF StartCheck, InProgress, TypeOK, Groups
    <2>2. group.running.id \in 0..MaxEvents /\ head \in Heads
      BY <1>0, <2>1 DEF Runs, TypeOK
    <2>3. TypeOK'
      BY <1>0, <1>6, <2>2 DEF StartCheck, TypeOK
    <2>4. check'[head] = [state |-> "in_progress", run |-> group.running.id]
      BY <1>0, <1>6, <2>2 DEF StartCheck, TypeOK
    <2>5. \A h \in Heads \ {head} : check'[h] = check[h]
      BY <1>0, <1>6 DEF StartCheck, TypeOK
    <2>6. SuccessIsBacked'
      BY <1>0, <1>6, <2>4, <2>5 DEF StartCheck, SuccessIsBacked
    <2>7. head # NoHead
      BY <2>2 DEF Heads, NoHead
    <2> QED
      BY <1>6, <2>3, <2>4, <2>6, <2>7 DEF StartCheck, EvidenceInvariant, InProgress
  <1>7. CASE Step
    <2> DEFINE a == [run |-> group.running.id, head |-> started,
                     proof |-> outcome[1] = "success", signed |-> outcome[3] = "success"]
    <2>1. PICK o \in Outcomes :
             /\ outcome' = [outcome EXCEPT ![next] = o]
             /\ artifacts' = IF next = 4 /\ o = "success" THEN artifacts \cup {a} ELSE artifacts
      BY <1>7 DEF Step, CanEnd, Outcomes
    <2>2. next \in Steps /\ next > 0 /\ next' = next + 1
      BY <1>7 DEF Step, Steps
    <2>3. InProgress /\ started # NoHead /\ check[started].run = group.running.id
      BY <2>2 DEF EvidenceInvariant
    <2>4. group.running \in Runs /\ started \in Heads
      BY <1>0, <2>3 DEF InProgress, TypeOK, Groups
    <2>5. a \in [run : 1..MaxEvents, head : Heads, proof : BOOLEAN, signed : BOOLEAN]
      BY <2>4 DEF Runs
    <2>6. TypeOK'
      <3>1. artifacts' \subseteq [run : 1..MaxEvents, head : Heads, proof : BOOLEAN, signed : BOOLEAN]
        BY <1>0, <2>1, <2>5 DEF TypeOK
      <3>2. outcome' \in [Steps -> Outcomes] /\ next' \in 0..5
        BY <1>0, <2>1, <2>2 DEF TypeOK, Steps
      <3> QED
        BY <1>0, <1>7, <3>1, <3>2 DEF Step, TypeOK
    <2>7. SuccessIsBacked'
      BY <1>0, <1>7, <2>1 DEF Step, SuccessIsBacked
    <2>8. next' = 5 /\ outcome'[4] = "success" => a \in artifacts'
      BY <1>0, <2>1, <2>2 DEF TypeOK, Steps
    <2>9. next' = 5 => outcome'[1] = outcome[1] /\ outcome'[3] = outcome[3]
      BY <1>0, <2>1, <2>2 DEF TypeOK, Steps
    <2> QED
      BY <1>7, <2>2, <2>3, <2>6, <2>7, <2>8, <2>9 DEF Step, EvidenceInvariant, InProgress
  <1>8. CASE CompleteCheck
    <2>1. InProgress /\ next = 5 /\ started \in Heads
      BY <1>0, <1>8 DEF CompleteCheck, TypeOK
    <2>2. check' = [check EXCEPT ![started].state = Verdict] /\ Verdict \in {"success", "failure"}
      BY <1>8 DEF CompleteCheck, Verdict
    <2>3. check' \in [Heads -> [state : {"none", "in_progress", "success", "failure"},
                                run : 0..MaxEvents]]
      BY <1>0, <2>1, <2>2 DEF TypeOK
    <2>4. /\ check'[started].run = group.running.id /\ check'[started].state = Verdict
          /\ \A h \in Heads \ {started} : check'[h] = check[h]
      BY <1>0, <2>1, <2>2 DEF TypeOK, EvidenceInvariant
    <2>5. Verdict = "success" =>
            [run |-> group.running.id, head |-> started, proof |-> TRUE, signed |-> TRUE]
               \in artifacts
      <3> SUFFICES ASSUME Verdict = "success"
                   PROVE  [run |-> group.running.id, head |-> started, proof |-> TRUE,
                           signed |-> TRUE] \in artifacts
        OBVIOUS
      <3>1. \A s \in Steps : outcome[s] = "success"
        BY DEF Verdict
      <3>2. outcome[1] = "success" /\ outcome[3] = "success" /\ outcome[4] = "success"
        BY <3>1 DEF Steps
      <3>3. (outcome[1] = "success") = TRUE /\ (outcome[3] = "success") = TRUE
        BY <3>2
      <3>4. [run |-> group.running.id, head |-> started, proof |-> outcome[1] = "success",
             signed |-> outcome[3] = "success"] \in artifacts
        BY <2>1, <3>2 DEF EvidenceInvariant
      <3> QED
        BY <3>3, <3>4, Zenon
    <2>6. SuccessIsBacked'
      <3> SUFFICES ASSUME NEW h \in Heads, check'[h].state = "success"
                   PROVE  [run |-> check'[h].run, head |-> h, proof |-> TRUE,
                           signed |-> TRUE] \in artifacts
        BY <1>8 DEF CompleteCheck, SuccessIsBacked
      <3>1. CASE h = started
        BY <2>4, <2>5, <3>1, Zenon
      <3>2. CASE h # started
        BY <1>0, <2>4, <3>2 DEF SuccessIsBacked
      <3> QED
        BY <3>1, <3>2
    <2> QED
      BY <1>0, <1>8, <2>3, <2>6, EndRunStep DEF CompleteCheck, TypeOK
  <1>9. CASE UNCHANGED vars
    BY <1>9 DEF vars, run, EvidenceInvariant, TypeOK, SuccessIsBacked, InProgress
  <1> QED
    BY <1>1, <1>2, <1>3, <1>4, <1>5, <1>6, <1>7, <1>8, <1>9 DEF Next

\* The part about the evidence holds of every behaviour.
LEMMA EvidenceInvariantHolds == Spec => []EvidenceInvariant
  <1>1. Init => EvidenceInvariant
    <2> SUFFICES ASSUME Init
                 PROVE  EvidenceInvariant
      OBVIOUS
    <2>1. EmptyGroup \in Groups(Runs) /\ [id |-> 1, draft |-> draft] \in Runs
      BY ProducerAssumption DEF Init, EmptyGroup, Groups, Runs
    <2>2. group \in Groups(Runs)
      BY <2>1, GroupTypes DEF Init
    <2>3. 1 \in Heads /\ 1 \in 0..MaxEvents /\ 0 \in 0..MaxEvents
      BY ProducerAssumption DEF Heads
    <2>4. check \in [Heads -> [state : {"none", "in_progress", "success", "failure"},
                               run : 0..MaxEvents]]
      BY <2>3 DEF Init
    <2>5. outcome \in [Steps -> Outcomes]
      BY DEF Init, Outcomes
    <2>6. TypeOK
      <3>1. head \in Heads /\ draft \in BOOLEAN /\ events \in 0..MaxEvents /\ orphaned \in BOOLEAN
        BY <2>3, Zenon DEF Init
      <3>2. next \in 0..5 /\ started \in Heads \cup {NoHead} /\ artifacts = {}
        BY DEF Init
      <3> QED
        BY <2>2, <2>4, <2>5, <3>1, <3>2 DEF TypeOK
    <2> QED
      BY <2>6 DEF Init, EvidenceInvariant, SuccessIsBacked
  <1> QED
    BY <1>1, InvariantStep, PTL DEF Spec

-----------------------------------------------------------------------------
(* The concurrency group, and what it owes the newest head. *)

LEMMA EnterPlaces ==
    ASSUME NEW g \in Groups(Runs), NEW r
    PROVE  /\ g.running # Idle => Enter(g, r).running = g.running /\ Enter(g, r).waiting = r
           /\ g.running = Idle => Enter(g, r).running = r /\ Enter(g, r).waiting = g.waiting
  BY DEF Enter, Groups

\* A run that is raised runs if the group is free, and waits otherwise.
LEMMA RaiseEnters ==
    ASSUME TypeOK, GroupInvariant, NEW h, NEW d \in BOOLEAN, Raise(h, d)
    PROVE  /\ InProgress'
           /\ InProgress => group'.running = group.running
           /\ LET r == [id |-> events + 1, draft |-> d]
              IN  \/ InProgress /\ group'.waiting = r
                  \/ ~ InProgress /\ group'.running = r /\ group'.waiting = Idle
  <1> DEFINE r == [id |-> events + 1, draft |-> d]
  <1>1. r \in [id : Nat, draft : BOOLEAN] /\ r # Idle
    BY ProducerAssumption DEF TypeOK
  <1>2. group \in Groups(Runs) /\ group' = Enter(group, r)
    BY DEF TypeOK, Raise
  <1> HIDE DEF r
  <1>3. ASSUME InProgress
        PROVE  InProgress' /\ group'.running = group.running /\ group'.waiting = r
    BY <1>2, <1>3, EnterPlaces DEF InProgress
  <1>4. ASSUME ~ InProgress
        PROVE  InProgress' /\ group'.running = r /\ group'.waiting = Idle
    BY <1>1, <1>2, <1>4, EnterPlaces DEF InProgress, GroupInvariant
  <1> QED
    BY <1>3, <1>4 DEF r

\* The end of a run makes the one that waits the run in progress, at its first step.
LEMMA EndRunServes ==
    ASSUME EndRun
    PROVE  /\ group'.running = group.waiting /\ group'.waiting = Idle
           /\ next' = 0
  BY DEF EndRun, Leave, Fresh

\* Nothing waits for a group that is free, and what waits carries a draft flag only
\* while the candidate is a draft.
LEMMA GroupStep == EvidenceInvariant /\ GroupInvariant /\ [Next]_vars => GroupInvariant'
  <1> SUFFICES ASSUME EvidenceInvariant, GroupInvariant, [Next]_vars
               PROVE  GroupInvariant'
    OBVIOUS
  <1>0. TypeOK /\ (next > 0 => InProgress)
    BY DEF EvidenceInvariant
  <1>1. ASSUME NEW h, NEW d \in BOOLEAN, Raise(h, d), d => draft', UNCHANGED run
        PROVE  GroupInvariant'
    <2> DEFINE r == [id |-> events + 1, draft |-> d]
    <2>1. /\ InProgress' /\ (InProgress => group'.running = group.running)
          /\ group'.waiting \in {r, Idle}
      BY <1>0, <1>1, RaiseEnters
    <2>2. r.draft => draft'
      BY <1>1
    <2> HIDE DEF r
    <2> QED
      BY <1>0, <1>1, <2>1, <2>2 DEF GroupInvariant, run
  <1>2. CASE Push \/ ReadyForReview \/ Reopen
    <2>1. CASE ReadyForReview
      BY <1>1, <2>1 DEF ReadyForReview
    <2>2. CASE Push \/ Reopen
      <3>1. PICK h : Raise(h, draft) /\ UNCHANGED <<draft, run>>
        BY <2>2 DEF Push, Reopen
      <3>2. draft \in BOOLEAN /\ (draft => draft')
        BY <1>0, <3>1 DEF TypeOK
      <3> QED
        BY <1>1, <3>1, <3>2
    <2> QED
      BY <1>2, <2>1, <2>2
  <1>3. CASE ConvertToDraft
    BY <1>3 DEF ConvertToDraft, GroupInvariant, InProgress, run
  <1>4. CASE EndRun
    BY <1>4, EndRunServes DEF GroupInvariant, InProgress
  <1>5. CASE StartCheck
    BY <1>5 DEF StartCheck, GroupInvariant, InProgress
  <1>6. CASE Step
    BY <1>6 DEF Step, Steps, GroupInvariant, InProgress
  <1>7. CASE UNCHANGED vars
    BY <1>7 DEF vars, run, GroupInvariant, InProgress
  <1> QED
    BY <1>2, <1>3, <1>4, <1>5, <1>6, <1>7
       DEF Next, SkippedByGuard, CompleteCheck, StartFails, RunLost

\* The run in progress owns its check, for any number of events: it links to it, holds
\* what the outcomes say, has passed the guard, and nothing waits without a run in
\* progress or with another draft flag than the candidate's (factory-verification.yml).
THEOREM RunInvariantHolds == Spec => []RunInvariant
  <1>1. Init => GroupInvariant
    <2> SUFFICES ASSUME Init
                 PROVE  GroupInvariant
      OBVIOUS
    <2>1. group.waiting = Idle /\ next = 0
      BY DEF Init, Enter, EmptyGroup
    <2> QED
      BY <2>1 DEF GroupInvariant
  <1>2. EvidenceInvariant /\ GroupInvariant => RunInvariant
    BY DEF RunInvariant
  <1> QED
    BY <1>1, <1>2, GroupStep, EvidenceInvariantHolds, PTL DEF Spec

\* A successful check is backed by its own run's signed proof of that head, for
\* any number of pushes, reopenings and draft changes.
THEOREM SuccessIsBackedHolds == Spec => []SuccessIsBacked
  <1>1. RunInvariant => SuccessIsBacked
    BY DEF RunInvariant, EvidenceInvariant
  <1> QED
    BY <1>1, RunInvariantHolds, PTL

\* Every event that makes a head to judge raises a run, and every end of a run is a
\* verdict, makes room for the run that waits, or orphans the candidate.
LEMMA AwaitedStep ==
    RunInvariant /\ NewestHeadIsAwaited /\ [Next]_vars => NewestHeadIsAwaited'
  <1> SUFFICES ASSUME RunInvariant, NewestHeadIsAwaited, [Next]_vars
               PROVE  NewestHeadIsAwaited'
    OBVIOUS
  <1>0. TypeOK /\ GroupInvariant /\ (next > 0 => InProgress)
    BY DEF RunInvariant, EvidenceInvariant
  <1>1. ASSUME NEW h, Raise(h, FALSE), UNCHANGED run
        PROVE  NewestHeadIsAwaited'
    <2> DEFINE r == [id |-> events + 1, draft |-> FALSE]
    <2>1. /\ InProgress'
          /\ \/ InProgress /\ group'.waiting = r
             \/ ~ InProgress /\ group'.running = r
      BY <1>0, <1>1, RaiseEnters, FALSE \in BOOLEAN
    <2>2. events + 1 \in Nat
      BY <1>0, ProducerAssumption DEF TypeOK
    <2>3. r # Idle
      <3>1. \A n \in Nat, b \in BOOLEAN : [id |-> n, draft |-> b] # Idle
        BY ProducerAssumption
      <3> QED
        BY <2>2, <3>1, Zenon
    <2>4. ~ r.draft
      OBVIOUS
    <2>5. ~ InProgress => next' = 0
      BY <1>0, <1>1 DEF TypeOK, run
    <2> HIDE DEF r
    <2> QED
      BY <2>1, <2>3, <2>4, <2>5 DEF NewestHeadIsAwaited
  <1>2. CASE Push \/ ReadyForReview \/ Reopen
    <2>1. CASE draft'
      BY <2>1 DEF NewestHeadIsAwaited
    <2>2. CASE ~ draft'
      <3>1. \E h : Raise(h, FALSE) /\ UNCHANGED run
        <4>1. draft = FALSE \/ ReadyForReview
          BY <1>0, <1>2, <2>2 DEF Push, Reopen, TypeOK
        <4> QED
          BY <1>2, <4>1 DEF Push, ReadyForReview, Reopen
      <3> QED
        BY <1>1, <3>1
    <2> QED
      BY <2>1, <2>2
  <1>3. CASE ConvertToDraft
    BY <1>3 DEF ConvertToDraft, NewestHeadIsAwaited
  <1>4. CASE SkippedByGuard
    <2>1. EndRun /\ group.running.draft /\ UNCHANGED <<head, draft, check, orphaned>>
      BY <1>4 DEF SkippedByGuard
    <2> QED
      BY <2>1, EndRunServes DEF NewestHeadIsAwaited, InProgress, Judged
  <1>5. CASE StartCheck
    BY <1>5 DEF StartCheck, NewestHeadIsAwaited, InProgress
  <1>6. CASE Step
    BY <1>0, <1>6 DEF Step, Steps, NewestHeadIsAwaited, InProgress, Judged
  <1>7. CASE CompleteCheck
    <2>1. EndRun /\ next = 5 /\ UNCHANGED <<head, draft, orphaned>>
      BY <1>7 DEF CompleteCheck
    <2>2. /\ check' = [check EXCEPT ![started].state = Verdict]
          /\ Verdict \in {"success", "failure"} /\ head \in Heads
      BY <1>0, <1>7 DEF CompleteCheck, Verdict, TypeOK
    <2>3. CASE Judged
      <3>1. Judged'
        BY <1>0, <2>1, <2>2, <2>3 DEF Judged, TypeOK
      <3> QED
        BY <3>1 DEF NewestHeadIsAwaited
    <2>4. CASE started = head
      <3>1. Judged'
        BY <1>0, <2>1, <2>2, <2>4 DEF Judged, TypeOK
      <3> QED
        BY <3>1 DEF NewestHeadIsAwaited
    <2>5. CASE draft \/ orphaned \/ (group.waiting # Idle /\ ~ group.waiting.draft)
      BY <2>1, <2>5, EndRunServes DEF NewestHeadIsAwaited, InProgress
    <2> QED
      BY <2>1, <2>3, <2>4, <2>5 DEF NewestHeadIsAwaited
  <1>8. CASE StartFails \/ RunLost
    <2>1. EndRun /\ orphaned' = (group.waiting = Idle) /\ UNCHANGED draft
      BY <1>8 DEF StartFails, RunLost
    <2>2. CASE group.waiting = Idle
      BY <2>1, <2>2 DEF NewestHeadIsAwaited
    <2>3. CASE group.waiting # Idle
      <3>1. group.waiting.draft => draft
        BY <1>0, <2>3 DEF GroupInvariant
      <3> QED
        BY <2>1, <2>3, <3>1, EndRunServes DEF NewestHeadIsAwaited, InProgress
    <2> QED
      BY <2>2, <2>3
  <1>9. CASE UNCHANGED vars
    BY <1>9 DEF vars, run, NewestHeadIsAwaited, InProgress, Judged
  <1> QED
    BY <1>2, <1>3, <1>4, <1>5, <1>6, <1>7, <1>8, <1>9 DEF Next

\* The newest head of a candidate that is no draft is judged, or a run that will judge
\* it is in progress or waits, for any number of pushes, reopenings and draft changes
\* and whatever they displace, unless the run of the last event was refused or lost.
THEOREM NewestHeadIsAwaitedHolds == Spec => []NewestHeadIsAwaited
  <1>1. Init => NewestHeadIsAwaited
    <2> SUFFICES ASSUME Init
                 PROVE  NewestHeadIsAwaited
      OBVIOUS
    <2> DEFINE r == [id |-> 1, draft |-> draft]
    <2>1. r \in [id : Nat, draft : BOOLEAN] /\ r # Idle /\ r.draft = draft
      BY ProducerAssumption DEF Init
    <2>2. group.running = r /\ next = 0
      BY DEF Init, Enter, EmptyGroup
    <2> HIDE DEF r
    <2> QED
      BY <2>1, <2>2 DEF NewestHeadIsAwaited, InProgress
  <1> QED
    BY <1>1, AwaitedStep, RunInvariantHolds, PTL DEF Spec
=============================================================================
