------------------------- MODULE FactoryMergeProofs -------------------------
(***************************************************************************)
(* For every number of candidates, checks and heads, a run that an event   *)
(* raised merges only while main's policy enables merging: a branch that   *)
(* is up to date carries evidence of main's policy, a reading that says    *)
(* ready carries evidence of the run's policy, and the mode of a run is    *)
(* its policy (EvidenceInvariant).  And a candidate that could be merged   *)
(* is waited for by an evaluation: ReadyIsAwaited, which needs besides     *)
(* that nothing waits for a group that is free (GroupInvariant).           *)
(***************************************************************************)
EXTENDS FactoryMerge, TLAPS

\* The three things a run may be, and that they differ.
LEMMA RunInProgress ==
    ASSUME TypeOK, Evaluating
    PROVE  group.running \in Requests /\ group.running.pr \in PRs
  BY DEF TypeOK, Groups, Evaluating, Requests

\* What a request may be.
LEMMA RequestTypes ==
    ASSUME TypeOK, NEW p \in PRs
    PROVE  /\ FromWorkflowRun(p) \in Requests
           /\ \A mode \in {"merge", "shadow"} : FromDispatch(p, mode) \in Requests
  BY DEF TypeOK, FromWorkflowRun, FromDispatch, Requests

\* Entering the group keeps its type and the run in progress, if there is one.
LEMMA EnterType ==
    ASSUME NEW g \in Groups(Requests \cup {Futile}), NEW r \in Requests \cup {Futile}
    PROVE  /\ Enter(g, r) \in Groups(Requests \cup {Futile})
           /\ g.running # Idle => Enter(g, r).running = g.running
           /\ Enter(g, r).running \in {g.running, r}
           /\ Enter(g, r).waiting \in {g.waiting, r}
  BY DEF Enter, Groups

\* Leaving it too.
LEMMA LeaveType ==
    ASSUME NEW g \in Groups(Requests \cup {Futile})
    PROVE  /\ Leave(g) \in Groups(Requests \cup {Futile})
           /\ Leave(g).running = g.waiting /\ Leave(g).waiting = Idle
  BY DEF Leave, Groups

\* A new head has the type of a candidate.
LEMMA NewHeadType ==
    ASSUME TypeOK, NEW p \in PRs, NEW head \in Heads, NEW current \in BOOLEAN,
           NewHead(p, head, current)
    PROVE  /\ pr' \in [PRs -> Candidates]
           /\ \A q \in PRs \ {p} : pr'[q] = pr[q]
           /\ pr'[p].state = "open" /\ pr'[p].head = head
           /\ pr'[p].current = current /\ pr'[p].evidence = policy
  BY DEF TypeOK, NewHead, Candidates, Results

LEMMA StepKeepsType == TypeOK /\ [Next]_vars => TypeOK'
  <1> SUFFICES ASSUME TypeOK, [Next]_vars
               PROVE  TypeOK'
    OBVIOUS
  <1>1. ASSUME NEW verdicts, CountGreen(verdicts)
        PROVE  greenSince' \in SUBSET PRs
    BY <1>1 DEF CountGreen, TypeOK
  <1>2. ASSUME NEW r \in Requests \cup {Futile}, Ask(r)
        PROVE  group' \in Groups(Requests \cup {Futile}) /\ lost' \in BOOLEAN
    <2>1. group' \in Groups(Requests \cup {Futile})
      BY <1>2, EnterType DEF Ask, TypeOK
    <2>2. (lost \/ Displaces(r)) \in BOOLEAN
      OBVIOUS
    <2> QED
      BY <1>2, <2>1, <2>2, Zenon DEF Ask
  <1>3. ASSUME EndRun
        PROVE  /\ group' \in Groups(Requests \cup {Futile})
               /\ seen' \in [head : Heads \cup {0}, ready : BOOLEAN]
    BY <1>3, LeaveType DEF EndRun, TypeOK, Nothing
  <1>4. ASSUME NEW p \in PRs, NEW c \in Checks, CheckCompletes(p, c) \/ RunAgain(p, c)
        PROVE  TypeOK'
    <2>1. PICK result \in Results \cup {"pending"} : pr' = [pr EXCEPT ![p].checks[c] = result]
      BY <1>4 DEF CheckCompletes, RunAgain
    <2>2. pr[p] \in Candidates /\ pr[p].checks \in [Checks -> Results \cup {"pending"}]
      BY DEF TypeOK, Candidates
    <2>3. [pr[p].checks EXCEPT ![c] = result] \in [Checks -> Results \cup {"pending"}]
      BY <2>2
    <2>4. [pr[p] EXCEPT !.checks = [pr[p].checks EXCEPT ![c] = result]] \in Candidates
      BY <2>2, <2>3 DEF Candidates
    <2>5. pr' = [pr EXCEPT ![p] = [pr[p] EXCEPT !.checks = [pr[p].checks EXCEPT ![c] = result]]]
      BY <2>1, <2>2
    <2>6. pr' \in [PRs -> Candidates]
      BY <2>4, <2>5 DEF TypeOK
    <2> QED
      <3>1. CASE CheckCompletes(p, c)
        <4>1. PICK r \in Requests \cup {Futile} : Ask(r)
          BY <3>1, RequestTypes DEF CheckCompletes
        <4>2. CountGreen({}) /\ UNCHANGED <<policy, seen>>
          BY <3>1 DEF CheckCompletes
        <4> QED
          BY <1>1, <1>2, <2>6, <4>1, <4>2 DEF TypeOK
      <3>2. CASE RunAgain(p, c)
        BY <1>1, <2>6, <3>2 DEF RunAgain, TypeOK
      <3> QED
        BY <1>4, <3>1, <3>2
  <1>5. ASSUME NEW p \in PRs,
               OldCheckCompletes(p) \/ AutoMergeRequests(p) \/ OperatorDispatches(p)
        PROVE  TypeOK'
    BY <1>1, <1>2, <1>5, RequestTypes
       DEF OldCheckCompletes, AutoMergeRequests, OperatorDispatches, TypeOK
  <1>6. CASE SkippedRunCompletes \/ \E p \in PRs : RunWithoutArtifact(p)
    BY <1>1, <1>2, <1>6 DEF SkippedRunCompletes, RunWithoutArtifact, TypeOK
  <1>7. ASSUME NEW p \in PRs, Open(p)
        PROVE  TypeOK'
    <2>1. 1 \in Heads
      BY MergeAssumption DEF Heads
    <2>2. pr' \in [PRs -> Candidates]
      BY <1>7, <2>1, NewHeadType DEF Open
    <2> QED
      BY <1>1, <1>7, <2>2 DEF Open, TypeOK
  <1>8. ASSUME NEW p \in PRs, Push(p)
        PROVE  TypeOK'
    <2>1. pr[p].head + 1 \in Heads /\ pr[p].current \in BOOLEAN
      BY <1>8, MergeAssumption DEF Push, Heads, TypeOK, Candidates
    <2>2. pr' \in [PRs -> Candidates]
      BY <1>8, <2>1, NewHeadType DEF Push
    <2> QED
      BY <1>1, <1>8, <2>2 DEF Push, TypeOK
  <1>9. CASE Observe
    <2>1. pr[group.running.pr] \in Candidates
      BY <1>9, RunInProgress DEF Observe, TypeOK
    <2>2. seen' \in [head : Heads \cup {0}, ready : BOOLEAN]
      BY <1>9, <2>1 DEF Observe, Candidates, Ready, Green
    <2> QED
      BY <1>1, <1>9, <2>2 DEF Observe, TypeOK
  <1>10. CASE Merge
    <2>1. \A q \in PRs : /\ [pr[q] EXCEPT !.state = "merged", !.eligible = "success"] \in Candidates
                         /\ [pr[q] EXCEPT !.current = FALSE] \in Candidates
      <3> SUFFICES ASSUME NEW q \in PRs
                   PROVE  /\ [pr[q] EXCEPT !.state = "merged", !.eligible = "success"] \in Candidates
                          /\ [pr[q] EXCEPT !.current = FALSE] \in Candidates
        OBVIOUS
      <3>1. pr[q] \in Candidates
        BY DEF TypeOK
      <3> QED
        BY <3>1 DEF Candidates, Results
    <2>2. pr' \in [PRs -> Candidates]
      BY <1>10, <2>1, Zenon DEF Merge
    <2> QED
      BY <1>1, <1>3, <1>10, <2>2 DEF Merge, TypeOK
  <1>11. CASE Conclude
    <2> DEFINE p == group.running.pr
    <2>1. PICK verdict \in Results : Publish(p, verdict)
      BY <1>11 DEF Conclude, Results
    <2>2. p \in PRs
      BY <1>11, RunInProgress DEF Conclude
    <2>3. PICK e \in Results \cup {"none"} : pr' = [pr EXCEPT ![p].eligible = e]
      <3>1. pr[p].eligible \in Results \cup {"none"}
        BY <2>2 DEF TypeOK, Candidates
      <3>2. CASE pr[p].head = seen.head
        BY <2>1, <3>2, Zenon DEF Publish
      <3>3. CASE pr[p].head # seen.head
        BY <2>1, <3>1, <3>3, Zenon DEF Publish
      <3> QED
        BY <3>2, <3>3
    <2>4. [pr[p] EXCEPT !.eligible = e] \in Candidates
      <3>1. \A x \in Candidates : [x EXCEPT !.eligible = e] \in Candidates
        BY <2>3 DEF Candidates
      <3>2. pr[p] \in Candidates
        BY <2>2 DEF TypeOK
      <3> QED
        BY <3>1, <3>2
    <2>5. pr' \in [PRs -> Candidates]
      BY <2>2, <2>3, <2>4 DEF TypeOK
    <2> QED
      BY <1>1, <1>3, <1>11, <2>5 DEF Conclude, TypeOK
  <1>12. CASE HardFailure \/ FutileRunEnds
    <2>1. (lost \/ Mergeable(group.running.pr)) \in BOOLEAN
      OBVIOUS
    <2>2. lost' \in BOOLEAN
      BY <1>12, <2>1, Zenon DEF HardFailure, FutileRunEnds, TypeOK
    <2> QED
      BY <1>1, <1>3, <1>12, <2>2 DEF HardFailure, FutileRunEnds, TypeOK
  <1>13. CASE ChangePolicy
    <2>1. \A p \in PRs : [pr[p] EXCEPT !.current = FALSE] \in Candidates
      BY DEF TypeOK, Candidates
    <2>2. pr' \in [PRs -> Candidates]
      BY <1>13, <2>1, Zenon DEF ChangePolicy
    <2> QED
      BY <1>1, <1>13, <2>2 DEF ChangePolicy, TypeOK
  <1>14. CASE UNCHANGED vars
    BY <1>14 DEF vars, TypeOK
  <1> QED
    BY <1>4, <1>5, <1>6, <1>7, <1>8, <1>9, <1>10, <1>11, <1>12, <1>13, <1>14 DEF Next

\* EvidenceInvariant without ReadingIsCounted, on which the rest does not depend
BoundInvariant == TypeOK /\ CurrentIsBound /\ ReadingIsBound /\ ModeIsPolicy

\* Steps that leave a candidate's head, state, evidence and place relative to
\* main alone, and leave the reading alone, keep the three bindings if the group
\* changes by a request.
LEMMA RequestStep ==
    ASSUME BoundInvariant, TypeOK', UNCHANGED <<policy, seen>>,
           NEW r \in Requests \cup {Futile}, Ask(r) \/ UNCHANGED group,
           r # Futile /\ r.event = "workflow_run" => (r.mode = "merge" <=> r.policy),
           \A q \in PRs : /\ pr'[q].state = pr[q].state /\ pr'[q].head = pr[q].head
                          /\ pr'[q].current = pr[q].current
                          /\ pr'[q].evidence = pr[q].evidence
    PROVE  BoundInvariant'
  <1>1. group \in Groups(Requests \cup {Futile})
    BY DEF BoundInvariant, TypeOK
  <1>2. /\ group.running # Idle => group'.running = group.running
        /\ group'.running \in {group.running, r} /\ group'.waiting \in {group.waiting, r}
    BY <1>1, EnterType DEF Ask
  <1>3. CurrentIsBound'
    BY DEF BoundInvariant, CurrentIsBound
  <1>4. ModeIsPolicy'
    BY <1>2 DEF BoundInvariant, ModeIsPolicy
  <1>5. ReadingIsBound'
    <2>1. CASE ~ seen.ready
      BY <2>1 DEF ReadingIsBound
    <2>2. CASE seen.ready
      <3>1. Evaluating /\ group'.running = group.running
        BY <1>2, <2>2 DEF BoundInvariant, ReadingIsBound, Evaluating
      <3>2. group.running.pr \in PRs
        BY <3>1, RunInProgress DEF BoundInvariant
      <3> QED
        BY <2>2, <3>1, <3>2 DEF BoundInvariant, ReadingIsBound, Evaluating
    <2> QED
      BY <2>1, <2>2
  <1> QED
    BY <1>3, <1>4, <1>5 DEF BoundInvariant

\* The same when the run in progress ends.
LEMMA EndRunStep ==
    ASSUME BoundInvariant, TypeOK', UNCHANGED policy, EndRun, CurrentIsBound'
    PROVE  BoundInvariant'
  <1>1. /\ group'.running = group.waiting /\ group'.waiting = Idle
        /\ ~ seen'.ready
    BY LeaveType DEF BoundInvariant, TypeOK, EndRun, Nothing
  <1>2. ModeIsPolicy'
    BY <1>1 DEF BoundInvariant, ModeIsPolicy
  <1>3. ReadingIsBound'
    BY <1>1 DEF ReadingIsBound
  <1> QED
    BY <1>2, <1>3 DEF BoundInvariant

\* A new head of p carries the evidence of main's policy; what has been read of
\* an older head no longer matters.
LEMMA NewHeadStep ==
    ASSUME BoundInvariant, TypeOK', UNCHANGED <<policy, group, seen>>,
           NEW p \in PRs, NEW head \in Heads, NEW current \in BOOLEAN,
           NewHead(p, head, current),
           pr[p].state # "none" => head > pr[p].head
    PROVE  BoundInvariant'
  <1>1. /\ \A q \in PRs \ {p} : pr'[q] = pr[q]
        /\ pr'[p].state = "open" /\ pr'[p].head = head /\ pr'[p].evidence = policy
    BY NewHeadType DEF BoundInvariant
  <1>2. CurrentIsBound'
    BY <1>1 DEF BoundInvariant, CurrentIsBound
  <1>3. ModeIsPolicy'
    BY DEF BoundInvariant, ModeIsPolicy
  <1>4. ReadingIsBound'
    <2> SUFFICES ASSUME seen.ready
                 PROVE  ReadingIsBound'
      BY DEF ReadingIsBound
    <2> DEFINE e == group.running.pr
    <2>1. /\ Evaluating /\ pr[e].state # "none" /\ seen.head <= pr[e].head
          /\ pr[e].head = seen.head => pr[e].evidence = group.running.policy
      BY DEF BoundInvariant, ReadingIsBound
    <2>2. e \in PRs
      BY <2>1, RunInProgress DEF BoundInvariant
    <2>3. CASE e # p
      BY <1>1, <2>1, <2>2, <2>3 DEF ReadingIsBound, Evaluating
    <2>4. CASE e = p
      <3>1. seen.head < head
        <4>1. seen.head \in Nat /\ pr[p].head \in Nat /\ head \in Nat
          BY MergeAssumption DEF BoundInvariant, TypeOK, Candidates, Heads
        <4> QED
          BY <2>1, <2>4, <4>1
      <3>2. seen.head \in Nat /\ head \in Nat
        BY MergeAssumption DEF BoundInvariant, TypeOK, Heads
      <3> QED
        BY <1>1, <2>1, <2>4, <3>1, <3>2 DEF ReadingIsBound, Evaluating
    <2> QED
      BY <2>3, <2>4
  <1> QED
    BY <1>2, <1>3, <1>4 DEF BoundInvariant

LEMMA BoundStep == BoundInvariant /\ [Next]_vars => BoundInvariant'
  <1> SUFFICES ASSUME BoundInvariant, [Next]_vars
               PROVE  BoundInvariant'
    OBVIOUS
  <1>0. TypeOK /\ TypeOK'
    BY StepKeepsType DEF BoundInvariant
  <1>1. ASSUME NEW p \in PRs, NEW c \in Checks, CheckCompletes(p, c) \/ RunAgain(p, c)
        PROVE  BoundInvariant'
    <2>1. PICK result : pr' = [pr EXCEPT ![p].checks[c] = result]
      BY <1>1 DEF CheckCompletes, RunAgain
    <2>2. \A q \in PRs : /\ pr'[q].state = pr[q].state /\ pr'[q].head = pr[q].head
                         /\ pr'[q].current = pr[q].current /\ pr'[q].evidence = pr[q].evidence
      BY <1>0, <2>1 DEF TypeOK, Candidates
    <2>3. FromWorkflowRun(p).mode = "merge" <=> FromWorkflowRun(p).policy
      BY <1>0 DEF FromWorkflowRun, TypeOK
    <2>4. CASE CheckCompletes(p, c)
      <3>1. PICK r \in {FromWorkflowRun(p), Futile} : Ask(r)
        BY <2>4 DEF CheckCompletes
      <3>2. /\ r \in Requests \cup {Futile}
            /\ r # Futile => (r.mode = "merge" <=> r.policy)
        BY <1>0, <2>3, RequestTypes
      <3>3. UNCHANGED <<policy, seen>>
        BY <2>4 DEF CheckCompletes
      <3> QED
        BY <1>0, <2>2, <3>1, <3>2, <3>3, RequestStep
    <2>5. CASE RunAgain(p, c)
      BY <1>0, <2>2, <2>5, RequestStep DEF RunAgain
    <2> QED
      BY <1>1, <2>4, <2>5
  <1>2. ASSUME NEW p \in PRs, OldCheckCompletes(p)
        PROVE  BoundInvariant'
    <2>1. FromWorkflowRun(p).mode = "merge" <=> FromWorkflowRun(p).policy
      BY <1>0 DEF FromWorkflowRun, TypeOK
    <2> QED
      BY <1>0, <1>2, <2>1, RequestTypes, RequestStep DEF OldCheckCompletes
  <1>3. ASSUME NEW p \in PRs, AutoMergeRequests(p) \/ OperatorDispatches(p)
        PROVE  BoundInvariant'
    <2>1. PICK mode \in {"merge", "shadow"} : Ask(FromDispatch(p, mode))
      BY <1>3 DEF AutoMergeRequests, OperatorDispatches
    <2>2. FromDispatch(p, mode).event = "workflow_dispatch"
      BY DEF FromDispatch
    <2> QED
      BY <1>0, <1>3, <2>1, <2>2, RequestTypes, RequestStep
         DEF AutoMergeRequests, OperatorDispatches
  <1>4. CASE SkippedRunCompletes \/ \E p \in PRs : RunWithoutArtifact(p)
    BY <1>0, <1>4, RequestStep DEF SkippedRunCompletes, RunWithoutArtifact
  <1>5. ASSUME NEW p \in PRs, Open(p)
        PROVE  BoundInvariant'
    <2>1. 1 \in Heads
      BY MergeAssumption DEF Heads
    <2> QED
      BY <1>0, <1>5, <2>1, NewHeadStep DEF Open
  <1>6. ASSUME NEW p \in PRs, Push(p)
        PROVE  BoundInvariant'
    <2>1. PICK current \in BOOLEAN : NewHead(p, pr[p].head + 1, current)
      BY <1>0, <1>6 DEF Push, TypeOK, Candidates
    <2>2. pr[p].head + 1 \in Heads /\ pr[p].head + 1 > pr[p].head
      BY <1>0, <1>6, MergeAssumption DEF Push, Heads, TypeOK, Candidates
    <2> QED
      BY <1>0, <1>6, <2>1, <2>2, NewHeadStep DEF Push
  <1>7. CASE Observe
    <2> DEFINE p == group.running.pr
    <2>1. /\ Evaluating /\ p \in PRs /\ UNCHANGED <<policy, pr, group>>
          /\ seen' = [head |-> pr[p].head, ready |-> Ready(p, group.running)]
      BY <1>0, <1>7, RunInProgress DEF Observe
    <2>2. pr[p].head \in Nat
      BY <1>0, <2>1, MergeAssumption DEF TypeOK, Candidates, Heads
    <2>3. ReadingIsBound'
      <3> SUFFICES ASSUME seen'.ready
                   PROVE  ReadingIsBound'
        BY DEF ReadingIsBound
      <3>1. seen'.ready = Ready(p, group.running) /\ seen'.head = pr[p].head
        BY <2>1
      <3>2. pr[p].state = "open" /\ pr[p].evidence = group.running.policy
        BY <3>1 DEF Ready, Green
      <3>3. Evaluating' /\ group'.running.pr = p /\ pr'[p] = pr[p]
        BY <2>1 DEF Evaluating
      <3> QED
        BY <2>1, <2>2, <3>1, <3>2, <3>3 DEF ReadingIsBound
    <2>4. CurrentIsBound' /\ ModeIsPolicy'
      BY <2>1 DEF BoundInvariant, CurrentIsBound, ModeIsPolicy
    <2> QED
      BY <1>0, <2>3, <2>4 DEF BoundInvariant
  <1>8. CASE Merge
    <2>1. \A q \in PRs : pr'[q].state = "open" => ~ pr'[q].current
      <3> SUFFICES ASSUME NEW q \in PRs, pr'[q].state = "open"
                   PROVE  ~ pr'[q].current
        OBVIOUS
      <3>1. pr[q] \in Candidates
        BY <1>0 DEF TypeOK
      <3>2. CASE q = group.running.pr
        <4>1. pr'[q] = [pr[q] EXCEPT !.state = "merged", !.eligible = "success"]
          BY <1>8, <3>2, Zenon DEF Merge
        <4> QED
          BY <3>1, <4>1 DEF Candidates
      <3>3. CASE q # group.running.pr
        <4>1. pr'[q] = [pr[q] EXCEPT !.current = FALSE]
          BY <1>8, <3>3, Zenon DEF Merge
        <4> QED
          BY <3>1, <4>1 DEF Candidates
      <3> QED
        BY <3>2, <3>3
    <2> QED
      BY <1>0, <1>8, <2>1, EndRunStep DEF Merge, CurrentIsBound
  <1>9. CASE Conclude
    <2>1. PICK p, e : pr' = [pr EXCEPT ![p].eligible = e]
      BY <1>9, Zenon DEF Conclude, Publish
    <2>2. \A q \in PRs : /\ pr'[q].state = pr[q].state /\ pr'[q].current = pr[q].current
                         /\ pr'[q].evidence = pr[q].evidence
      BY <1>0, <2>1 DEF TypeOK, Candidates
    <2>3. CurrentIsBound'
      BY <1>9, <2>2 DEF Conclude, BoundInvariant, CurrentIsBound
    <2> QED
      BY <1>0, <1>9, <2>3, EndRunStep DEF Conclude
  <1>10. CASE HardFailure \/ FutileRunEnds
    <2>1. CurrentIsBound'
      BY <1>10 DEF HardFailure, FutileRunEnds, BoundInvariant, CurrentIsBound
    <2> QED
      BY <1>0, <1>10, <2>1, EndRunStep DEF HardFailure, FutileRunEnds
  <1>11. CASE ChangePolicy
    <2>1. \A q \in PRs : /\ pr'[q].state = pr[q].state /\ pr'[q].head = pr[q].head
                         /\ ~ pr'[q].current /\ pr'[q].evidence = pr[q].evidence
      BY <1>0, <1>11 DEF ChangePolicy, TypeOK, Candidates
    <2>2. CurrentIsBound' /\ ModeIsPolicy'
      BY <1>11, <2>1 DEF ChangePolicy, BoundInvariant, CurrentIsBound, ModeIsPolicy
    <2>3. ReadingIsBound'
      <3>1. Evaluating => group.running.pr \in PRs
        BY <1>0, RunInProgress
      <3> QED
        BY <1>11, <2>1, <3>1 DEF ChangePolicy, BoundInvariant, ReadingIsBound, Evaluating
    <2> QED
      BY <1>0, <2>2, <2>3 DEF BoundInvariant
  <1>12. CASE UNCHANGED vars
    BY <1>0, <1>12
       DEF vars, BoundInvariant, CurrentIsBound, ReadingIsBound, ModeIsPolicy, Evaluating
  <1> QED
    BY <1>1, <1>2, <1>3, <1>4, <1>5, <1>6, <1>7, <1>8, <1>9, <1>10, <1>11, <1>12 DEF Next

\* A candidate leaves greenSince with the verdict that ends the run in progress,
\* or for a new head; it is in it when it is read as ready.
LEMMA CountedStep == EvidenceInvariant /\ [Next]_vars => ReadingIsCounted'
  <1> SUFFICES ASSUME EvidenceInvariant, [Next]_vars,
                      seen'.ready, pr'[group'.running.pr].head = seen'.head
               PROVE  group'.running.pr \in greenSince'
    BY DEF ReadingIsCounted
  <1> DEFINE e == group.running.pr
  <1>0. TypeOK /\ ReadingIsBound /\ ReadingIsCounted
    BY DEF EvidenceInvariant
  <1>1. CASE Observe
    <2>1. Evaluating /\ UNCHANGED <<pr, group>> /\ seen'.ready = Ready(e, group.running)
      BY <1>1 DEF Observe
    <2>2. Green(e)' /\ e \in PRs
      BY <1>0, <2>1, RunInProgress DEF Ready, Green
    <2> QED
      BY <1>1, <2>1, <2>2 DEF Observe, CountGreen
  <1>2. ASSUME Merge \/ Conclude \/ HardFailure \/ FutileRunEnds
        PROVE  FALSE
    <2>1. EndRun
      BY <1>2 DEF Merge, Conclude, HardFailure, FutileRunEnds
    <2>2. ~ seen'.ready
      BY <2>1 DEF EndRun, Nothing
    <2> QED
      BY <2>2
  <1>3. ASSUME UNCHANGED seen, group'.running = group.running \/ ~ Evaluating
        PROVE  Evaluating /\ e \in PRs /\ group'.running = group.running /\ seen.ready
    BY <1>0, <1>3, RunInProgress DEF ReadingIsBound
  <1>4. ASSUME UNCHANGED seen, group'.running = group.running \/ ~ Evaluating,
               \A q \in PRs : pr'[q].head = pr[q].head, greenSince \subseteq greenSince'
        PROVE  group'.running.pr \in greenSince'
    BY <1>0, <1>3, <1>4 DEF ReadingIsCounted
  <1>5. ASSUME NEW r \in Requests \cup {Futile}, Ask(r)
        PROVE  group'.running = group.running \/ ~ Evaluating
    BY <1>0, <1>5, EnterType DEF Ask, TypeOK, Evaluating
  <1>6. CountGreen({}) => greenSince \subseteq greenSince'
    BY DEF CountGreen
  <1>7. ASSUME NEW p \in PRs, NEW c \in Checks, CheckCompletes(p, c) \/ RunAgain(p, c)
        PROVE  group'.running.pr \in greenSince'
    <2>1. PICK result : pr' = [pr EXCEPT ![p].checks[c] = result]
      BY <1>7 DEF CheckCompletes, RunAgain
    <2>2. \A q \in PRs : pr'[q].head = pr[q].head
      BY <1>0, <2>1 DEF TypeOK, Candidates
    <2>3. Ask(FromWorkflowRun(p)) \/ Ask(Futile) \/ UNCHANGED group
      BY <1>7 DEF CheckCompletes, RunAgain
    <2>4. group'.running = group.running \/ ~ Evaluating
      BY <1>0, <1>5, <2>3, RequestTypes
    <2> QED
      BY <1>4, <1>6, <1>7, <2>2, <2>4 DEF CheckCompletes, RunAgain
  <1>8. ASSUME NEW p \in PRs,
               OldCheckCompletes(p) \/ AutoMergeRequests(p) \/ OperatorDispatches(p)
        PROVE  group'.running.pr \in greenSince'
    <2>1. group'.running = group.running \/ ~ Evaluating
      BY <1>0, <1>5, <1>8, RequestTypes DEF OldCheckCompletes, AutoMergeRequests, OperatorDispatches
    <2> QED
      BY <1>4, <1>6, <1>8, <2>1 DEF OldCheckCompletes, AutoMergeRequests, OperatorDispatches
  <1>9. CASE SkippedRunCompletes \/ \E p \in PRs : RunWithoutArtifact(p)
    BY <1>4, <1>5, <1>6, <1>9 DEF SkippedRunCompletes, RunWithoutArtifact
  <1>10. ASSUME NEW p \in PRs, Open(p) \/ Push(p)
         PROVE  group'.running.pr \in greenSince'
    <2>1. UNCHANGED <<group, seen>> /\ CountGreen({p})
      BY <1>10 DEF Open, Push
    <2>2. /\ e \in PRs /\ group'.running.pr = e
          /\ pr[e].state # "none" /\ seen.head <= pr[e].head
      BY <1>0, <1>3, <2>1 DEF ReadingIsBound
    <2>3. CASE e = p
      <3>1. pr[p].head \in Nat /\ seen.head \in Nat
        BY <1>0, MergeAssumption DEF TypeOK, Candidates, Heads
      <3>2. pr'[p].head = pr[p].head + 1
        BY <1>0, <1>10, <2>2, <2>3 DEF Open, Push, NewHead, TypeOK
      <3> QED
        BY <2>1, <2>2, <2>3, <3>1, <3>2
    <2>4. CASE e # p
      <3>1. pr'[e] = pr[e]
        BY <1>0, <1>10, <2>2, <2>4 DEF Open, Push, NewHead, TypeOK
      <3> QED
        BY <1>0, <2>1, <2>2, <2>4, <3>1 DEF ReadingIsCounted, CountGreen
    <2> QED
      BY <2>3, <2>4
  <1>11. CASE ChangePolicy
    <2>1. \A q \in PRs : pr'[q].head = pr[q].head
      BY <1>0, <1>11 DEF ChangePolicy, TypeOK, Candidates
    <2> QED
      BY <1>4, <1>6, <1>11, <2>1 DEF ChangePolicy
  <1>12. CASE UNCHANGED vars
    BY <1>4, <1>12 DEF vars
  <1> QED
    BY <1>1, <1>2, <1>7, <1>8, <1>9, <1>10, <1>11, <1>12 DEF Next

LEMMA InvariantStep == EvidenceInvariant /\ [Next]_vars => EvidenceInvariant'
  BY BoundStep, CountedStep DEF EvidenceInvariant, BoundInvariant

\* The part about evidence and readings holds of every behaviour.
LEMMA EvidenceInvariantHolds == Spec => []EvidenceInvariant
  <1>1. Init => EvidenceInvariant
    <2> SUFFICES ASSUME Init
                 PROVE  EvidenceInvariant
      OBVIOUS
    <2>1. pr \in [PRs -> Candidates]
      BY MergeAssumption DEF Init, Candidates, Heads, Results
    <2>2. TypeOK
      BY <2>1 DEF Init, TypeOK, EmptyGroup, Groups, Nothing
    <2>3. CurrentIsBound /\ ReadingIsBound
      BY DEF Init, CurrentIsBound, ReadingIsBound, Nothing
    <2>4. ModeIsPolicy /\ ReadingIsCounted
      BY DEF Init, ModeIsPolicy, EmptyGroup, ReadingIsCounted, Nothing
    <2> QED
      BY <2>2, <2>3, <2>4 DEF EvidenceInvariant
  <1> QED
    BY <1>1, InvariantStep, PTL DEF Spec

\* Once merging is switched off no run that an event raised before merges, for
\* every number of candidates, checks and heads (factory-merge.yml line 73).
THEOREM EventMergesWhileEnabledHolds == Spec => EventMergesWhileEnabled
  <1>1. EvidenceInvariant /\ [Next]_vars =>
           [\A p \in PRs :
              /\ pr[p].state = "open" /\ pr'[p].state = "merged"
              /\ group.running.event = "workflow_run"
              => policy]_vars
    <2> SUFFICES ASSUME EvidenceInvariant, [Next]_vars, NEW p \in PRs,
                        pr[p].state = "open", pr'[p].state = "merged",
                        group.running.event = "workflow_run"
                 PROVE  policy
      OBVIOUS
    <2>0. TypeOK
      BY DEF EvidenceInvariant
    <2>1. CASE Merge
      <3>1. group.running.pr \in PRs /\ group.running \in Requests
        BY <2>0, <2>1, RunInProgress DEF Merge
      <3>2. p = group.running.pr
        BY <2>0, <2>1, <3>1 DEF Merge, TypeOK, Candidates
      <3>3. group.running.mode = "merge" => group.running.policy
        BY <2>1 DEF Merge, EvidenceInvariant, ModeIsPolicy, Evaluating
      <3> QED
        BY <2>1, <3>2, <3>3
           DEF Merge, ForgeMerges, EvidenceInvariant, CurrentIsBound, ReadingIsBound
    <2>2. CASE ~ Merge
      <3>1. \A q \in PRs : pr'[q].state \in {pr[q].state, "open"}
        <4>1. ASSUME NEW q \in PRs, NEW c \in Checks, CheckCompletes(q, c) \/ RunAgain(q, c)
              PROVE  \A r \in PRs : pr'[r].state = pr[r].state
          <5>1. PICK result : pr' = [pr EXCEPT ![q].checks[c] = result]
            BY <4>1 DEF CheckCompletes, RunAgain
          <5> QED
            BY <2>0, <5>1 DEF TypeOK, Candidates
        <4>2. ASSUME NEW q \in PRs, Open(q) \/ Push(q)
              PROVE  \A r \in PRs : pr'[r].state \in {pr[r].state, "open"}
          BY <2>0, <4>2 DEF Open, Push, NewHead, TypeOK
        <4>3. CASE Conclude
          <5>1. PICK q, e : pr' = [pr EXCEPT ![q].eligible = e]
            BY <4>3, Zenon DEF Conclude, Publish
          <5> QED
            BY <2>0, <5>1 DEF TypeOK, Candidates
        <4>4. CASE ChangePolicy
          BY <2>0, <4>4 DEF ChangePolicy, TypeOK, Candidates
        <4>5. CASE UNCHANGED pr
          BY <4>5
        <4> QED
          BY <2>2, <4>1, <4>2, <4>3, <4>4, <4>5
             DEF Next, OldCheckCompletes, AutoMergeRequests, OperatorDispatches,
                 SkippedRunCompletes, RunWithoutArtifact, Observe, HardFailure, FutileRunEnds, vars
      <3> QED
        BY <3>1
    <2> QED
      BY <2>1, <2>2
  <1> QED
    BY <1>1, EvidenceInvariantHolds, PTL DEF Spec, EventMergesWhileEnabled

\* A head becomes eligible only on checks that have all been green at one time
\* since the verdict before: see EligibleOnNewEvidence.
THEOREM EligibleOnNewEvidenceHolds == Spec => EligibleOnNewEvidence
  <1>1. EvidenceInvariant /\ [Next]_vars =>
           [\A p \in PRs :
              pr[p].eligible # "success" /\ pr'[p].eligible = "success" => p \in greenSince]_vars
    <2> SUFFICES ASSUME EvidenceInvariant, [Next]_vars, NEW p \in PRs,
                        pr[p].eligible # "success", pr'[p].eligible = "success"
                 PROVE  p \in greenSince
      OBVIOUS
    <2>0. TypeOK /\ ReadingIsCounted
      BY DEF EvidenceInvariant
    <2>1. CASE Merge
      <3>1. pr'[p].eligible # pr[p].eligible => p = group.running.pr
        BY <2>0, <2>1 DEF Merge, TypeOK, Candidates
      <3> QED
        BY <2>0, <2>1, <3>1 DEF Merge, ForgeMerges, ReadingIsCounted
    <2>2. CASE Conclude
      <3>1. PICK verdict : /\ Publish(group.running.pr, verdict)
                           /\ verdict = "success" => seen.ready
        BY <2>2 DEF Conclude
      <3>2. /\ p = group.running.pr /\ verdict = "success" /\ pr[p].head = seen.head
        BY <2>0, <3>1 DEF Publish, TypeOK, Candidates
      <3> QED
        BY <2>0, <3>1, <3>2 DEF ReadingIsCounted
    <2>3. ASSUME NEW q \in PRs, NEW c \in Checks, CheckCompletes(q, c) \/ RunAgain(q, c)
          PROVE  FALSE
      <3>1. PICK result : pr' = [pr EXCEPT ![q].checks[c] = result]
        BY <2>3 DEF CheckCompletes, RunAgain
      <3> QED
        BY <2>0, <3>1 DEF TypeOK, Candidates
    <2>4. ASSUME NEW q \in PRs, Open(q) \/ Push(q)
          PROVE  FALSE
      BY <2>0, <2>4 DEF Open, Push, NewHead, TypeOK
    <2>5. CASE ChangePolicy
      BY <2>0, <2>5 DEF ChangePolicy, TypeOK, Candidates
    <2>6. CASE UNCHANGED pr
      BY <2>6
    <2> QED
      BY <2>1, <2>2, <2>3, <2>4, <2>5, <2>6
         DEF Next, OldCheckCompletes, AutoMergeRequests, OperatorDispatches,
             SkippedRunCompletes, RunWithoutArtifact, Observe, HardFailure, FutileRunEnds, vars
  <1> QED
    BY <1>1, EvidenceInvariantHolds, PTL DEF Spec, EligibleOnNewEvidence

-----------------------------------------------------------------------------
(* The concurrency group, and what it owes a candidate that could be merged. *)

\* Where a request goes.
LEMMA EnterPlaces ==
    ASSUME NEW g \in Groups(Requests \cup {Futile}), NEW r
    PROVE  /\ g.running # Idle => Enter(g, r).running = g.running /\ Enter(g, r).waiting = r
           /\ g.running = Idle => Enter(g, r).running = r /\ Enter(g, r).waiting = g.waiting
  BY DEF Enter, Groups

\* The run that starts next has read nothing.
LEMMA EndRunServes ==
    ASSUME EndRun
    PROVE  group'.running = group.waiting /\ group'.waiting = Idle /\ seen' = Nothing
  BY DEF EndRun, Leave

\* Nothing waits for a group that is free, and a run starts with nothing read.
LEMMA GroupStep == TypeOK /\ GroupInvariant /\ [Next]_vars => GroupInvariant'
  <1> SUFFICES ASSUME TypeOK, GroupInvariant, [Next]_vars
               PROVE  GroupInvariant'
    OBVIOUS
  <1>1. ASSUME NEW r \in Requests \cup {Futile}, Ask(r), UNCHANGED seen
        PROVE  GroupInvariant'
    <2>1. group' = Enter(group, r) /\ group \in Groups(Requests \cup {Futile})
      BY <1>1 DEF Ask, TypeOK
    <2>2. CASE group.running = Idle
      <3>1. group'.waiting = Idle /\ seen' = Nothing
        BY <1>1, <2>1, <2>2, EnterPlaces DEF GroupInvariant, Evaluating
      <3> QED
        BY <3>1 DEF GroupInvariant
    <2>3. CASE group.running # Idle
      <3>1. group'.running = group.running
        BY <2>1, <2>3, EnterPlaces
      <3> QED
        BY <1>1, <2>3, <3>1 DEF GroupInvariant, Evaluating
    <2> QED
      BY <2>2, <2>3
  <1>2. ASSUME NEW p \in PRs,
               \/ \E c \in Checks : CheckCompletes(p, c)
               \/ OldCheckCompletes(p) \/ AutoMergeRequests(p) \/ OperatorDispatches(p)
        PROVE  GroupInvariant'
    BY <1>1, <1>2, RequestTypes
       DEF CheckCompletes, OldCheckCompletes, AutoMergeRequests, OperatorDispatches
  <1>3. CASE SkippedRunCompletes \/ \E p \in PRs : RunWithoutArtifact(p)
    BY <1>1, <1>3 DEF SkippedRunCompletes, RunWithoutArtifact
  <1>4. CASE UNCHANGED <<group, seen>>
    BY <1>4 DEF GroupInvariant, Evaluating
  <1>5. CASE Observe
    BY <1>5 DEF Observe, GroupInvariant, Evaluating
  <1>6. CASE EndRun
    BY <1>6, EndRunServes DEF GroupInvariant
  <1> QED
    BY <1>2, <1>3, <1>4, <1>5, <1>6
       DEF Next, RunAgain, Open, Push, Merge, Conclude, HardFailure, FutileRunEnds, ChangePolicy, vars

\* Evidence and readings are bound, and the group is served, in every behaviour
\* (factory-merge.yml).
THEOREM PolicyInvariantHolds == Spec => []PolicyInvariant
  <1>1. Init => GroupInvariant
    BY DEF Init, GroupInvariant, EmptyGroup
  <1>2. EvidenceInvariant => TypeOK
    BY DEF EvidenceInvariant
  <1>3. EvidenceInvariant /\ GroupInvariant => PolicyInvariant
    BY DEF PolicyInvariant
  <1> QED
    BY <1>1, <1>2, <1>3, GroupStep, EvidenceInvariantHolds, PTL DEF Spec

\* An evaluation will read the candidate, or has read it as it is.
Awaited(p) ==
    \/ Merges(group.waiting, p)
    \/ Merges(group.running, p) /\ seen \in {Nothing, [head |-> pr[p].head, ready |-> TRUE]}

\* Another request takes the place of one that a mergeable candidate has waiting only
\* if it stands for it or the loss is counted.
LEMMA AskAwaits ==
    ASSUME TypeOK, GroupInvariant, NEW p \in PRs, Mergeable(p)', lost \/ Awaited(p),
           NEW r, Ask(r), UNCHANGED seen, pr'[p].head = pr[p].head
    PROVE  lost' \/ Awaited(p)'
  <1>1. group' = Enter(group, r) /\ group \in Groups(Requests \cup {Futile})
    BY DEF Ask, TypeOK
  <1>2. CASE lost
    BY <1>2 DEF Ask
  <1>3. CASE Merges(group.running, p) /\ seen \in {Nothing, [head |-> pr[p].head, ready |-> TRUE]}
    <2>1. group'.running = group.running
      BY <1>1, <1>3, EnterPlaces DEF Merges
    <2> QED
      BY <1>3, <2>1 DEF Awaited, Merges
  <1>4. CASE Merges(group.waiting, p)
    <2>1. group.running # Idle
      BY <1>4 DEF Merges, GroupInvariant
    <2>2. CASE Merges(r, p)
      <3>1. group'.waiting = r
        BY <1>1, <2>1, EnterPlaces
      <3> QED
        BY <2>2, <3>1 DEF Awaited, Merges
    <2>3. CASE ~ Merges(r, p)
      <3>1. Displaces(r)
        BY <1>4, <2>1, <2>3 DEF Displaces
      <3> QED
        BY <3>1 DEF Ask
    <2> QED
      BY <2>2, <2>3
  <1> QED
    BY <1>2, <1>3, <1>4 DEF Awaited

\* A request for the candidate itself awaits it.
LEMMA AskStarts ==
    ASSUME TypeOK, GroupInvariant, NEW p \in PRs, NEW r, Ask(r), Merges(r, p), UNCHANGED seen
    PROVE  Awaited(p)'
  <1>1. group' = Enter(group, r) /\ group \in Groups(Requests \cup {Futile})
    BY DEF Ask, TypeOK
  <1>2. CASE group.running = Idle
    <2>1. group'.running = r /\ seen' = Nothing
      BY <1>1, <1>2, EnterPlaces DEF GroupInvariant, Evaluating
    <2> QED
      BY <2>1 DEF Awaited, Merges
  <1>3. CASE group.running # Idle
    <2>1. group'.waiting = r
      BY <1>1, <1>3, EnterPlaces
    <2> QED
      BY <2>1 DEF Awaited, Merges
  <1> QED
    BY <1>2, <1>3

\* The end of a run starts the evaluation that waits.
LEMMA EndRunAwaits ==
    ASSUME NEW p \in PRs, EndRun, Merges(group.waiting, p)
    PROVE  Awaited(p)'
  BY EndRunServes DEF Awaited, Merges

\* What makes a candidate mergeable asks for its evaluation, and what it has read it
\* acts on.
LEMMA AwaitedStep ==
    PolicyInvariant /\ ReadyIsAwaited /\ [Next]_vars => ReadyIsAwaited'
  <1> SUFFICES ASSUME PolicyInvariant, ReadyIsAwaited, [Next]_vars,
                      NEW p \in PRs, Mergeable(p)'
               PROVE  lost' \/ Awaited(p)'
    BY DEF ReadyIsAwaited, Awaited
  <1>0. /\ TypeOK /\ CurrentIsBound /\ GroupInvariant
        /\ Mergeable(p) => lost \/ Awaited(p)
    BY DEF PolicyInvariant, EvidenceInvariant, ReadyIsAwaited, Awaited
  <1>1. /\ policy' = TRUE /\ pr'[p].state = "open" /\ pr'[p].current
        /\ \A c \in Checks : pr'[p].checks[c] = "success"
    BY <1>0, StepKeepsType DEF Mergeable, Green, TypeOK
  <1>2. ASSUME UNCHANGED policy, pr'[p] = pr[p]
        PROVE  Mergeable(p) /\ (lost \/ Awaited(p))
    BY <1>0, <1>1, <1>2 DEF Mergeable, Green
  <1>3. ASSUME UNCHANGED <<policy, group, seen, lost>>, pr'[p] = pr[p]
        PROVE  lost' \/ Awaited(p)'
    BY <1>2, <1>3 DEF Awaited, Merges
  <1>4. ASSUME NEW q \in PRs, NEW c \in Checks, CheckCompletes(q, c)
        PROVE  lost' \/ Awaited(p)'
    <2>1. PICK result \in Results :
             /\ pr' = [pr EXCEPT ![q].checks[c] = result]
             /\ Ask(FromWorkflowRun(q)) \/ (result = "failure" /\ Ask(Futile))
      BY <1>4 DEF CheckCompletes
    <2>2. UNCHANGED <<policy, seen>>
      BY <1>4 DEF CheckCompletes
    <2>3. CASE q = p
      <3>1. pr'[p].checks[c] = result
        BY <1>0, <2>1, <2>3 DEF TypeOK, Candidates
      <3>2. result = "success"
        BY <1>1, <3>1
      <3> DEFINE r == FromWorkflowRun(p)
      <3>3. Ask(r) /\ r \in Requests
        BY <1>0, <2>1, <2>3, <3>2, RequestTypes
      <3>4. r.pr = p /\ r.policy = TRUE /\ r.mode = "merge"
        BY <1>1, <2>2 DEF FromWorkflowRun
      <3>5. Merges(r, p)
        BY <3>3, <3>4, IdleAssumption DEF Merges
      <3> HIDE DEF r
      <3> QED
        BY <1>0, <2>2, <3>3, <3>5, AskStarts
    <2>4. CASE q # p
      <3>1. pr'[p] = pr[p]
        BY <1>0, <2>1, <2>4 DEF TypeOK
      <3>2. PICK r : Ask(r)
        BY <2>1
      <3> QED
        BY <1>0, <1>2, <2>2, <3>1, <3>2, AskAwaits
    <2> QED
      BY <2>3, <2>4
  <1>5. ASSUME NEW q \in PRs, NEW c \in Checks, RunAgain(q, c)
        PROVE  lost' \/ Awaited(p)'
    <2>1. CASE q = p
      <3>1. pr'[p].checks[c] = "pending"
        BY <1>0, <1>5, <2>1 DEF RunAgain, TypeOK, Candidates
      <3> QED
        BY <1>1, <3>1
    <2>2. CASE q # p
      <3>1. pr'[p] = pr[p]
        BY <1>0, <1>5, <2>2 DEF RunAgain, TypeOK
      <3> QED
        BY <1>3, <1>5, <3>1 DEF RunAgain
    <2> QED
      BY <2>1, <2>2
  <1>6. CASE \E q \in PRs : \/ OldCheckCompletes(q) \/ RunWithoutArtifact(q)
                            \/ AutoMergeRequests(q) \/ OperatorDispatches(q)
    <2>1. PICK r : Ask(r)
      BY <1>6 DEF OldCheckCompletes, RunWithoutArtifact, AutoMergeRequests, OperatorDispatches
    <2>2. UNCHANGED <<policy, pr, seen>>
      BY <1>6 DEF OldCheckCompletes, RunWithoutArtifact, AutoMergeRequests, OperatorDispatches
    <2> QED
      BY <1>0, <1>2, <2>1, <2>2, AskAwaits
  <1>7. CASE SkippedRunCompletes
    BY <1>0, <1>2, <1>7, AskAwaits DEF SkippedRunCompletes
  <1>8. ASSUME NEW q \in PRs, Open(q) \/ Push(q)
        PROVE  lost' \/ Awaited(p)'
    <2>1. PICK head, current : NewHead(q, head, current)
      BY <1>8 DEF Open, Push
    <2>2. CASE q = p
      <3>1. PICK c \in Checks : TRUE
        BY MergeAssumption
      <3>2. pr'[p].checks[c] = "pending"
        BY <1>0, <2>1, <2>2, <3>1 DEF NewHead, TypeOK
      <3> QED
        BY <1>1, <3>1, <3>2
    <2>3. CASE q # p
      <3>1. pr'[p] = pr[p]
        BY <1>0, <2>1, <2>3 DEF NewHead, TypeOK
      <3> QED
        BY <1>3, <1>8, <3>1 DEF Open, Push
    <2> QED
      BY <2>2, <2>3
  <1>9. CASE Observe
    <2>1. UNCHANGED <<policy, pr, group, lost>>
      BY <1>9 DEF Observe
    <2>2. Mergeable(p) /\ (lost \/ Awaited(p))
      BY <1>2, <2>1
    <2>3. CASE Merges(group.running, p)
      <3>1. Green(p) /\ pr[p].evidence = policy /\ policy = TRUE /\ pr[p].current
        BY <1>0, <1>1, <2>1, <2>2 DEF Mergeable, CurrentIsBound, Green
      <3>2. group.running.policy = TRUE /\ group.running.pr = p
        <4>1. group.running \in Requests
          BY <1>0, <1>9, RunInProgress DEF Observe
        <4> QED
          BY <2>3, <4>1 DEF Merges, Requests
      <3>3. Ready(p, group.running) = TRUE
        <4>1. Ready(p, group.running)
          BY <3>1, <3>2 DEF Ready
        <4>2. Ready(p, group.running) \in BOOLEAN
          BY DEF Ready, Green
        <4> QED
          BY <4>1, <4>2
      <3>4. seen' = [head |-> pr[p].head, ready |-> Ready(p, group.running)]
        BY <1>9, <3>2, Zenon DEF Observe
      <3>5. seen' = [head |-> pr'[p].head, ready |-> TRUE]
        BY <2>1, <3>3, <3>4, Zenon
      <3>6. Merges(group.running, p)'
        BY <2>1, <2>3 DEF Merges
      <3> QED
        BY <3>5, <3>6 DEF Awaited
    <2>4. CASE lost \/ Merges(group.waiting, p)
      BY <2>1, <2>4 DEF Awaited, Merges
    <2> QED
      BY <2>2, <2>3, <2>4 DEF Awaited
  <1>10. CASE Merge
    <2>1. pr[p] \in Candidates
      BY <1>0 DEF TypeOK
    <2>2. CASE p = group.running.pr
      <3>1. pr'[p] = [pr[p] EXCEPT !.state = "merged", !.eligible = "success"]
        BY <1>10, <2>2, Zenon DEF Merge
      <3>2. pr'[p].state = "merged"
        BY <2>1, <3>1 DEF Candidates
      <3> QED
        BY <1>1, <3>2
    <2>3. CASE p # group.running.pr
      <3>1. pr'[p] = [pr[p] EXCEPT !.current = FALSE]
        BY <1>10, <2>3, Zenon DEF Merge
      <3>2. pr'[p].current = FALSE
        BY <2>1, <3>1 DEF Candidates
      <3> QED
        BY <1>1, <3>2
    <2> QED
      BY <2>2, <2>3
  <1>11. CASE Conclude
    <2>1. PICK q, e : pr' = [pr EXCEPT ![q].eligible = e]
      BY <1>11, Zenon DEF Conclude, Publish
    <2>2. /\ pr'[p].state = pr[p].state /\ pr'[p].head = pr[p].head
          /\ pr'[p].current = pr[p].current /\ pr'[p].checks = pr[p].checks
      BY <1>0, <2>1 DEF TypeOK, Candidates
    <2>3. UNCHANGED <<policy, lost>> /\ EndRun
      BY <1>11 DEF Conclude
    <2>4. Mergeable(p) /\ (lost \/ Awaited(p))
      BY <1>0, <1>1, <2>2, <2>3 DEF Mergeable, Green
    <2>5. CASE lost \/ Merges(group.waiting, p)
      BY <2>3, <2>5, EndRunAwaits
    <2>6. ASSUME Merges(group.running, p), seen \in {Nothing, [head |-> pr[p].head, ready |-> TRUE]}
          PROVE  FALSE
      <3>1. seen = [head |-> pr[p].head, ready |-> TRUE]
        BY <1>11, <2>6 DEF Conclude
      <3>2. seen.ready /\ pr[p].head = seen.head
        BY <3>1
      <3>3. group.running.pr = p /\ group.running.mode = "merge"
        BY <2>6 DEF Merges
      <3>4. ForgeMerges(p)
        BY <2>4, <3>2 DEF ForgeMerges, Mergeable
      <3> QED
        BY <1>11, <3>2, <3>3, <3>4 DEF Conclude
    <2> QED
      BY <2>4, <2>5, <2>6 DEF Awaited
  <1>12. CASE HardFailure
    <2>1. /\ UNCHANGED <<policy, pr>> /\ EndRun
          /\ lost' = (lost \/ Mergeable(group.running.pr))
      BY <1>12 DEF HardFailure
    <2>2. Mergeable(p) /\ (lost \/ Awaited(p))
      BY <1>2, <2>1
    <2>3. CASE lost \/ group.running.pr = p
      BY <2>1, <2>2, <2>3
    <2>4. CASE Merges(group.waiting, p)
      BY <2>1, <2>4, EndRunAwaits
    <2>5. Merges(group.running, p) => group.running.pr = p
      BY DEF Merges
    <2> QED
      BY <2>2, <2>3, <2>4, <2>5 DEF Awaited
  <1>13. CASE FutileRunEnds
    <2>1. UNCHANGED <<policy, pr, lost>> /\ EndRun /\ group.running = Futile
      BY <1>13 DEF FutileRunEnds
    <2>2. lost \/ Awaited(p)
      BY <1>2, <2>1
    <2>3. ~ Merges(group.running, p)
      BY <2>1, MergeAssumption DEF Merges, Futile
    <2> QED
      BY <2>1, <2>2, <2>3, EndRunAwaits DEF Awaited
  <1>14. CASE ChangePolicy
    <2>1. pr'[p] = [pr[p] EXCEPT !.current = FALSE] /\ pr[p] \in Candidates
      BY <1>0, <1>14 DEF ChangePolicy, TypeOK
    <2>2. pr'[p].current = FALSE
      BY <2>1 DEF Candidates
    <2> QED
      BY <1>1, <2>2
  <1>15. CASE UNCHANGED vars
    BY <1>3, <1>15 DEF vars
  <1> QED
    BY <1>4, <1>5, <1>6, <1>7, <1>8, <1>9, <1>10, <1>11, <1>12, <1>13, <1>14, <1>15 DEF Next

\* A candidate that the policy in force lets merge, all green and up to date, is waited
\* for by an evaluation that will read it or has read it as it is, unless a mergeable
\* candidate's request was displaced or its evaluation failed: for every number of
\* candidates, checks, producers and heads (factory-merge.yml lines 3-5, 21-23, 60-67, 73).
THEOREM ReadyIsAwaitedHolds == Spec => []ReadyIsAwaited
  <1>1. Init => ReadyIsAwaited
    BY DEF Init, ReadyIsAwaited, Mergeable, Green
  <1> QED
    BY <1>1, AwaitedStep, PolicyInvariantHolds, PTL DEF Spec
=============================================================================
