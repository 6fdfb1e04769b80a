-------------------------- MODULE MergeGateProofs ---------------------------
(***************************************************************************)
(* For every number of pull requests, window and tick, at most one gated   *)
(* pull request merges on verdicts that are out of date.  The invariant of *)
(* the argument is GateInvariant of MergeGate.                             *)
(***************************************************************************)
EXTENDS MergeGate, TLAPS

\* A cap on ages is a natural number.
LEMMA OldIsNat == Old \in Nat
  <1>1. WindowHours + 1 \in Nat /\ TicksPerHour \in Nat
    BY GateAssumption
  <1> QED
    BY <1>1 DEF Old

\* What a step does to the pull requests and the gate, in four cases: the batch
\* or the world moves, a check is run, a branch gets a new head, one merges.
LEMMA EveryStepCounts == Next => CountSlips
  BY DEF Next, BatchOnMain, BatchOnBranch, BatchReports, BatchCancelled, GateReads,
         GateConcludes, Open, AutofixOpens, Push, UpdateBranch, Merge,
         AdvisoryPublished, Tick

LEMMA StepKeepsType == TypeOK /\ [Next]_vars => TypeOK'
  <1> SUFFICES ASSUME TypeOK, [Next]_vars
               PROVE  TypeOK'
    OBVIOUS
  <1> USE OldIsNat
  <1>1. ASSUME Next
        PROVE  slips' \in Nat
    BY <1>1, EveryStepCounts DEF CountSlips, TypeOK
  <1>2. ASSUME NEW t \in SUBSET Defects, StartRun(t), UNCHANGED <<tree, firstWindow, pr>>,
               slips' \in Nat
        PROVE  TypeOK'
    BY <1>2 DEF TypeOK, StartRun, Runs
  <1>3. ASSUME BatchReports \/ BatchCancelled, slips' \in Nat
        PROVE  TypeOK'
    <2>1. last \in Runs
      BY <1>3 DEF BatchReports, BatchCancelled, Running, TypeOK
    <2>2. last' \in Runs
      BY <1>3, <2>1 DEF BatchReports, BatchCancelled, RollUp, Runs
    <2> QED
      BY <1>3, <2>2 DEF BatchReports, BatchCancelled, TypeOK
  <1>4. ASSUME NEW p \in PRs, slips' \in Nat, UNCHANGED <<tree, last, firstWindow>>,
               NEW c \in {"passing", "failing", "success", "failure"},
               pr' = [pr EXCEPT ![p].check = c]
        PROVE  TypeOK'
    BY <1>4 DEF TypeOK, PullRequests
  <1>5. ASSUME NEW delta \in Deltas
        PROVE  Rebased(delta) \in PullRequests
    <2>1. Apply(delta, tree) \in SUBSET Defects
      BY DEF Apply, Deltas, Defects, TypeOK
    <2> QED
      BY <2>1 DEF Rebased, PullRequests
  <1>6. ASSUME NEW p \in PRs, NEW delta \in Deltas, slips' \in Nat,
               pr' = [pr EXCEPT ![p] = Rebased(delta)],
               UNCHANGED <<tree, last, firstWindow>>
        PROVE  TypeOK'
    BY <1>5, <1>6 DEF TypeOK
  <1>7. ASSUME NEW p \in PRs, Merge(p), slips' \in Nat
        PROVE  TypeOK'
    <2>1. pr' \in [PRs -> PullRequests]
      <3>1. [NoPR EXCEPT !.state = "merged"] \in PullRequests
        BY DEF NoPR, PullRequests, Deltas, Defects
      <3>2. \A q \in PRs : [pr[q] EXCEPT !.current = FALSE] \in PullRequests
        BY DEF TypeOK, PullRequests
      <3> QED
        BY <1>7, <3>1, <3>2, Zenon DEF Merge
    <2>2. tree' \in SUBSET Defects
      BY <1>7 DEF Merge, TypeOK, PullRequests
    <2> QED
      BY <1>7, <2>1, <2>2 DEF Merge, TypeOK
  <1>8. ASSUME AdvisoryPublished, slips' \in Nat
        PROVE  TypeOK'
    <2>1. pr' \in [PRs -> PullRequests]
      BY <1>8 DEF AdvisoryPublished, TypeOK, PullRequests, Defects
    <2> QED
      BY <1>8, <2>1 DEF AdvisoryPublished, TypeOK, Defects
  <1>9. ASSUME Tick, slips' \in Nat
        PROVE  TypeOK'
    <2>1. last' \in Runs \cup {NoRun}
      BY <1>9 DEF Tick, TypeOK, Runs
    <2> QED
      BY <1>9, <2>1 DEF Tick, TypeOK
  <1>10. CASE UNCHANGED vars
    BY <1>10 DEF vars, TypeOK
  <1>11. CASE Next
    <2> USE <1>1, <1>11
    <2>1. CASE BatchOnMain
      BY <2>1, <1>2 DEF BatchOnMain, TypeOK
    <2>2. ASSUME NEW p \in PRs, BatchOnBranch(p)
          PROVE  TypeOK'
      BY <2>2, <1>2 DEF BatchOnBranch, TypeOK, PullRequests
    <2>3. ASSUME NEW p \in PRs, Open(p) \/ AutofixOpens(p) \/ UpdateBranch(p)
          PROVE  TypeOK'
      BY <2>3, <1>6 DEF Open, AutofixOpens, UpdateBranch, TypeOK, PullRequests, Deltas
    <2>4. ASSUME NEW p \in PRs, GateReads(p)
          PROVE  TypeOK'
      <3>1. \E c \in {"passing", "failing"} : pr' = [pr EXCEPT ![p].check = c]
        BY <2>4, Zenon DEF GateReads
      <3> QED
        BY <2>4, <3>1, <1>4 DEF GateReads
    <2>5. ASSUME NEW p \in PRs, GateConcludes(p)
          PROVE  TypeOK'
      BY <2>5, <1>4 DEF GateConcludes
    <2>6. ASSUME NEW p \in PRs, Push(p)
          PROVE  TypeOK'
      <3>1. PICK delta \in {pr[p].delta, "breaks"} : pr' = [pr EXCEPT ![p] = Pushed(p, delta)]
        BY <2>6 DEF Push
      <3>2. pr[p] \in PullRequests
        BY DEF TypeOK
      <3>3. delta \in Deltas
        BY <3>1, <3>2 DEF PullRequests, Deltas
      <3>4. Apply(delta, pr[p].tree) \in SUBSET Defects
        BY <3>2, <3>3 DEF Apply, PullRequests, Deltas, Defects
      <3>5. Pushed(p, delta) \in PullRequests
        BY <3>2, <3>3, <3>4 DEF PullRequests, Pushed
      <3>6. pr' \in [PRs -> PullRequests]
        BY <3>1, <3>5 DEF TypeOK
      <3> QED
        BY <2>6, <3>6 DEF Push, TypeOK
    <2> QED
      BY <2>1, <2>2, <2>3, <2>4, <2>5, <2>6, <1>3, <1>7, <1>8, <1>9 DEF Next
  <1> QED
    BY <1>10, <1>11

\* The gate opens for a clean tree whenever it passes any tree.
LEMMA VerdictOpens == \A t : Verdict(t) => GateOpen
  BY DEF Verdict, GateOpen

\* Steps that move neither the pull requests nor tell of a merge.
LEMMA QuietStep ==
    ASSUME GateInvariant, Next, UNCHANGED pr
    PROVE  AtMostOneSlips' /\ (GateOpen => slips = 0)' /\ (slips = 1 => NoneCanSlip)'
  <1>1. ~ \E p \in PRs : GatedMerge(p)
    BY DEF GatedMerge
  <1>2. slips' = IF GateOpen' THEN 0 ELSE slips
    BY <1>1, EveryStepCounts, Zenon DEF CountSlips
  <1>3. NoneCanSlip => NoneCanSlip'
    BY DEF NoneCanSlip
  <1> QED
    BY <1>2, <1>3 DEF GateInvariant, AtMostOneSlips

\* Steps that give some pull requests a new tree or check but merge none: they
\* leave the gate as it is and make no pull request mergeable unless it is open.
LEMMA JudgingStep ==
    ASSUME GateInvariant, Next, UNCHANGED last, UNCHANGED firstWindow,
           \A p \in PRs : ~ GatedMerge(p),
           ~ GateOpen /\ NoneCanSlip => NoneCanSlip'
    PROVE  AtMostOneSlips' /\ (GateOpen => slips = 0)' /\ (slips = 1 => NoneCanSlip)'
  <1>1. GateOpen' = GateOpen
    BY DEF GateOpen, Verdict, Green, AgeHours
  <1>2. slips' = IF GateOpen THEN 0 ELSE slips
    BY <1>1, EveryStepCounts, Zenon DEF CountSlips
  <1> QED
    BY <1>1, <1>2 DEF GateInvariant, AtMostOneSlips

LEMMA InvariantStep == GateInvariant /\ [Next]_vars => GateInvariant'
  <1> SUFFICES ASSUME GateInvariant, [Next]_vars
               PROVE  GateInvariant'
    OBVIOUS
  <1>0. TypeOK /\ TypeOK'
    BY StepKeepsType DEF GateInvariant
  <1>1. CASE UNCHANGED vars
    BY <1>1 DEF vars, GateInvariant, TypeOK, AtMostOneSlips, GateOpen, Verdict,
                Green, AgeHours, NoneCanSlip
  <1>2. CASE Next
    <2> SUFFICES AtMostOneSlips' /\ (GateOpen => slips = 0)' /\ (slips = 1 => NoneCanSlip)'
      BY <1>0 DEF GateInvariant
    <2>1. CASE UNCHANGED pr
      BY <2>1, <1>2, QuietStep
    <2>2. ASSUME NEW p \in PRs, NEW c, pr' = [pr EXCEPT ![p].check = c],
                 UNCHANGED <<last, firstWindow>>,
                 \/ c \notin {"passing", "success"}
                 \/ c = "passing" /\ GateOpen
                 \/ c = "success" /\ pr[p].check = "passing"
          PROVE  AtMostOneSlips' /\ (GateOpen => slips = 0)' /\ (slips = 1 => NoneCanSlip)'
      <3>1. \A q \in PRs : pr'[q].state = pr[q].state /\ pr'[q].current = pr[q].current
        BY <2>2, <1>0 DEF TypeOK, PullRequests
      <3>2. \A q \in PRs : ~ GatedMerge(q)
        BY <3>1 DEF GatedMerge
      <3>3. ASSUME ~ GateOpen, NEW q \in PRs, pr'[q].check \in {"passing", "success"}
            PROVE  pr[q].check \in {"passing", "success"}
        BY <2>2, <3>3, <1>0 DEF TypeOK, PullRequests
      <3>4. ~ GateOpen /\ NoneCanSlip => NoneCanSlip'
        BY <3>1, <3>3, Zenon DEF NoneCanSlip
      <3> QED
        BY <1>2, <2>2, <3>2, <3>4, JudgingStep
    <2>3. ASSUME NEW p \in PRs, NEW delta,
                 pr' = [pr EXCEPT ![p] = Rebased(delta)],
                 UNCHANGED <<tree, last, firstWindow>>
          PROVE  AtMostOneSlips' /\ (GateOpen => slips = 0)' /\ (slips = 1 => NoneCanSlip)'
      <3>1. \A q \in PRs : pr'[q] = IF q = p THEN Rebased(delta) ELSE pr[q]
        BY <2>3, <1>0 DEF TypeOK
      <3>2. Rebased(delta).state = "open" /\ Rebased(delta).check = "expected"
        BY DEF Rebased
      <3>3. \A q \in PRs : ~ GatedMerge(q)
        BY <3>1, <3>2 DEF GatedMerge
      <3>4. NoneCanSlip => NoneCanSlip'
        BY <3>1, <3>2 DEF NoneCanSlip
      <3> QED
        BY <1>2, <2>3, <3>3, <3>4, JudgingStep
    <2>4. ASSUME NEW p \in PRs, Merge(p)
          PROVE  AtMostOneSlips' /\ (GateOpen => slips = 0)' /\ (slips = 1 => NoneCanSlip)'
      <3>1. GateOpen' = GateOpen
        BY <2>4 DEF Merge, GateOpen, Verdict, Green, AgeHours
      <3>2. \A q \in PRs : IF q = p THEN pr'[q].state = "merged" ELSE ~ pr'[q].current
        BY <2>4, <1>0 DEF Merge, TypeOK, PullRequests, NoPR
      <3>3. NoneCanSlip'
        BY <3>2 DEF NoneCanSlip
      <3>4. ASSUME slips = 1, NEW q \in PRs
            PROVE  ~ GatedMerge(q)
        <4>1. q # p => pr'[q].state = pr[q].state
          BY <2>4, <1>0 DEF Merge, TypeOK, PullRequests
        <4>2. p \notin ReleasePRs => ~ (pr[p].current /\ pr[p].check \in {"passing", "success"})
          BY <2>4, <3>4 DEF GateInvariant, NoneCanSlip, Merge
        <4> QED
          BY <2>4, <4>1, <4>2 DEF GatedMerge, Merge, CheckSatisfied
      <3>5. slips' = IF GateOpen THEN 0
                     ELSE IF \E q \in PRs : GatedMerge(q) THEN slips + 1 ELSE slips
        BY <1>2, <3>1, EveryStepCounts, Zenon DEF CountSlips
      <3>6. slips \in Nat /\ slips <= 1 /\ (GateOpen => slips = 0)
        BY DEF GateInvariant, TypeOK, AtMostOneSlips
      <3>7. slips' <= 1
        BY <3>4, <3>5, <3>6
      <3> QED
        BY <3>1, <3>3, <3>5, <3>7 DEF AtMostOneSlips
    <2>5. ASSUME AdvisoryPublished
          PROVE  AtMostOneSlips' /\ (GateOpen => slips = 0)' /\ (slips = 1 => NoneCanSlip)'
      <3>1. \A q \in PRs : /\ pr'[q].state = pr[q].state
                           /\ pr'[q].current = pr[q].current
                           /\ pr'[q].check = pr[q].check
        BY <2>5, <1>0 DEF AdvisoryPublished, TypeOK, PullRequests
      <3>2. \A q \in PRs : ~ GatedMerge(q)
        BY <3>1 DEF GatedMerge
      <3>3. NoneCanSlip => NoneCanSlip'
        BY <3>1 DEF NoneCanSlip
      <3> QED
        BY <1>2, <2>5, <3>2, <3>3, JudgingStep DEF AdvisoryPublished
    <2>6. ASSUME NEW p \in PRs, Open(p) \/ AutofixOpens(p) \/ UpdateBranch(p)
          PROVE  AtMostOneSlips' /\ (GateOpen => slips = 0)' /\ (slips = 1 => NoneCanSlip)'
      BY <2>3, <2>6 DEF Open, AutofixOpens, UpdateBranch
    <2>7. ASSUME NEW p \in PRs, GateReads(p)
          PROVE  AtMostOneSlips' /\ (GateOpen => slips = 0)' /\ (slips = 1 => NoneCanSlip)'
      <3>1. CASE Verdict(pr[p].tree)
        <4>1. pr' = [pr EXCEPT ![p].check = "passing"] /\ GateOpen
          BY <2>7, <3>1, VerdictOpens, Zenon DEF GateReads
        <4> QED
          BY <2>7, <4>1, <2>2 DEF GateReads
      <3>2. CASE ~ Verdict(pr[p].tree)
        <4>1. pr' = [pr EXCEPT ![p].check = "failing"]
          BY <2>7, <3>2, Zenon DEF GateReads
        <4> QED
          BY <2>7, <4>1, <2>2 DEF GateReads
      <3> QED
        BY <3>1, <3>2
    <2>8. ASSUME NEW p \in PRs, GateConcludes(p)
          PROVE  AtMostOneSlips' /\ (GateOpen => slips = 0)' /\ (slips = 1 => NoneCanSlip)'
      BY <2>8, <2>2 DEF GateConcludes
    <2>9. ASSUME NEW p \in PRs, Push(p)
          PROVE  AtMostOneSlips' /\ (GateOpen => slips = 0)' /\ (slips = 1 => NoneCanSlip)'
      <3>1. \A q \in PRs : /\ pr'[q].state = pr[q].state
                           /\ pr'[q].current = pr[q].current
                           /\ pr'[q].check \in {pr[q].check, "expected"}
        BY <2>9, <1>0 DEF Push, Pushed, TypeOK, PullRequests
      <3>2. \A q \in PRs : ~ GatedMerge(q)
        BY <3>1 DEF GatedMerge
      <3>3. NoneCanSlip => NoneCanSlip'
        BY <3>1 DEF NoneCanSlip
      <3> QED
        BY <1>2, <2>9, <3>2, <3>3, JudgingStep DEF Push
    <2> QED
      BY <1>2, <2>1, <2>4, <2>5, <2>6, <2>7, <2>8, <2>9
         DEF Next, BatchOnMain, BatchOnBranch, BatchReports, BatchCancelled, Tick
  <1> QED
    BY <1>1, <1>2

\* The invariant holds of every behaviour.
THEOREM GateInvariantHolds == Spec => []GateInvariant
  <1>1. Init => GateInvariant
    <2> SUFFICES ASSUME Init
                 PROVE  GateInvariant
      OBVIOUS
    <2>1. TypeOK
      BY DEF Init, TypeOK, PullRequests, NoPR, Deltas, Defects
    <2> QED
      BY <2>1 DEF Init, GateInvariant, AtMostOneSlips
  <1> QED
    BY <1>1, InvariantStep, PTL DEF Spec

\* merge-gate.yml and the ruleset: at most one gated pull request merges after
\* the gate closed, for every number of pull requests and every window.
THEOREM AtMostOneSlipsHolds == Spec => []AtMostOneSlips
  <1>1. GateInvariant => AtMostOneSlips
    BY DEF GateInvariant
  <1> QED
    BY <1>1, GateInvariantHolds, PTL
=============================================================================
