------------------------ MODULE RequiredChecksProofs ------------------------
(***************************************************************************)
(* What a required check says is still true when the ruleset lets a pull   *)
(* request merge, for any pull requests, checks and bounds.                *)
(***************************************************************************)
EXTENDS RequiredChecks, TLAPS

USE ChecksAssumption

\* What the parts of the invariant say of one pull request and one check.
GoodPull(m, q) == q \in PullRequest /\ q.base <= m

GoodRun(m, p, c, q, d, k) ==
    /\ d \in Events /\ k \in Runs
    /\ d.base <= m /\ k.base <= m
    /\ p \in Work =>
         /\ c = "evidence-gate" /\ k.state \in {"proving", "success"} /\ ~ d.raised
              => q.docs \/ q.complete
         /\ c = "commitlint" /\ k.state = "success" => k.conventional
         /\ k.state = "skipped" => c = "lint-test"

\* The invariant, one pull request and one check at a time.
LEMMA InvariantByCheck ==
    ChecksInvariant <=>
      /\ main \in Nat /\ events \in 0..MaxEvents
      /\ pr \in [PRs -> PullRequest]
      /\ due \in [PRs -> [Required -> Events]]
      /\ check \in [PRs -> [Required -> Runs]]
      /\ \A p \in PRs : GoodPull(main, pr[p])
      /\ \A p \in PRs, c \in Required : GoodRun(main, p, c, pr[p], due[p][c], check[p][c])
<1>1. \A p \in Work : p \in PRs
  BY DEF PRs
<1> QED
  BY <1>1 DEF ChecksInvariant, TypeOK, PayloadsAreOld, EvidenceIsCurrent,
     TitleWasConventional, OnlyLintIsSkipped, GoodPull, GoodRun

-----------------------------------------------------------------------------
(***************************************************************************)
(* One pull request changes: the invariant is preserved when what belongs  *)
(* to it is good again.                                                    *)
(***************************************************************************)
LEMMA OneChanges ==
    ASSUME ChecksInvariant, main' \in Nat, main <= main', events' \in 0..MaxEvents,
           NEW p \in PRs, NEW q \in PullRequest,
           NEW d \in [Required -> Events], NEW k \in [Required -> Runs],
           pr' = [pr EXCEPT ![p] = q],
           due' = [due EXCEPT ![p] = d],
           check' = [check EXCEPT ![p] = k],
           GoodPull(main', q),
           \A c \in Required : GoodRun(main', p, c, q, d[c], k[c])
    PROVE  ChecksInvariant'
<1>1. /\ main' \in Nat /\ events' \in 0..MaxEvents
      /\ pr' \in [PRs -> PullRequest]
      /\ due' \in [PRs -> [Required -> Events]]
      /\ check' \in [PRs -> [Required -> Runs]]
  BY DEF ChecksInvariant, TypeOK
<1>2. ASSUME NEW r \in PRs, r # p
      PROVE  GoodPull(main, pr[r])' /\ \A c \in Required : GoodRun(main, r, c, pr[r], due[r][c], check[r][c])'
  <2>1. pr'[r] = pr[r] /\ due'[r] = due[r] /\ check'[r] = check[r]
    BY <1>2 DEF ChecksInvariant, TypeOK
  <2>2. /\ GoodPull(main, pr[r])
        /\ \A c \in Required : GoodRun(main, r, c, pr[r], due[r][c], check[r][c])
    BY InvariantByCheck
  <2>3. main \in Nat /\ pr[r].base \in Nat
    BY DEF ChecksInvariant, TypeOK, PullRequest
  <2>4. GoodPull(main, pr[r])'
    BY <2>1, <2>2, <2>3 DEF GoodPull
  <2>5. ASSUME NEW c \in Required
        PROVE  GoodRun(main, r, c, pr[r], due[r][c], check[r][c])'
    <3>1. due[r][c].base \in Nat /\ check[r][c].base \in Nat
      BY <2>2 DEF GoodRun, Events, Runs
    <3>2. due[r][c].base <= main' /\ check[r][c].base <= main'
      BY <2>2, <2>3, <3>1 DEF GoodRun
    <3> QED
      BY <2>1, <2>2, <3>2 DEF GoodRun
  <2> QED
    BY <2>4, <2>5
<1>3. pr'[p] = q /\ due'[p] = d /\ check'[p] = k
  BY DEF ChecksInvariant, TypeOK
<1>4. \A r \in PRs : GoodPull(main, pr[r])'
  BY <1>2, <1>3 DEF GoodPull
<1>5. \A r \in PRs, c \in Required : GoodRun(main, r, c, pr[r], due[r][c], check[r][c])'
  BY <1>2, <1>3 DEF GoodRun
<1>6. \A r \in Work : r \in PRs
  BY DEF PRs
<1> QED
  BY <1>1, <1>4, <1>5, <1>6 DEF ChecksInvariant, TypeOK, PayloadsAreOld, EvidenceIsCurrent,
     TitleWasConventional, OnlyLintIsSkipped, GoodPull, GoodRun

\* An event is a record of its kind, and carries main as it is.
LEMMA EventIsGood ==
    ASSUME NEW p \in PRs, NEW c \in Required, NEW q \in PullRequest, main \in Nat
    PROVE  Event(p, c, q) \in Events /\ Event(p, c, q).base <= main /\ Event(p, c, q).raised
  BY DEF Event, Events, PullRequest

\* Nothing judged yet and a run to come: good whatever the pull request.
LEMMA ExpectedIsGood ==
    ASSUME NEW p \in PRs, NEW c \in Required, NEW q, NEW d \in Events, main \in Nat,
           d.base <= main
    PROVE  GoodRun(main, p, c, q, d, Expected)
  BY DEF GoodRun, Expected, Runs, Pending, Concluded, Satisfied

\* The invariant holds initially.
LEMMA InitGood == Init => ChecksInvariant
<1> SUFFICES ASSUME Init PROVE ChecksInvariant
  OBVIOUS
<1>1. NoEvent \in Events /\ Expected \in Runs
  BY DEF NoEvent, Events, Expected, Runs, Pending
<1>2. TypeOK
  BY <1>1 DEF Init, TypeOK, PullRequest
<1> QED
  BY <1>2 DEF Init, ChecksInvariant, PayloadsAreOld, EvidenceIsCurrent, TitleWasConventional,
     OnlyLintIsSkipped, NoEvent, Expected, PRs

\* A new head whose checks are due again, or, after release-please, are not.
LEMMA NewHeadGood ==
    ASSUME ChecksInvariant, NEW p \in PRs, NEW q \in PullRequest, q.base <= main,
           NewHead(p, q), main' = main, events' \in 0..MaxEvents,
           NEW d \in [Required -> Events], \A c \in Required : d[c].base <= main,
           due' = [due EXCEPT ![p] = d]
    PROVE  ChecksInvariant'
<1> DEFINE k == [c \in Required |-> Expected]
<1>1. main \in Nat /\ k \in [Required -> Runs]
  BY DEF ChecksInvariant, TypeOK, Expected, Runs, Pending
<1>2. pr' = [pr EXCEPT ![p] = q] /\ check' = [check EXCEPT ![p] = k]
  BY DEF NewHead
<1>3. \A c \in Required : GoodRun(main, p, c, q, d[c], k[c])
  BY <1>1, ExpectedIsGood
<1>4. \A c \in Required : GoodRun(main', p, c, q, d[c], k[c])
  BY <1>3 DEF GoodRun
<1>5. GoodPull(main', q) /\ main' \in Nat /\ main <= main'
  BY <1>1 DEF GoodPull
<1> HIDE DEF k
<1> QED
  BY <1>1, <1>2, <1>4, <1>5, OneChanges

\* Events that raise every check for a new head.
LEMMA RaiseAllGood ==
    ASSUME ChecksInvariant, NEW p \in PRs, NEW q \in PullRequest, q.base <= main,
           NewHead(p, q), Raise(p, q, Required), main' = main, events' \in 0..MaxEvents
    PROVE  ChecksInvariant'
<1> DEFINE d == [c \in Required |-> Event(p, c, q)]
<1>1. main \in Nat
  BY DEF ChecksInvariant, TypeOK
<1>2. d \in [Required -> Events] /\ \A c \in Required : d[c].base <= main
  BY <1>1, EventIsGood
<1>3. due' = [due EXCEPT ![p] = d]
  BY DEF Raise
<1> HIDE DEF d
<1> QED
  BY <1>2, <1>3, NewHeadGood

\* A pull request that is edited or reopened: the checks cs are due, evidence-gate
\* among them when the body may differ.
LEMMA SameHeadGood ==
    ASSUME ChecksInvariant, NEW p \in PRs, NEW q \in PullRequest, q.base <= main,
           NEW cs \in SUBSET Required, Raise(p, q, cs),
           \/ OnEdited \subseteq cs
           \/ q.docs = pr[p].docs /\ q.complete = pr[p].complete,
           pr' = [pr EXCEPT ![p] = q], check' = check, main' = main, events' \in 0..MaxEvents
    PROVE  ChecksInvariant'
<1> DEFINE d == [c \in Required |-> IF c \in cs THEN Event(p, c, q) ELSE due[p][c]]
           k == check[p]
<1>1. /\ main \in Nat /\ k \in [Required -> Runs]
      /\ check' = [check EXCEPT ![p] = k] /\ due' = [due EXCEPT ![p] = d]
  BY DEF ChecksInvariant, TypeOK, Raise
<1>2. \A c \in Required : GoodRun(main, p, c, pr[p], due[p][c], k[c])
  BY InvariantByCheck
<1>3. \A c \in Required : d[c] \in Events /\ d[c].base <= main /\ (c \in cs => d[c].raised)
  BY <1>1, <1>2, EventIsGood DEF GoodRun
<1>4. \A c \in Required : c \notin cs => d[c] = due[p][c]
  OBVIOUS
<1>5. d \in [Required -> Events]
  BY <1>3
<1> HIDE DEF d, k
<1>6. \A c \in Required : GoodRun(main', p, c, q, d[c], k[c])
  BY <1>2, <1>3, <1>4 DEF GoodRun, OnEdited
<1>7. GoodPull(main', q) /\ main' \in Nat /\ main <= main'
  BY <1>1 DEF GoodPull
<1> QED
  BY <1>1, <1>5, <1>6, <1>7, OneChanges

\* One run takes a step and its event, if it has one, stays or is used up.
LEMMA OneRunGood ==
    ASSUME ChecksInvariant, NEW p \in PRs, NEW c \in Required,
           NEW e \in Events, NEW x \in Runs,
           due' = [due EXCEPT ![p][c] = e], check' = [check EXCEPT ![p][c] = x],
           GoodRun(main, p, c, pr[p], e, x),
           pr' = pr, main' = main, events' \in 0..MaxEvents
    PROVE  ChecksInvariant'
<1> DEFINE q == pr[p]
           d == [due[p] EXCEPT ![c] = e]
           k == [check[p] EXCEPT ![c] = x]
<1>1. /\ main \in Nat /\ q \in PullRequest
      /\ d \in [Required -> Events] /\ k \in [Required -> Runs]
      /\ pr' = [pr EXCEPT ![p] = q]
      /\ due' = [due EXCEPT ![p] = d] /\ check' = [check EXCEPT ![p] = k]
  BY DEF ChecksInvariant, TypeOK
<1>2. /\ GoodPull(main, q)
      /\ \A a \in Required : GoodRun(main, p, a, q, due[p][a], check[p][a])
  BY InvariantByCheck
<1>3. /\ d[c] = e /\ k[c] = x
      /\ \A a \in Required : a # c => d[a] = due[p][a] /\ k[a] = check[p][a]
  BY DEF ChecksInvariant, TypeOK
<1>4. \A a \in Required : GoodRun(main, p, a, q, d[a], k[a])
  BY <1>2, <1>3
<1> HIDE DEF q, d, k
<1>6. \A a \in Required : GoodRun(main', p, a, q, d[a], k[a])
  BY <1>4 DEF GoodRun
<1>7. GoodPull(main', q) /\ main' \in Nat /\ main <= main'
  BY <1>1, <1>2 DEF GoodPull
<1> QED
  BY <1>1, <1>6, <1>7, OneChanges

\* Closing and merging touch the state of one pull request, merging main too.
LEMMA StateGood ==
    ASSUME ChecksInvariant, NEW p \in PRs, NEW s \in {"closed", "merged"},
           pr' = [pr EXCEPT ![p].state = s], main' \in {main, main + 1},
           UNCHANGED <<due, check, events>>
    PROVE  ChecksInvariant'
<1> DEFINE q == [pr[p] EXCEPT !.state = s]
           d == due[p]
           k == check[p]
<1>1. /\ main \in Nat /\ pr[p] \in PullRequest /\ d \in [Required -> Events]
      /\ k \in [Required -> Runs] /\ events' \in 0..MaxEvents
      /\ pr' = [pr EXCEPT ![p] = q] /\ due' = [due EXCEPT ![p] = d]
      /\ check' = [check EXCEPT ![p] = k]
  BY DEF ChecksInvariant, TypeOK
<1>2. /\ q \in PullRequest /\ q.base = pr[p].base
      /\ q.docs = pr[p].docs /\ q.complete = pr[p].complete
  BY <1>1 DEF PullRequest
<1>3. main' \in Nat /\ main <= main' /\ (\A n \in Nat : n <= main => n <= main')
  BY <1>1
<1>4. /\ GoodPull(main, pr[p])
      /\ \A c \in Required : GoodRun(main, p, c, pr[p], d[c], k[c])
  BY InvariantByCheck
<1> HIDE DEF q, d, k
<1>5. GoodPull(main', q)
  BY <1>2, <1>3, <1>4 DEF GoodPull, PullRequest
<1>6. ASSUME NEW c \in Required PROVE GoodRun(main', p, c, q, d[c], k[c])
  <2>1. d[c].base \in Nat /\ k[c].base \in Nat
    BY <1>1 DEF Events, Runs
  <2> QED
    BY <1>2, <1>3, <1>4, <2>1 DEF GoodRun
<1> QED
  BY <1>1, <1>2, <1>3, <1>5, <1>6, OneChanges

\* A run comes to another step of itself.
LEMMA SetStateGood ==
    ASSUME ChecksInvariant, NEW p \in PRs, NEW c \in Required,
           NEW s \in Pending \cup Concluded, SetState(p, c, s),
           p \in Work =>
             /\ c = "evidence-gate" /\ s \in {"proving", "success"} /\ ~ due[p][c].raised
                  => pr[p].docs \/ pr[p].complete
             /\ c = "commitlint" /\ s = "success" => check[p][c].conventional
             /\ s = "skipped" => c = "lint-test",
           UNCHANGED <<main, pr, due>>, events' \in 0..MaxEvents
    PROVE  ChecksInvariant'
<1> DEFINE e == due[p][c]
           x == [check[p][c] EXCEPT !.state = s]
<1>1. GoodRun(main, p, c, pr[p], e, check[p][c])
  BY InvariantByCheck
<1>2. /\ e \in Events /\ check[p][c] \in Runs /\ due' = [due EXCEPT ![p][c] = e]
  BY DEF ChecksInvariant, TypeOK
<1>3. /\ x \in Runs /\ x.state = s /\ x.base = check[p][c].base
      /\ x.conventional = check[p][c].conventional
  BY <1>2 DEF Runs
<1>4. check' = [check EXCEPT ![p][c] = x]
  BY DEF SetState
<1> HIDE DEF x
<1>5. GoodRun(main, p, c, pr[p], e, x)
  BY <1>1, <1>3 DEF GoodRun
<1> QED
  BY <1>2, <1>3, <1>4, <1>5, OneRunGood

\* One step, action by action.
LEMMA StepGood == ChecksInvariant /\ [Next]_vars => ChecksInvariant'
<1> SUFFICES ASSUME ChecksInvariant, [Next]_vars
             PROVE  ChecksInvariant'
  OBVIOUS
<1>1. /\ main \in Nat /\ events \in 0..MaxEvents
      /\ pr \in [PRs -> PullRequest]
      /\ due \in [PRs -> [Required -> Events]]
      /\ check \in [PRs -> [Required -> Runs]]
      /\ \A p \in PRs : pr[p].base <= main
  BY DEF ChecksInvariant, TypeOK, PayloadsAreOld
<1>2. Counted => events' \in 0..MaxEvents
  BY <1>1 DEF Counted
<1>3. Work \subseteq PRs /\ Release \subseteq PRs
  BY DEF PRs
<1>4. CASE UNCHANGED vars
  BY <1>4 DEF vars, ChecksInvariant, TypeOK, PayloadsAreOld, EvidenceIsCurrent,
     TitleWasConventional, OnlyLintIsSkipped
<1>5. CASE MainMoves
  <2>1. \A n \in Nat : n <= main => n <= main'
    BY <1>1, <1>5 DEF MainMoves
  <2>2. \A p \in PRs : /\ pr[p].base \in Nat
                       /\ \A c \in Required : due[p][c].base \in Nat /\ check[p][c].base \in Nat
    BY <1>1 DEF PullRequest, Events, Runs
  <2> QED
    BY <1>1, <1>5, <2>1, <2>2 DEF MainMoves, ChecksInvariant, TypeOK, PayloadsAreOld,
       EvidenceIsCurrent, TitleWasConventional, OnlyLintIsSkipped
<1>6. ASSUME NEW p \in Work, Open(p) PROVE ChecksInvariant'
  <2>1. PICK d, t, b \in BOOLEAN :
          LET q == [state |-> "open", base |-> main, replaced |-> FALSE, docs |-> d,
                    conventional |-> t, complete |-> b]
          IN NewHead(p, q) /\ Raise(p, q, Required)
    BY <1>6 DEF Open
  <2> DEFINE q == [state |-> "open", base |-> main, replaced |-> FALSE, docs |-> d,
                   conventional |-> t, complete |-> b]
  <2>2. q \in PullRequest /\ q.base <= main
    BY <1>1 DEF PullRequest
  <2>3. NewHead(p, q) /\ Raise(p, q, Required) /\ main' = main /\ events' \in 0..MaxEvents
    BY <1>1, <1>6, <2>1 DEF Open
  <2> HIDE DEF q
  <2> QED
    BY <1>3, <2>2, <2>3, RaiseAllGood
<1>7. ASSUME NEW p \in Work, Push(p) PROVE ChecksInvariant'
  <2>1. PICK d \in BOOLEAN, m \in {pr[p].base, main} :
          LET q == [pr[p] EXCEPT !.base = m, !.docs = d, !.replaced = TRUE]
          IN NewHead(p, q) /\ Raise(p, q, Required)
    BY <1>7 DEF Push
  <2> DEFINE q == [pr[p] EXCEPT !.base = m, !.docs = d, !.replaced = TRUE]
  <2>2. q \in PullRequest /\ q.base <= main
    <3>1. pr[p] \in PullRequest /\ m \in Nat /\ m <= main
      BY <1>1, <1>3 DEF PullRequest
    <3> QED
      BY <3>1 DEF PullRequest
  <2>3. NewHead(p, q) /\ Raise(p, q, Required) /\ main' = main /\ events' \in 0..MaxEvents
    BY <1>2, <1>7, <2>1 DEF Push
  <2> HIDE DEF q
  <2> QED
    BY <1>3, <2>2, <2>3, RaiseAllGood
<1>8. ASSUME NEW p \in Work, Edit(p) PROVE ChecksInvariant'
  <2>1. PICK t, b \in BOOLEAN :
          LET q == [pr[p] EXCEPT !.conventional = t, !.complete = b]
          IN pr' = [pr EXCEPT ![p] = q] /\ Raise(p, q, OnEdited)
    BY <1>8 DEF Edit
  <2> DEFINE q == [pr[p] EXCEPT !.conventional = t, !.complete = b]
  <2>2. q \in PullRequest /\ q.base <= main
    BY <1>1, <1>3 DEF PullRequest
  <2>3. /\ pr' = [pr EXCEPT ![p] = q] /\ Raise(p, q, OnEdited)
        /\ main' = main /\ check' = check /\ events' \in 0..MaxEvents
    BY <1>2, <1>8, <2>1 DEF Edit
  <2>4. OnEdited \in SUBSET Required
    BY DEF OnEdited
  <2> HIDE DEF q
  <2> QED
    BY <1>3, <2>2, <2>3, <2>4, SameHeadGood
<1>9. ASSUME NEW p \in PRs, Close(p) PROVE ChecksInvariant'
  BY <1>9, StateGood DEF Close
<1>10. ASSUME NEW p \in PRs, Merge(p) PROVE ChecksInvariant'
  BY <1>10, StateGood DEF Merge
<1>11. ASSUME NEW p \in PRs, Reopen(p) PROVE ChecksInvariant'
  <2> DEFINE q == [pr[p] EXCEPT !.state = "open"]
  <2>1. q \in PullRequest /\ q.base <= main
    BY <1>1 DEF PullRequest
  <2>2. Raise(p, q, Required)
    BY <1>1, <1>11 DEF Reopen, Raise, Event, PullRequest
  <2>3. /\ pr' = [pr EXCEPT ![p] = q] /\ main' = main /\ check' = check
        /\ events' \in 0..MaxEvents /\ OnEdited \subseteq Required
    BY <1>2, <1>11 DEF Reopen, OnEdited
  <2> HIDE DEF q
  <2> QED
    BY <2>1, <2>2, <2>3, SameHeadGood
<1>12. ASSUME NEW p \in Release, ReleaseUpdates(p) PROVE ChecksInvariant'
  <2> DEFINE q == [pr[p] EXCEPT !.state = "open", !.base = main]
             d == [c \in Required |-> NoEvent]
  <2>1. q \in PullRequest /\ q.base <= main
    <3>1. pr[p] \in PullRequest /\ main <= main
      BY <1>1, <1>3
    <3> QED
      BY <1>1, <3>1 DEF PullRequest
  <2>2. d \in [Required -> Events] /\ \A c \in Required : d[c].base <= main
    BY <1>1 DEF NoEvent, Events
  <2>3. /\ NewHead(p, q) /\ due' = [due EXCEPT ![p] = d]
        /\ main' = main /\ events' \in 0..MaxEvents
    BY <1>2, <1>12 DEF ReleaseUpdates
  <2> HIDE DEF q, d
  <2> QED
    BY <1>3, <2>1, <2>2, <2>3, NewHeadGood
<1>13. ASSUME NEW p \in PRs, NEW c \in Required, StartRun(p, c) PROVE ChecksInvariant'
  <2> DEFINE x == [state |-> FirstState(p, c), base |-> due[p][c].base,
                   conventional |-> due[p][c].conventional]
  <2>1. due[p][c] \in Events /\ due[p][c].base <= main
    BY <1>1 DEF ChecksInvariant, PayloadsAreOld
  <2>2. x \in Runs /\ NoEvent \in Events /\ NoEvent.base <= main
    BY <1>1, <2>1 DEF Runs, Events, NoEvent, FirstState, Pending, Concluded, Satisfied
  <2>3. GoodRun(main, p, c, pr[p], NoEvent, x)
    BY <2>1, <2>2 DEF GoodRun, FirstState
  <2>4. /\ due' = [due EXCEPT ![p][c] = NoEvent] /\ check' = [check EXCEPT ![p][c] = x]
        /\ pr' = pr /\ main' = main /\ events' \in 0..MaxEvents
    BY <1>1, <1>13 DEF StartRun
  <2> HIDE DEF x
  <2> QED
    BY <2>2, <2>3, <2>4, OneRunGood
<1>14. ASSUME NEW p \in Work, "lint-test" \in Required, Detect(p) PROVE ChecksInvariant'
  BY <1>1, <1>3, <1>14, SetStateGood DEF Detect, Pending, Concluded, Satisfied
<1>15. ASSUME NEW p \in Work, "evidence-gate" \in Required, ReadBody(p) PROVE ChecksInvariant'
  BY <1>1, <1>3, <1>15, SetStateGood DEF ReadBody, Pending, Concluded, Satisfied
<1>16. ASSUME NEW p \in Work, NEW c \in Required, Finish(p, c) PROVE ChecksInvariant'
  BY <1>1, <1>3, <1>16, SetStateGood DEF Finish, Pending, Concluded, Satisfied
<1>17. ASSUME NEW p \in PRs, NEW c \in Required, Rerun(p, c) PROVE ChecksInvariant'
  <2>1. FirstState(p, c) \in Pending \cup Concluded
    BY DEF FirstState, Pending, Concluded, Satisfied
  <2>2. p \in Work => FirstState(p, c) \in {"detecting", "running"}
    BY DEF FirstState
  <2> QED
    BY <1>2, <1>17, <2>1, <2>2, SetStateGood DEF Rerun
<1>18. ASSUME NEW p \in Work, "lint-test" \in Required, RerunEarlierHead(p)
       PROVE  ChecksInvariant'
  BY <1>2, <1>3, <1>18, SetStateGood DEF RerunEarlierHead, Pending, Concluded, Satisfied
<1>19. ASSUME NEW p \in Work, "evidence-gate" \in Required, ProveEvidence(p)
       PROVE  ChecksInvariant'
  <2>1. ~ due[p]["evidence-gate"].raised => pr[p].docs \/ pr[p].complete
    BY <1>3, <1>19 DEF ProveEvidence, ChecksInvariant, EvidenceIsCurrent
  <2> QED
    BY <1>1, <1>3, <1>19, <2>1, SetStateGood DEF ProveEvidence, Pending, Concluded, Satisfied
<1>20. ASSUME NEW p \in Work, "commitlint" \in Required, LintCommits(p) PROVE ChecksInvariant'
  BY <1>1, <1>3, <1>20, SetStateGood DEF LintCommits, Pending, Concluded, Satisfied
<1> QED
  BY <1>3, <1>4, <1>5, <1>6, <1>7, <1>8, <1>9, <1>10, <1>11, <1>12, <1>13, <1>14, <1>15,
     <1>16, <1>17, <1>18, <1>19, <1>20 DEF Next

\* What the ruleset relies on, at any time: payloads are no newer than main, evidence
\* is current unless a run is to come, a passed title was conventional, and only
\* lint-test is ever skipped.
THEOREM ChecksInvariantHolds == Spec => []ChecksInvariant
<1> QED
  BY InitGood, StepGood, PTL DEF Spec

\* What is merged is what was judged: with the strict policy the judged tree is the
\* merged one, and what was edited since has a run to come.
THEOREM MergedAsJudgedHolds == Spec => MergedAsJudged
<1>1. ASSUME ChecksInvariant, [Next]_vars, NEW p \in Work,
             pr[p].state = "open", pr'[p].state = "merged"
      PROVE  AsJudged(p)
  <2> USE <1>1
  <2>1. p \in PRs /\ p \notin Release /\ pr[p] \in PullRequest /\ main \in Nat
    BY DEF PRs, ChecksInvariant, TypeOK
  <2>2. Mergeable(p)
    <3>1. pr' # pr
      OBVIOUS
    <3>2. CASE \E r \in Work : Open(r) \/ Push(r) \/ Edit(r)
      <4>1. PICK r \in Work : Open(r) \/ Push(r) \/ Edit(r)
        BY <3>2
      <4>2. r = p => pr'[p].state = "open"
        <5>1. pr \in [PRs -> PullRequest]
          BY DEF ChecksInvariant, TypeOK
        <5>2. Open(r) => r # p
          BY DEF Open
        <5>3. Push(r) /\ r = p => pr'[p].state = "open"
          BY <2>1, <5>1 DEF Push, NewHead, PullRequest
        <5>4. Edit(r) /\ r = p => pr'[p].state = "open"
          BY <2>1, <5>1 DEF Edit, PullRequest
        <5> QED
          BY <4>1, <5>2, <5>3, <5>4
      <4>3. r # p => pr'[p] = pr[p]
        BY <2>1, <4>1 DEF Open, Push, Edit, NewHead, ChecksInvariant, TypeOK
      <4> QED
        BY <4>2, <4>3
    <3>3. CASE \E r \in PRs : Close(r) \/ Reopen(r)
      <4>1. PICK r \in PRs : Close(r) \/ Reopen(r)
        BY <3>3
      <4>2. r # p => pr'[p] = pr[p]
        BY <2>1, <4>1 DEF Close, Reopen, ChecksInvariant, TypeOK
      <4>3. r = p => pr'[p].state \in {"closed", "open"}
        BY <2>1, <4>1 DEF Close, Reopen, ChecksInvariant, TypeOK, PullRequest
      <4> QED
        BY <4>2, <4>3
    <3>4. CASE \E r \in Release : ReleaseUpdates(r)
      BY <2>1, <3>4 DEF ReleaseUpdates, NewHead
    <3>5. CASE \E r \in PRs : Merge(r)
      BY <2>1, <3>5 DEF Merge, ChecksInvariant, TypeOK
    <3>6. CASE UNCHANGED pr
      BY <3>1, <3>6
    <3> QED
      BY <3>2, <3>3, <3>4, <3>5, <3>6 DEF Next, vars, MainMoves, StartRun, Rerun, Detect,
         RerunEarlierHead, ReadBody, ProveEvidence, LintCommits, Finish
  <2>3. ASSUME NEW c \in Required
        PROVE  \/ check[p][c].state = "success" /\ Judged(p, c) = main
               \/ check[p][c].state = "skipped" /\ c = "lint-test"
    <3>1. check[p][c].state \in Satisfied /\ pr[p].base = main
      BY <2>2 DEF Mergeable
    <3>2. check[p][c].base <= main
      BY <2>1 DEF ChecksInvariant, PayloadsAreOld
    <3> QED
      BY <3>1, <3>2 DEF Judged, Satisfied, ChecksInvariant, OnlyLintIsSkipped
  <2>4. "evidence-gate" \in Required
          => pr[p].docs \/ pr[p].complete \/ due[p]["evidence-gate"].raised
    BY <2>3 DEF ChecksInvariant, EvidenceIsCurrent
  <2>5. "commitlint" \in Required
          => pr[p].conventional \/ pr[p].conventional # check[p]["commitlint"].conventional
    BY <2>3 DEF ChecksInvariant, TitleWasConventional
  <2> QED
    BY <2>3, <2>4, <2>5 DEF AsJudged
<1>2. ChecksInvariant /\ [Next]_vars
        => [\A p \in Work : pr[p].state = "open" /\ pr'[p].state = "merged" => AsJudged(p)]_vars
  BY <1>1
<1> QED
  BY <1>2, ChecksInvariantHolds, PTL DEF Spec, MergedAsJudged

-----------------------------------------------------------------------------
(***************************************************************************)
(* No required check is forgotten: a step concerns one pull request, and   *)
(* raises its checks or leaves them with a conclusion or a job that goes   *)
(* on.                                                                     *)
(***************************************************************************)
Remembered(p, c) ==
    pr[p].state # "none" => \/ due[p][c].raised
                            \/ check[p][c].state \in Concluded \cup GoesOn(c)

\* A check that no step has touched is as remembered as it was.
LEMMA UntouchedIsRemembered ==
    ASSUME NoneIsForgotten, NEW p \in Work, NEW c \in Required,
           pr'[p].state = "none" \/ pr[p].state # "none",
           due'[p][c] = due[p][c], check'[p][c] = check[p][c]
    PROVE  Remembered(p, c)'
  BY DEF Remembered, NoneIsForgotten

\* An event remembers the checks it raises.
LEMMA RaisedIsRemembered ==
    ASSUME ChecksInvariant, NEW p \in PRs, NEW q, NEW cs, NEW c \in cs \cap Required,
           Raise(p, q, cs)
    PROVE  Remembered(p, c)'
<1>1. due \in [PRs -> [Required -> Events]]
  BY DEF ChecksInvariant, TypeOK
<1>2. due'[p][c] = Event(p, c, q)
  BY <1>1 DEF Raise
<1> QED
  BY <1>2 DEF Remembered, Event

\* A step that concerns the pull request r forgets none of the others.
LEMMA OnePullRequest ==
    ASSUME ChecksInvariant, NoneIsForgotten, NEW r \in PRs, NEW q,
           UNCHANGED pr \/ pr' = [pr EXCEPT ![r] = q],
           NEW d, UNCHANGED due \/ due' = [due EXCEPT ![r] = d],
           NEW k, UNCHANGED check \/ check' = [check EXCEPT ![r] = k],
           r \in Work => \A c \in Required : Remembered(r, c)'
    PROVE  NoneIsForgotten'
<1> SUFFICES ASSUME NEW p \in Work, NEW c \in Required
             PROVE  Remembered(p, c)'
  BY DEF Remembered, NoneIsForgotten
<1>1. CASE p = r
  BY <1>1
<1>2. CASE p # r
  <2>1. p \in PRs
    BY DEF PRs
  <2>2. pr'[p] = pr[p] /\ due'[p] = due[p] /\ check'[p] = check[p]
    BY <1>2, <2>1 DEF ChecksInvariant, TypeOK
  <2> QED
    BY <2>2, UntouchedIsRemembered
<1> QED
  BY <1>1, <1>2

\* Every check is due after an event of all of them.
LEMMA RaiseAllRemembers ==
    ASSUME ChecksInvariant, NoneIsForgotten, NEW p \in PRs, NEW q,
           pr' = [pr EXCEPT ![p] = q], Raise(p, q, Required),
           UNCHANGED check \/ check' = [check EXCEPT ![p] = [c \in Required |-> Expected]]
    PROVE  NoneIsForgotten'
<1> DEFINE d == [c \in Required |-> Event(p, c, q)]
<1>1. due' = [due EXCEPT ![p] = d]
  <2>1. [c \in Required |-> IF c \in Required THEN Event(p, c, q) ELSE due[p][c]] = d
    OBVIOUS
  <2> QED
    BY <2>1 DEF Raise
<1>2. \A c \in Required : Remembered(p, c)'
  BY RaisedIsRemembered
<1> HIDE DEF d
<1> QED
  BY <1>1, <1>2, OnePullRequest

\* A run that has its first job, goes on or ends is remembered.
LEMMA SetStateRemembers ==
    ASSUME ChecksInvariant, NoneIsForgotten, NEW p \in PRs, NEW c \in Required, NEW s,
           SetState(p, c, s), p \in Work => s \in Concluded \cup GoesOn(c),
           UNCHANGED <<pr, due>>
    PROVE  NoneIsForgotten'
<1> DEFINE k == [check[p] EXCEPT ![c].state = s]
<1>1. check \in [PRs -> [Required -> Runs]]
  BY DEF ChecksInvariant, TypeOK
<1>2. check' = [check EXCEPT ![p] = k]
  BY DEF SetState
<1>3. ASSUME p \in Work, NEW b \in Required
      PROVE  Remembered(p, b)'
  <2>1. CASE b = c
    <3>1. check'[p][b].state = s
      BY <1>1, <1>2, <2>1 DEF Runs
    <3> QED
      BY <1>3, <2>1, <3>1 DEF Remembered
  <2>2. CASE b # c
    <3>1. check'[p][b] = check[p][b]
      BY <1>1, <1>2, <2>2
    <3> QED
      BY <1>3, <3>1, UntouchedIsRemembered
  <2> QED
    BY <2>1, <2>2
<1> HIDE DEF k
<1> QED
  BY <1>2, <1>3, OnePullRequest

LEMMA RememberedStep == ChecksInvariant /\ NoneIsForgotten /\ [Next]_vars => NoneIsForgotten'
<1> SUFFICES ASSUME ChecksInvariant, NoneIsForgotten, [Next]_vars
             PROVE  NoneIsForgotten'
  OBVIOUS
<1>1. /\ pr \in [PRs -> PullRequest] /\ due \in [PRs -> [Required -> Events]]
      /\ check \in [PRs -> [Required -> Runs]]
  BY DEF ChecksInvariant, TypeOK
<1>2. /\ Work \subseteq PRs /\ Release \subseteq PRs
      /\ \A p \in Work : p \notin Release
  BY DEF PRs
<1>3. CASE UNCHANGED vars \/ MainMoves
  BY <1>3 DEF vars, MainMoves, NoneIsForgotten
<1>4. ASSUME NEW p \in Work, Open(p) PROVE NoneIsForgotten'
  <2>1. PICK q : NewHead(p, q) /\ Raise(p, q, Required)
    BY <1>4 DEF Open
  <2> QED
    BY <1>2, <2>1, RaiseAllRemembers DEF NewHead
<1>5. ASSUME NEW p \in Work, Push(p) PROVE NoneIsForgotten'
  <2>1. PICK q : NewHead(p, q) /\ Raise(p, q, Required)
    BY <1>5 DEF Push
  <2> QED
    BY <1>2, <2>1, RaiseAllRemembers DEF NewHead
<1>6. ASSUME NEW p \in Work, Edit(p) PROVE NoneIsForgotten'
  <2>1. PICK q : pr' = [pr EXCEPT ![p] = q] /\ Raise(p, q, OnEdited)
    BY <1>6 DEF Edit
  <2>2. /\ due' = [due EXCEPT ![p] = [c \in Required |->
                     IF c \in OnEdited THEN Event(p, c, q) ELSE due[p][c]]]
        /\ check' = check
    BY <1>6, <2>1 DEF Edit, Raise
  <2>3. ASSUME NEW c \in Required
        PROVE  Remembered(p, c)'
    <3>1. CASE c \in OnEdited
      BY <1>2, <2>1, <3>1, RaisedIsRemembered
    <3>2. CASE c \notin OnEdited
      <4>1. due'[p][c] = due[p][c]
        BY <1>1, <1>2, <2>2, <3>2
      <4>2. pr[p].state # "none"
        BY <1>6 DEF Edit
      <4> QED
        BY <2>2, <4>1, <4>2, UntouchedIsRemembered
    <3> QED
      BY <3>1, <3>2
  <2> QED
    BY <1>2, <2>1, <2>2, <2>3, OnePullRequest
<1>7. ASSUME NEW p \in PRs, Close(p) \/ Merge(p) PROVE NoneIsForgotten'
  <2>1. PICK q : pr' = [pr EXCEPT ![p] = q]
    BY <1>7 DEF Close, Merge
  <2>2. due' = due /\ check' = check /\ pr[p].state # "none"
    BY <1>7 DEF Close, Merge, Mergeable
  <2>3. p \in Work => \A c \in Required : Remembered(p, c)'
    BY <2>2, UntouchedIsRemembered
  <2> QED
    BY <2>1, <2>2, <2>3, OnePullRequest
<1>8. ASSUME NEW p \in PRs, Reopen(p) PROVE NoneIsForgotten'
  <2>1. /\ pr' = [pr EXCEPT ![p] = [pr[p] EXCEPT !.state = "open"]]
        /\ Raise(p, pr[p], Required) /\ check' = check
    BY <1>8 DEF Reopen
  <2>2. \A c \in Required : Remembered(p, c)'
    BY <2>1, RaisedIsRemembered
  <2>3. due' = [due EXCEPT ![p] = [c \in Required |->
                   IF c \in Required THEN Event(p, c, pr[p]) ELSE due[p][c]]]
    BY <2>1 DEF Raise
  <2> QED
    BY <2>1, <2>2, <2>3, OnePullRequest
<1>9. ASSUME NEW p \in Release, ReleaseUpdates(p) PROVE NoneIsForgotten'
  <2>1. /\ pr' = [pr EXCEPT ![p] = [pr[p] EXCEPT !.state = "open", !.base = main]]
        /\ due' = [due EXCEPT ![p] = [c \in Required |-> NoEvent]]
        /\ check' = [check EXCEPT ![p] = [c \in Required |-> Expected]]
    BY <1>9 DEF ReleaseUpdates, NewHead
  <2> QED
    BY <1>2, <2>1, OnePullRequest
<1>10. ASSUME NEW p \in PRs, NEW c \in Required, StartRun(p, c) PROVE NoneIsForgotten'
  <2> DEFINE x == [state |-> FirstState(p, c), base |-> due[p][c].base,
                   conventional |-> due[p][c].conventional]
             d == [due[p] EXCEPT ![c] = NoEvent]
             k == [check[p] EXCEPT ![c] = x]
  <2>1. pr' = pr /\ due' = [due EXCEPT ![p] = d] /\ check' = [check EXCEPT ![p] = k]
    BY <1>10 DEF StartRun
  <2>2. ASSUME p \in Work, NEW b \in Required
        PROVE  Remembered(p, b)'
    <3>1. CASE b = c
      <4>1. check'[p][c].state = FirstState(p, c)
        BY <1>1, <1>2, <2>1
      <4>2. FirstState(p, c) \in GoesOn(c)
        BY <1>2, <2>2 DEF FirstState, GoesOn
      <4> QED
        BY <3>1, <4>1, <4>2 DEF Remembered
    <3>2. CASE b # c
      <4>1. due'[p][b] = due[p][b] /\ check'[p][b] = check[p][b]
        BY <1>1, <1>2, <2>1, <3>2
      <4> QED
        BY <2>1, <2>2, <4>1, UntouchedIsRemembered
    <3> QED
      BY <3>1, <3>2
  <2> HIDE DEF d, k
  <2> QED
    BY <2>1, <2>2, OnePullRequest
<1>11. ASSUME NEW p \in PRs, NEW c \in Required, Rerun(p, c) PROVE NoneIsForgotten'
  <2>1. p \in Work => FirstState(p, c) \in GoesOn(c)
    BY <1>2 DEF FirstState, GoesOn
  <2> QED
    BY <1>11, <2>1, SetStateRemembers DEF Rerun
<1>12. ASSUME NEW p \in Work, "lint-test" \in Required, Detect(p) \/ RerunEarlierHead(p)
       PROVE  NoneIsForgotten'
  <2>1. PICK s \in {"running", "skipped", "cancelled"} :
           SetState(p, "lint-test", s) /\ UNCHANGED <<pr, due>>
    BY <1>12 DEF Detect, RerunEarlierHead
  <2>2. s \in Concluded \cup GoesOn("lint-test")
    BY DEF Concluded, Satisfied, GoesOn
  <2> QED
    BY <1>2, <1>12, <2>1, <2>2, SetStateRemembers
<1>13. ASSUME NEW p \in Work, "evidence-gate" \in Required, ReadBody(p) \/ ProveEvidence(p)
       PROVE  NoneIsForgotten'
  <2>1. PICK s \in {"success", "failure", "proving"} :
           SetState(p, "evidence-gate", s) /\ UNCHANGED <<pr, due>>
    BY <1>13 DEF ReadBody, ProveEvidence
  <2>2. s \in Concluded \cup GoesOn("evidence-gate")
    BY DEF Concluded, Satisfied, GoesOn
  <2> QED
    BY <1>2, <1>13, <2>1, <2>2, SetStateRemembers
<1>14. ASSUME NEW p \in Work, NEW c \in Required,
              Finish(p, c) \/ (c = "commitlint" /\ LintCommits(p))
       PROVE  NoneIsForgotten'
  <2>1. PICK s \in {"success", "failure"} : SetState(p, c, s) /\ UNCHANGED <<pr, due>>
    BY <1>14 DEF Finish, LintCommits
  <2>2. s \in Concluded
    BY DEF Concluded, Satisfied
  <2> QED
    BY <1>2, <2>1, <2>2, SetStateRemembers
<1> QED
  BY <1>3, <1>4, <1>5, <1>6, <1>7, <1>8, <1>9, <1>10, <1>11, <1>12, <1>13, <1>14 DEF Next

\* No required check of an opened pull request is forgotten: what is left for every
\* check to conclude is that due runs are created and jobs end.
THEOREM NoneIsForgottenHolds == Spec => []NoneIsForgotten
<1>1. Init => NoneIsForgotten
  <2>1. \A p \in Work : p \in PRs
    BY DEF PRs
  <2> QED
    BY <2>1 DEF Init, NoneIsForgotten
<1> QED
  BY <1>1, RememberedStep, ChecksInvariantHolds, PTL DEF Spec
=============================================================================
