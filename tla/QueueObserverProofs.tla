------------------------ MODULE QueueObserverProofs ------------------------
(***************************************************************************)
(* Proofs about QueueObserver: the inductive invariant, and with it that a *)
(* known report is exact for one moment of the observation.                *)
(***************************************************************************)
EXTENDS QueueObserver, TLAPS

USE ObserverAssumption

\* Statuses of a listed run, and that each of them has its list.
LEMMA ActiveStatuses ==
    /\ Active = {"queued", "in_progress", "waiting", "pending", "requested"}
    /\ \A s \in Active : \E i \in 1..5 : ACTIVE[i] = s
    /\ \A i \in 1..5 : ACTIVE[i] \in Active
  <1>1. \A i \in 1..5 : i = 1 \/ i = 2 \/ i = 3 \/ i = 4 \/ i = 5
    OBVIOUS
  <1>2. ACTIVE[1] = "queued" /\ ACTIVE[2] = "in_progress" /\ ACTIVE[3] = "waiting"
        /\ ACTIVE[4] = "pending" /\ ACTIVE[5] = "requested"
    BY DEF ACTIVE
  <1>3. Active = {"queued", "in_progress", "waiting", "pending", "requested"}
    BY <1>1, <1>2 DEF Active
  <1> QED
    BY <1>1, <1>2, <1>3

\* What the world may do to what the observer looks at: a run or a job that
\* changes gets the time, respectively the number, of its change.
Advance ==
    /\ UNCHANGED local
    /\ clock' \in Times /\ clock <= clock'
    /\ changes' \in Stamps /\ changes <= changes'
    /\ run' \in [Runs -> [is : RunStates, job : JobStates]]
    /\ health' \in HealthStates
    /\ \A r \in Runs :
          /\ run'[r].is = run[r].is \/ run'[r].is.updated = clock
          /\ run'[r].job = run[r].job
             \/ (changes' = changes + 1 /\ run'[r].job.event = changes')
    /\ health' = health \/ (changes' = changes + 1 /\ health'.head = changes')

RunAdvances(r) ==
    /\ run'[r] \in [is : RunStates, job : JobStates]
    /\ run'[r].is = run[r].is \/ run'[r].is.updated = clock
    /\ run'[r].job = run[r].job \/ run'[r].job.event = changes + 1

\* A change of runs or of the health is an advance if each run's is.
LEMMA ChangeAdvances ==
    ASSUME TypeOK, changes < MaxChanges, changes' = changes + 1, UNCHANGED <<clock, local>>,
           run' = [r \in Runs |-> run'[r]], \A r \in Runs : RunAdvances(r),
           health' \in HealthStates, health' = health \/ health'.head = changes + 1
    PROVE  Advance
  <1>1. clock' \in Times /\ clock <= clock' /\ changes' \in Stamps /\ changes <= changes'
    BY DEF TypeOK, Times, Stamps
  <1>2. \A r \in Runs : run'[r] \in [is : RunStates, job : JobStates]
    BY DEF RunAdvances
  <1>3. run' \in [Runs -> [is : RunStates, job : JobStates]]
    BY <1>2
  <1>4. \A r \in Runs :
          /\ run'[r].is = run[r].is \/ run'[r].is.updated = clock
          /\ run'[r].job = run[r].job
             \/ (changes' = changes + 1 /\ run'[r].job.event = changes')
    BY DEF RunAdvances
  <1>5. health' = health \/ (changes' = changes + 1 /\ health'.head = changes')
    OBVIOUS
  <1> QED
    BY <1>1, <1>3, <1>4, <1>5 DEF Advance

\* What a job event makes of a run's jobs.
LEMMA JobAfterAdvances ==
    ASSUME TypeOK, changes < MaxChanges, NEW r \in Runs,
           NEW event \in BOOLEAN, NEW starts \in BOOLEAN
    PROVE  /\ JobAfter(r, event, starts) \in JobStates
           /\ \/ JobAfter(r, event, starts) = run[r].job
              \/ JobAfter(r, event, starts).event = changes + 1
  <1>1. changes + 1 \in Stamps /\ clock \in Times
    BY DEF TypeOK, Stamps
  <1>2. run[r].job \in JobStates
    BY DEF TypeOK
  <1>3. run[r].job = [event |-> run[r].job.event, active |-> run[r].job.active]
    BY <1>2 DEF JobStates
  <1>4. CASE event
    BY <1>1, <1>2, <1>4 DEF JobAfter, JobStates
  <1>5. CASE ~ event
    BY <1>2, <1>3, <1>5 DEF JobAfter
  <1> QED
    BY <1>4, <1>5

\* What the world does to a single run.
LEMMA RunMayMove ==
    ASSUME TypeOK, changes < MaxChanges, NEW r \in Runs,
           NEW status \in Active \cup {"none", "completed"},
           NEW job \in JobStates, job = run[r].job \/ job.event = changes + 1,
           run'[r] = [is |-> [status |-> status, updated |-> clock], job |-> job]
    PROVE  RunAdvances(r)
  <1>1. [status |-> status, updated |-> clock] \in RunStates
    BY DEF TypeOK, RunStates
  <1> QED
    BY <1>1 DEF RunAdvances

LEMMA RunMayStay ==
    ASSUME TypeOK, NEW r \in Runs, run'[r] = run[r]
    PROVE  RunAdvances(r)
  BY DEF TypeOK, RunAdvances

LEMMA MoveAdvances ==
    ASSUME TypeOK, NEW r \in Runs, NEW to \in Active, NEW event \in BOOLEAN, Move(r, to, event)
    PROVE  Advance
  <1>1. changes < MaxChanges /\ changes' = changes + 1 /\ UNCHANGED <<clock, health, local>>
    BY DEF Move
  <1>2. \A q \in Runs : RunAdvances(q)
    <2> SUFFICES ASSUME NEW q \in Runs PROVE RunAdvances(q)
      OBVIOUS
    <2>0. run[q] \in [is : RunStates, job : JobStates]
      BY DEF TypeOK
    <2>1. CASE q = r
      <3>1. run'[q] = [is |-> [status |-> to, updated |-> clock],
                       job |-> JobAfter(r, event, TRUE)]
        BY <2>1 DEF Move
      <3>2. /\ JobAfter(r, event, TRUE) \in JobStates
            /\ JobAfter(r, event, TRUE) = run[r].job \/ JobAfter(r, event, TRUE).event = changes + 1
        BY <1>1, JobAfterAdvances
      <3>3. to \in Active \cup {"none", "completed"}
        OBVIOUS
      <3> QED
        BY <3>1, <3>2, <3>3, <2>1, <1>1, RunMayMove
    <2>2. CASE q # r /\ to = "pending" /\ run[q].is.status = "pending"
      <3>1. run'[q] = [run[q] EXCEPT !.is = [status |-> "completed", updated |-> clock]]
        BY <2>2 DEF Move
      <3>2. run'[q] = [is |-> [status |-> "completed", updated |-> clock], job |-> run[q].job]
        BY <3>1, <2>0
      <3>3. "completed" \in Active \cup {"none", "completed"} /\ run[q].job \in JobStates
        BY <2>0
      <3> QED
        BY <3>2, <3>3, <1>1, RunMayMove
    <2>3. CASE q # r /\ ~ (to = "pending" /\ run[q].is.status = "pending")
      <3>1. run'[q] = run[q]
        BY <2>3 DEF Move
      <3> QED
        BY <3>1, RunMayStay
    <2> QED
      BY <2>1, <2>2, <2>3
  <1>3. run' = [q \in Runs |-> run'[q]]
    BY DEF Move
  <1>4. health' = health /\ health' \in HealthStates
    BY <1>1 DEF TypeOK
  <1> QED
    BY <1>1, <1>2, <1>3, <1>4, ChangeAdvances

\* Arrive, Complete and Work change one run.
LEMMA OneRunAdvances ==
    ASSUME TypeOK, changes < MaxChanges, changes' = changes + 1,
           UNCHANGED <<clock, health, local>>, NEW r \in Runs, NEW new,
           run' = [run EXCEPT ![r] = new], RunAdvances(r)
    PROVE  Advance
  <1>1. \A q \in Runs : q # r => run'[q] = run[q]
    BY DEF TypeOK
  <1>2. \A q \in Runs : RunAdvances(q)
    BY <1>1, RunMayStay
  <1>3. run' = [q \in Runs |-> run'[q]]
    BY DEF TypeOK
  <1>4. health' = health /\ health' \in HealthStates
    BY DEF TypeOK
  <1> QED
    BY <1>2, <1>3, <1>4, ChangeAdvances

LEMMA WorldAdvances ==
    ASSUME TypeOK, World
    PROVE  Advance
  <1>0. /\ clock \in Times /\ changes \in Stamps /\ health \in HealthStates
        /\ run \in [Runs -> [is : RunStates, job : JobStates]]
    BY DEF TypeOK
  <1>1. CASE Tick
    BY <1>0, <1>1 DEF Tick, Advance, Times, Stamps
  <1>2. ASSUME NEW r \in Runs, Arrive(r) PROVE Advance
    <2>1. /\ changes < MaxChanges /\ changes' = changes + 1 /\ UNCHANGED <<clock, health, local>>
          /\ run' = [run EXCEPT ![r].is = [status |-> "requested", updated |-> clock]]
      BY <1>2 DEF Arrive
    <2>2. run'[r] = [is |-> [status |-> "requested", updated |-> clock], job |-> run[r].job]
          /\ run' = [run EXCEPT ![r] = run'[r]]
      BY <2>1, <1>0
    <2>3. "requested" \in Active \cup {"none", "completed"} /\ run[r].job \in JobStates
      BY <1>0, ActiveStatuses
    <2>4. RunAdvances(r)
      BY <2>1, <2>2, <2>3, RunMayMove
    <2> QED
      BY <2>1, <2>2, <2>4, OneRunAdvances
  <1>3. ASSUME NEW r \in Runs, Complete(r) PROVE Advance
    <2> DEFINE event == run[r].job.event > 0
    <2> DEFINE job == JobAfter(r, event, FALSE)
    <2>1. /\ changes < MaxChanges /\ changes' = changes + 1 /\ UNCHANGED <<clock, health, local>>
          /\ run' = [run EXCEPT ![r] = [is |-> [status |-> "completed", updated |-> clock],
                                        job |-> job]]
      BY <1>3 DEF Complete
    <2>2. run'[r] = [is |-> [status |-> "completed", updated |-> clock], job |-> job]
          /\ run' = [run EXCEPT ![r] = run'[r]]
      BY <2>1, <1>0
    <2>3. event \in BOOLEAN
      OBVIOUS
    <2> HIDE DEF event
    <2>4. job \in JobStates /\ (job = run[r].job \/ job.event = changes + 1)
      BY <2>1, <2>3, JobAfterAdvances
    <2> HIDE DEF job
    <2>5. RunAdvances(r)
      BY <2>1, <2>2, <2>4, RunMayMove
    <2> QED
      BY <2>1, <2>2, <2>5, OneRunAdvances
  <1>4. ASSUME NEW r \in Runs, NEW starts \in BOOLEAN, Work(r, starts) PROVE Advance
    <2> DEFINE job == JobAfter(r, TRUE, starts)
    <2>1. /\ changes < MaxChanges /\ changes' = changes + 1 /\ UNCHANGED <<clock, health, local>>
          /\ run' = [run EXCEPT ![r].job = job]
      BY <1>4 DEF Work
    <2>3. job \in JobStates /\ (job = run[r].job \/ job.event = changes + 1)
      BY <2>1, JobAfterAdvances
    <2> HIDE DEF job
    <2>2. run'[r] = [is |-> run[r].is, job |-> job]
          /\ run' = [run EXCEPT ![r] = run'[r]]
      BY <2>1, <1>0
    <2>4. RunAdvances(r)
      BY <2>2, <2>3, <1>0 DEF RunAdvances
    <2> QED
      BY <2>1, <2>2, <2>4, OneRunAdvances
  <1>5. ASSUME NEW settled \in BOOLEAN, Deliver(settled) PROVE Advance
    <2>1. /\ changes < MaxChanges /\ changes' = changes + 1 /\ UNCHANGED <<clock, run, local>>
          /\ health' = [head |-> changes + 1, settled |-> settled]
      BY <1>5 DEF Deliver
    <2>2. health' \in HealthStates /\ health'.head = changes + 1
      BY <2>1, <1>0 DEF HealthStates, Stamps
    <2>3. run' = [r \in Runs |-> run'[r]] /\ \A r \in Runs : RunAdvances(r)
      BY <2>1, <1>0, RunMayStay
    <2> QED
      BY <2>1, <2>2, <2>3, ChangeAdvances
  <1> QED
    BY <1>1, <1>2, <1>3, <1>4, <1>5, MoveAdvances DEF World

(***************************************************************************)
(* The world preserves the inductive invariant.                            *)
(***************************************************************************)
LEMMA AdvanceKeeps ==
    ASSUME ObserverInvariant, Advance
    PROVE  ObserverInvariant'
  <1>0. /\ clock \in Int /\ clock' \in Int /\ clock <= clock'
        /\ changes \in Int /\ changes' \in Int /\ changes <= changes'
        /\ now \in Int /\ Ahead \in Int
        /\ run \in [Runs -> [is : RunStates, job : JobStates]]
        /\ run' \in [Runs -> [is : RunStates, job : JobStates]]
        /\ health \in HealthStates /\ health' \in HealthStates
        /\ \A r \in Runs : /\ run[r].is.updated \in Int /\ run[r].job.event \in Int
                           /\ run'[r].is.updated \in Int /\ run'[r].job.event \in Int
        /\ health.head \in Int /\ health'.head \in Int
    BY DEF ObserverInvariant, TypeOK, Advance, RunStates, JobStates, HealthStates, Times, Stamps
  <1>1. UNCHANGED <<pc, pass, now, list, todo, seen, jobs, initial, result, between>>
    BY DEF Advance, local
  <1>2. TypeOK'
    BY <1>1 DEF ObserverInvariant, TypeOK, Advance
  <1>3. \A r \in Runs :
          /\ run'[r].is = run[r].is \/ run'[r].is.updated = clock
          /\ run'[r].job = run[r].job \/ (changes' = changes + 1 /\ run'[r].job.event = changes')
    BY DEF Advance
  <1>4. StampsAreOld /\ (health' = health \/ (changes' = changes + 1 /\ health'.head = changes'))
    BY DEF ObserverInvariant, Advance
  <1>5. StampsAreOld'
    BY <1>0, <1>1, <1>3, <1>4 DEF StampsAreOld, Underway, Start
  <1>6. SeenIsActive' /\ PhasesInvariant' /\ ReportIsOfOneMoment'
    BY <1>1 DEF ObserverInvariant, SeenIsActive, PhasesInvariant, ReportIsOfOneMoment,
                Found, StalledIn
  <1>7. \A r \in Runs : NotAfter(run[r].job, run'[r].job)
    BY <1>0, <1>3, <1>4 DEF StampsAreOld, NotAfter
  <1>8. NotAfterHealth(health, health')
    BY <1>0, <1>4 DEF StampsAreOld, NotAfterHealth
  <1>9. FirstPassInvariant'
    <2> SUFFICES ASSUME pass = 1, pc \in {"list", "jobs"}
                 PROVE  FirstPassInvariant'
      BY <1>1 DEF FirstPassInvariant
    <2>1. Start <= clock
      BY <1>4 DEF StampsAreOld, Underway
    <2>2. FirstPassInvariant
      BY DEF ObserverInvariant
    <2>3. ASSUME NEW r \in Runs, run'[r].is.updated < Start, AlreadyRead(r)'
          PROVE  seen[1][r] = run'[r].is
      <3>1. run'[r].is = run[r].is
        BY <2>1, <2>3, <1>0, <1>3 DEF Start
      <3>2. AlreadyRead(r)
        BY <2>3, <3>1, <1>1 DEF AlreadyRead
      <3> QED
        BY <2>2, <2>3, <3>1, <3>2 DEF FirstPassInvariant
    <2>4. ASSUME pc = "jobs", NEW r \in Found(1) \ todo
          PROVE  NotAfter(jobs[1][r], run'[r].job)
      <3>1. r \in Runs /\ NotAfter(jobs[1][r], run[r].job) /\ jobs[1][r].event \in Int
        BY <2>2, <2>4 DEF FirstPassInvariant, Found, ObserverInvariant, TypeOK, JobStates, Stamps
      <3> QED
        BY <3>1, <1>0, <1>7 DEF NotAfter
    <2>5. NotAfterHealth(initial, health')
      BY <2>2, <1>8, <1>0 DEF FirstPassInvariant, NotAfterHealth, ObserverInvariant, TypeOK,
                              HealthStates, Stamps
    <2>6. pc = "jobs" => list[1] > Workflows
      BY <2>2 DEF FirstPassInvariant
    <2> QED
      BY <2>3, <2>4, <2>5, <2>6, <1>1 DEF FirstPassInvariant, Found, Start
  <1>10. SecondPassInvariant'
    <2> SUFFICES ASSUME pass = 2, Underway
                 PROVE  SecondPassInvariant'
      BY <1>1 DEF SecondPassInvariant, Underway
    <2>1. Start <= clock
      BY <1>4 DEF StampsAreOld
    <2>2. SecondPassInvariant
      BY DEF ObserverInvariant
    <2>3. ASSUME NEW r \in Runs
          PROVE  /\ between.run[r].is = run'[r].is \/ run'[r].is.updated >= Start
                 /\ NotAfter(between.run[r].job, run'[r].job)
      <3>1. between.run[r].job.event \in Int
        BY DEF ObserverInvariant, TypeOK, JobStates, Stamps
      <3>2. /\ between.run[r].is = run[r].is \/ run[r].is.updated >= Start
            /\ NotAfter(between.run[r].job, run[r].job)
        BY <2>2 DEF SecondPassInvariant
      <3>3. between.run[r].is = run'[r].is \/ run'[r].is.updated >= Start
        BY <3>2, <2>1, <1>0, <1>3 DEF Start
      <3>4. NotAfter(between.run[r].job, run'[r].job)
        BY <3>1, <3>2, <1>0, <1>7 DEF NotAfter
      <3> QED
        BY <3>3, <3>4
    <2>4. NotAfterHealth(between.health, health')
      BY <2>2, <1>8, <1>0 DEF SecondPassInvariant, NotAfterHealth, ObserverInvariant, TypeOK,
                              HealthStates, Stamps
    <2> QED
      BY <2>2, <2>3, <2>4, <1>1 DEF SecondPassInvariant, Found, Start, Underway
  <1> QED
    BY <1>2, <1>5, <1>6, <1>9, <1>10 DEF ObserverInvariant

(***************************************************************************)
(* The observer's steps.                                                   *)
(***************************************************************************)

\* Beginning and giving up leave nothing to be right about.
LEMMA ResetKeeps ==
    ASSUME ObserverInvariant, UNCHANGED world,
           \/ pc' = "done" /\ now' = 0
           \/ pc' = "health" /\ now' = clock + Ahead,
           pass' = 1, list' = <<1, 1>>, todo' = {}, seen' = NothingSeen, jobs' = NoJobsSeen,
           initial' = NoHealth, between' = Nowhere, result' = Unknown
    PROVE  ObserverInvariant'
  <1>1. Nothing \in RunStates /\ NoJobs \in JobStates /\ NoHealth \in HealthStates
        /\ Unknown \in [status : {"unknown", "stalled", "metadata-current"},
                        stalled : SUBSET Runs]
    BY DEF Nothing, RunStates, NoJobs, JobStates, NoHealth, HealthStates, Unknown, Times, Stamps
  <1>2. /\ seen' \in [{1, 2} -> [Runs -> RunStates]] /\ jobs' \in [{1, 2} -> [Runs -> JobStates]]
        /\ between' \in [run : [Runs -> [is : RunStates, job : JobStates]],
                         health : HealthStates]
    BY <1>1 DEF NothingSeen, NoJobsSeen, Nowhere
  <1>3. clock \in Int /\ now' \in Int
    BY DEF ObserverInvariant, TypeOK, Times
  <1>4. list' \in (1 .. Workflows + 1) \X (1..5)
    OBVIOUS
  <1>5. /\ clock' \in Times /\ changes' \in Stamps
        /\ run' \in [Runs -> [is : RunStates, job : JobStates]] /\ health' \in HealthStates
    BY DEF ObserverInvariant, TypeOK, world
  <1>6. TypeOK'
    BY <1>1, <1>2, <1>3, <1>4, <1>5 DEF TypeOK
  <1>7. \A p \in {1, 2}, r \in Runs : seen'[p][r] = Nothing
    BY DEF NothingSeen
  <1>8. SeenIsActive' /\ PhasesInvariant'
    BY <1>7 DEF SeenIsActive, PhasesInvariant, Found
  <1>9. StampsAreOld'
    <2>1. Ahead \in Int
      OBVIOUS
    <2>2. ASSUME Underway' PROVE (now - Ahead)' <= clock'
      <3>1. now' = clock + Ahead
        BY <2>2 DEF Underway
      <3>2. clock' = clock
        BY DEF world
      <3> QED
        BY <3>1, <3>2, <1>3, <2>1
    <2>3. \A r \in Runs : run'[r].is.updated <= clock' /\ run'[r].job.event <= changes'
      BY DEF world, ObserverInvariant, StampsAreOld
    <2>4. health'.head <= changes'
      BY DEF world, ObserverInvariant, StampsAreOld
    <2> QED
      BY <2>2, <2>3, <2>4 DEF StampsAreOld, Start
  <1>10. FirstPassInvariant' /\ SecondPassInvariant' /\ ReportIsOfOneMoment'
    BY DEF FirstPassInvariant, SecondPassInvariant, ReportIsOfOneMoment, Unknown
  <1> QED
    BY <1>6, <1>8, <1>9, <1>10 DEF ObserverInvariant

LEMMA ReadHealthKeeps ==
    ASSUME ObserverInvariant, ReadHealth
    PROVE  ObserverInvariant'
  <1>1. /\ pc = "health" /\ pc' = "list" /\ list' = <<1, 1>> /\ initial' = health
        /\ UNCHANGED <<clock, changes, run, health, pass, now, todo, seen, jobs, result, between>>
    BY DEF ReadHealth, world
  <1>2. pass = 1 /\ (\A r \in Runs : Home[r] \in 1..Workflows)
    BY <1>1 DEF ObserverInvariant, PhasesInvariant
  <1>3. TypeOK'
    BY <1>1 DEF ObserverInvariant, TypeOK
  <1>4. StampsAreOld' /\ SeenIsActive' /\ PhasesInvariant'
    BY <1>1, <1>2 DEF ObserverInvariant, StampsAreOld, SeenIsActive, PhasesInvariant, Found,
                      Underway, Start
  <1>5. \A r \in Runs : ~ AlreadyRead(r)'
    BY <1>1, <1>2 DEF AlreadyRead
  <1>6. FirstPassInvariant'
    BY <1>1, <1>5 DEF FirstPassInvariant, NotAfterHealth
  <1>7. SecondPassInvariant' /\ ReportIsOfOneMoment'
    BY <1>1, <1>2 DEF SecondPassInvariant, ReportIsOfOneMoment
  <1> QED
    BY <1>3, <1>4, <1>6, <1>7 DEF ObserverInvariant

\* A list that is read contains the runs that it adds to those already read.
LEMMA ListIsRead ==
    ASSUME TypeOK, list' = NextList, UNCHANGED run, NEW r \in Runs, AlreadyRead(r)'
    PROVE  AlreadyRead(r) \/ r \in Rows
  <1>1. list[1] \in Int /\ list[2] \in 1..5 /\ Home[r] \in Int
    BY DEF TypeOK
  <1>2. PICK i \in 1..5 : /\ ACTIVE[i] = run[r].is.status
                          /\ Home[r] < list'[1] \/ (Home[r] = list'[1] /\ i < list'[2])
    BY DEF AlreadyRead
  <1>3. CASE list[2] < 5
    <2>1. list'[1] = list[1] /\ list'[2] = list[2] + 1
      BY <1>3 DEF NextList
    <2> QED
      BY <1>1, <1>2, <2>1 DEF AlreadyRead, Rows
  <1>4. CASE ~ list[2] < 5
    <2>1. list'[1] = list[1] + 1 /\ list'[2] = 1
      BY <1>4 DEF NextList
    <2> QED
      BY <1>1, <1>2, <1>4, <2>1 DEF AlreadyRead, Rows
  <1> QED
    BY <1>3, <1>4

LEMMA ReadListKeeps ==
    ASSUME ObserverInvariant, ReadList
    PROVE  ObserverInvariant'
  <1>0. TypeOK /\ seen \in [{1, 2} -> [Runs -> RunStates]] /\ pass \in {1, 2}
        /\ list[1] \in Nat /\ list[2] \in 1..5
        /\ \A r \in Runs : run[r].is \in RunStates
    BY DEF ObserverInvariant, TypeOK
  <1>1. /\ pc = "list" /\ list' = NextList /\ list[1] <= Workflows
        /\ UNCHANGED <<clock, changes, run, health, pc, pass, now, todo, jobs, initial,
                       result, between>>
    BY DEF ReadList, world
  <1>2. /\ \A p \in {1, 2}, r \in Runs :
              seen'[p][r] = IF p = pass /\ r \in Rows THEN run[r].is ELSE seen[p][r]
        /\ seen' \in [{1, 2} -> [Runs -> RunStates]]
    <2>1. seen' = [seen EXCEPT ![pass] =
                      [r \in Runs |-> IF r \in Rows THEN run[r].is ELSE seen[pass][r]]]
      BY DEF ReadList
    <2>2. [r \in Runs |-> IF r \in Rows THEN run[r].is ELSE seen[pass][r]] \in [Runs -> RunStates]
      BY <1>0
    <2> QED
      BY <2>1, <2>2, <1>0
  <1>3. \A r \in Rows : run[r].is.status \in Active /\ run[r].is # Nothing
    <2> SUFFICES ASSUME NEW r \in Rows
                 PROVE  run[r].is.status \in Active /\ run[r].is # Nothing
      OBVIOUS
    <2>1. run[r].is.status \in Active
      BY <1>0, ActiveStatuses DEF Rows
    <2>2. Nothing.status = "none"
      BY DEF Nothing
    <2> QED
      BY <2>1, <2>2, ActiveStatuses
  <1>4. TypeOK'
    <2>1. list' \in (1 .. Workflows + 1) \X (1..5)
      <3>1. list \in (1 .. Workflows + 1) \X (1..5)
        BY DEF ObserverInvariant, TypeOK
      <3> QED
        BY <3>1, <1>0, <1>1 DEF NextList
    <2> QED
      BY <2>1, <1>0, <1>1, <1>2 DEF TypeOK
  <1>5. SeenIsActive'
    BY <1>1, <1>2, <1>3 DEF ObserverInvariant, SeenIsActive, Found
  <1>6. StampsAreOld' /\ PhasesInvariant' /\ ReportIsOfOneMoment'
    BY <1>1, <1>2 DEF ObserverInvariant, StampsAreOld, PhasesInvariant, ReportIsOfOneMoment,
                      Start, Underway
  <1>7. FirstPassInvariant'
    <2> SUFFICES ASSUME pass = 1
                 PROVE  FirstPassInvariant'
      BY <1>1 DEF FirstPassInvariant
    <2>1. FirstPassInvariant
      BY DEF ObserverInvariant
    <2>2. ASSUME NEW r \in Runs, run[r].is.updated < Start, AlreadyRead(r)'
          PROVE  seen'[1][r] = run[r].is
      <3>1. AlreadyRead(r) \/ r \in Rows
        BY <2>2, <1>0, <1>1, ListIsRead
      <3> QED
        BY <3>1, <2>1, <2>2, <1>1, <1>2 DEF FirstPassInvariant
    <2> QED
      BY <2>1, <2>2, <1>1 DEF FirstPassInvariant, Start
  <1>8. SecondPassInvariant'
    <2> SUFFICES ASSUME pass = 2
                 PROVE  SecondPassInvariant'
      BY <1>1 DEF SecondPassInvariant
    <2>1. SecondPassInvariant /\ Underway
      BY <1>1 DEF ObserverInvariant, Underway
    <2>2. \A r \in Runs : seen'[1][r] = seen[1][r]
      BY <1>2
    <2>3. ASSUME NEW r \in Runs, seen'[2][r] # Nothing, seen'[2][r].updated < Start
          PROVE  seen'[2][r] = between.run[r].is
      <3>1. \/ seen'[2][r] = seen[2][r]
            \/ seen'[2][r] = run[r].is
        BY <1>2
      <3>2. run[r].is.updated \in Int /\ Start \in Int
        BY <1>0 DEF RunStates, Times, Start, TypeOK
      <3> QED
        BY <3>1, <3>2, <2>1, <2>3 DEF SecondPassInvariant
    <2>4. Found(1)' = Found(1)
      BY <2>2 DEF Found
    <2> QED
      BY <2>1, <2>2, <2>3, <2>4, <1>1 DEF SecondPassInvariant, Start
  <1> QED
    BY <1>4, <1>5, <1>6, <1>7, <1>8 DEF ObserverInvariant

LEMMA ScanEndsKeeps ==
    ASSUME ObserverInvariant, ScanEnds
    PROVE  ObserverInvariant'
  <1>1. /\ pc = "list" /\ pc' = "jobs" /\ todo' = Found(1) /\ list[1] > Workflows /\ RunsAgree
        /\ UNCHANGED <<clock, changes, run, health, pass, now, list, seen, jobs, initial,
                       result, between>>
    BY DEF ScanEnds, world
  <1>2. TypeOK'
    BY <1>1 DEF ObserverInvariant, TypeOK, Found
  <1>3. /\ StampsAreOld' /\ SeenIsActive' /\ PhasesInvariant' /\ ReportIsOfOneMoment'
        /\ Found(1)' = Found(1)
    BY <1>1 DEF ObserverInvariant, StampsAreOld, SeenIsActive, PhasesInvariant,
                ReportIsOfOneMoment, Found, Start, Underway
  <1>4. FirstPassInvariant'
    BY <1>1, <1>3 DEF ObserverInvariant, FirstPassInvariant, Start, AlreadyRead
  <1>5. SecondPassInvariant'
    BY <1>1, <1>3 DEF ObserverInvariant, SecondPassInvariant, Start, Underway, RunsAgree
  <1> QED
    BY <1>2, <1>3, <1>4, <1>5 DEF ObserverInvariant

LEMMA ReadJobsKeeps ==
    ASSUME ObserverInvariant, NEW r \in Runs, ReadJobs(r)
    PROVE  ObserverInvariant'
  <1>1. /\ pc = "jobs" /\ r \in todo /\ todo' = todo \ {r}
        /\ jobs' = [jobs EXCEPT ![pass][r] = run[r].job]
        /\ UNCHANGED <<clock, changes, run, health, pc, pass, now, list, seen, initial,
                       result, between>>
    BY DEF ReadJobs, world
  <1>2. pass \in {1, 2} /\ run[r].job \in JobStates /\ jobs \in [{1, 2} -> [Runs -> JobStates]]
    BY DEF ObserverInvariant, TypeOK
  <1>3. /\ jobs' \in [{1, 2} -> [Runs -> JobStates]]
        /\ \A p \in {1, 2}, q \in Runs :
              jobs'[p][q] = IF p = pass /\ q = r THEN run[r].job ELSE jobs[p][q]
    BY <1>1, <1>2
  <1>4. TypeOK'
    BY <1>1, <1>3 DEF ObserverInvariant, TypeOK
  <1>5. /\ StampsAreOld' /\ SeenIsActive' /\ PhasesInvariant' /\ ReportIsOfOneMoment'
        /\ Found(1)' = Found(1)
    BY <1>1 DEF ObserverInvariant, StampsAreOld, SeenIsActive, PhasesInvariant,
                ReportIsOfOneMoment, Found, Start, Underway
  <1>6. FirstPassInvariant'
    <2> SUFFICES ASSUME pass = 1
                 PROVE  FirstPassInvariant'
      BY <1>1 DEF FirstPassInvariant
    <2>1. FirstPassInvariant
      BY DEF ObserverInvariant
    <2>2. ASSUME NEW q \in Found(1) \ todo'
          PROVE  NotAfter(jobs'[1][q], run[q].job)
      <3>1. q \in Runs /\ (q = r \/ q \in Found(1) \ todo)
        BY <1>1, <2>2 DEF Found
      <3> QED
        BY <3>1, <2>1, <1>1, <1>3 DEF FirstPassInvariant, NotAfter
    <2> QED
      BY <2>1, <2>2, <1>1, <1>5 DEF FirstPassInvariant, Start, AlreadyRead
  <1>7. SecondPassInvariant'
    <2> SUFFICES ASSUME pass = 2
                 PROVE  SecondPassInvariant'
      BY <1>1 DEF SecondPassInvariant
    <2>1. SecondPassInvariant /\ Underway
      BY <1>1 DEF ObserverInvariant, Underway
    <2>2. ASSUME NEW q \in Found(1) \ todo'
          PROVE  NotAfter(between.run[q].job, jobs'[2][q])
      <3>1. q \in Runs /\ (q = r \/ q \in Found(1) \ todo)
        BY <1>1, <2>2 DEF Found
      <3> QED
        BY <3>1, <2>1, <1>1, <1>3 DEF SecondPassInvariant
    <2>3. \A q \in Runs : jobs'[1][q] = jobs[1][q]
      BY <1>3
    <2> QED
      BY <2>1, <2>2, <2>3, <1>1, <1>5 DEF SecondPassInvariant, Start
  <1> QED
    BY <1>4, <1>5, <1>6, <1>7 DEF ObserverInvariant

LEMMA FirstPassEndsKeeps ==
    ASSUME ObserverInvariant, FirstPassEnds
    PROVE  ObserverInvariant'
  <1>1. /\ pc = "jobs" /\ todo = {} /\ pass = 1 /\ pass' = 2 /\ pc' = "list"
        /\ list' = <<1, 1>> /\ between' = [run |-> run, health |-> health]
        /\ UNCHANGED <<clock, changes, run, health, now, todo, seen, jobs, initial, result>>
    BY DEF FirstPassEnds, world
  <1>2. TypeOK'
    BY <1>1 DEF ObserverInvariant, TypeOK
  <1>3. /\ StampsAreOld' /\ SeenIsActive' /\ PhasesInvariant' /\ ReportIsOfOneMoment'
        /\ FirstPassInvariant' /\ Found(1)' = Found(1)
    BY <1>1 DEF ObserverInvariant, StampsAreOld, SeenIsActive, PhasesInvariant,
                ReportIsOfOneMoment, FirstPassInvariant, Found, Start, Underway
  <1>4. FirstPassInvariant /\ \A r \in Runs : seen[2][r] = Nothing
    BY <1>1 DEF ObserverInvariant, PhasesInvariant
  <1>5. ASSUME NEW r \in Runs, run[r].is.status \in Active, run[r].is.updated < Start
        PROVE  seen[1][r] = run[r].is
    <2>1. PICK i \in 1..5 : ACTIVE[i] = run[r].is.status
      BY <1>5, ActiveStatuses
    <2>2. Home[r] < list[1]
      BY <1>1, <1>4 DEF FirstPassInvariant, ObserverInvariant, TypeOK
    <2>3. AlreadyRead(r)
      BY <2>1, <2>2 DEF AlreadyRead
    <2> QED
      BY <2>3, <1>1, <1>4, <1>5 DEF FirstPassInvariant
  <1>6. SecondPassInvariant'
    BY <1>1, <1>3, <1>4, <1>5 DEF SecondPassInvariant, FirstPassInvariant, NotAfter,
                                  NotAfterHealth, Start
  <1> QED
    BY <1>2, <1>3, <1>6 DEF ObserverInvariant

LEMMA SecondPassEndsKeeps ==
    ASSUME ObserverInvariant, SecondPassEnds
    PROVE  ObserverInvariant'
  <1>1. /\ pc = "jobs" /\ todo = {} /\ pass = 2 /\ pc' = "recheck" /\ JobsAgree
        /\ UNCHANGED <<clock, changes, run, health, pass, now, list, todo, seen, jobs,
                       initial, result, between>>
    BY DEF SecondPassEnds, world
  <1>2. TypeOK'
    BY <1>1 DEF ObserverInvariant, TypeOK
  <1>3. /\ StampsAreOld' /\ SeenIsActive' /\ PhasesInvariant' /\ ReportIsOfOneMoment'
        /\ FirstPassInvariant' /\ Found(1)' = Found(1)
    BY <1>1 DEF ObserverInvariant, StampsAreOld, SeenIsActive, PhasesInvariant,
                ReportIsOfOneMoment, FirstPassInvariant, Found, Start, Underway
  <1>4. SecondPassInvariant'
    BY <1>1, <1>3 DEF ObserverInvariant, SecondPassInvariant, Start, Underway, JobsAgree
  <1> QED
    BY <1>2, <1>3, <1>4 DEF ObserverInvariant

\* Between two readings that agree, nothing that was read changed.
LEMMA ReportIsExact ==
    ASSUME ObserverInvariant, pc = "recheck", HealthAgrees
    PROVE  StalledSeen = StalledIn(between.run) /\ initial = between.health
  <1>1. /\ pass = 2 /\ todo = {} /\ seen[1] = seen[2] /\ jobs[1] = jobs[2]
        /\ SecondPassInvariant /\ Underway
    BY DEF ObserverInvariant, PhasesInvariant, SecondPassInvariant, Underway
  <1>2. initial = between.health
    <2>1. initial.head \in Int /\ between.health.head \in Int
      BY DEF ObserverInvariant, TypeOK, HealthStates, Stamps
    <2> QED
      BY <2>1, <1>1 DEF SecondPassInvariant, NotAfterHealth, HealthAgrees
  <1>3. \A r \in Found(1) : jobs[1][r] = between.run[r].job
    <2> SUFFICES ASSUME NEW r \in Found(1)
                 PROVE  jobs[1][r] = between.run[r].job
      OBVIOUS
    <2>1. r \in Runs /\ jobs[1][r].event \in Int /\ between.run[r].job.event \in Int
      BY DEF Found, ObserverInvariant, TypeOK, JobStates, Stamps
    <2> QED
      BY <2>1, <1>1 DEF SecondPassInvariant, NotAfter
  <1>4. \A r \in Runs : /\ seen[1][r] \in RunStates /\ jobs[1][r] \in JobStates
                        /\ between.run[r].is \in RunStates /\ between.run[r].job \in JobStates
    BY DEF ObserverInvariant, TypeOK
  <1>5. \A state \in RunStates, job \in JobStates :
          now - LastActivity(state, job) >= Grace => state.updated < Start
    <2>1. now \in Int /\ Grace \in Int /\ Ahead \in Int /\ Ahead < Grace
      BY DEF ObserverInvariant, TypeOK
    <2> QED
      BY <2>1 DEF LastActivity, Max, Start, RunStates, JobStates, Times
  <1>6. ASSUME NEW r \in StalledSeen
        PROVE  r \in StalledIn(between.run)
    <2>1. /\ r \in Runs /\ r \in Found(1) /\ seen[1][r] # Nothing
          /\ now - LastActivity(seen[1][r], jobs[1][r]) >= Grace
      BY DEF StalledSeen, Found
    <2>2. seen[2][r] = between.run[r].is
      BY <2>1, <1>1, <1>4, <1>5 DEF SecondPassInvariant
    <2>3. seen[1][r].status \in Active
      BY <2>1 DEF ObserverInvariant, SeenIsActive
    <2> QED
      BY <2>1, <2>2, <2>3, <1>1, <1>3 DEF StalledIn
  <1>7. ASSUME NEW r \in StalledIn(between.run)
        PROVE  r \in StalledSeen
    <2>1. /\ r \in Runs /\ between.run[r].is.status \in Active
          /\ now - LastActivity(between.run[r].is, between.run[r].job) >= Grace
      BY DEF StalledIn
    <2>2. seen[1][r] = between.run[r].is
      BY <2>1, <1>1, <1>4, <1>5 DEF SecondPassInvariant
    <2>3. seen[1][r] # Nothing
      BY <2>1, <2>2, ActiveStatuses DEF Nothing
    <2> QED
      BY <2>1, <2>2, <2>3, <1>3 DEF StalledSeen, Found
  <1>8. StalledSeen \subseteq Runs /\ StalledIn(between.run) \subseteq Runs
    BY DEF StalledSeen, StalledIn, Found
  <1> QED
    BY <1>2, <1>6, <1>7, <1>8

LEMMA RecheckKeeps ==
    ASSUME ObserverInvariant, Recheck
    PROVE  ObserverInvariant'
  <1>1. /\ pc = "recheck" /\ pc' = "done" /\ result' = Report /\ HealthAgrees
        /\ UNCHANGED <<clock, changes, run, health, pass, now, list, todo, seen, jobs,
                       initial, between>>
    BY DEF Recheck, world
  <1>2. Report \in [status : {"unknown", "stalled", "metadata-current"}, stalled : SUBSET Runs]
    BY DEF Report, StalledSeen, Found
  <1>3. TypeOK'
    BY <1>1, <1>2 DEF ObserverInvariant, TypeOK
  <1>4. StampsAreOld' /\ SeenIsActive' /\ PhasesInvariant'
        /\ FirstPassInvariant' /\ SecondPassInvariant'
    BY <1>1 DEF ObserverInvariant, StampsAreOld, SeenIsActive, PhasesInvariant,
                FirstPassInvariant, SecondPassInvariant, Found, Start, Underway
  <1>5. ReportIsOfOneMoment'
    <2>1. result'.stalled = StalledSeen
      BY <1>1 DEF Report
    <2>2. StalledIn(between.run)' = StalledIn(between.run)
      BY <1>1 DEF StalledIn
    <2> QED
      BY <2>1, <2>2, <1>1, ReportIsExact DEF ReportIsOfOneMoment
  <1> QED
    BY <1>3, <1>4, <1>5 DEF ObserverInvariant

(***************************************************************************)
(* Theorems.                                                               *)
(***************************************************************************)

\* The inductive invariant holds: of a run that has been idle since before the
\* observation began, each pass sees what there was when the second one began.
THEOREM ObserverInvariantHolds == Spec => []ObserverInvariant
  <1>1. Init => ObserverInvariant
    <2> SUFFICES ASSUME Init PROVE ObserverInvariant
      OBVIOUS
    <2>1. Nothing \in RunStates /\ NoJobs \in JobStates /\ NoHealth \in HealthStates
          /\ Unknown \in [status : {"unknown", "stalled", "metadata-current"},
                          stalled : SUBSET Runs]
      BY DEF Nothing, RunStates, NoJobs, JobStates, NoHealth, HealthStates, Unknown, Times, Stamps
    <2>2. /\ seen \in [{1, 2} -> [Runs -> RunStates]] /\ jobs \in [{1, 2} -> [Runs -> JobStates]]
          /\ between \in [run : [Runs -> [is : RunStates, job : JobStates]],
                          health : HealthStates]
      BY <2>1 DEF Init, NothingSeen, NoJobsSeen, Nowhere
    <2>3. /\ clock \in Times /\ changes \in Stamps /\ health \in HealthStates
          /\ list \in (1 .. Workflows + 1) \X (1..5)
      BY DEF Init, Times, Stamps, HealthStates
    <2>4. run \in [Runs -> [is : RunStates, job : JobStates]]
      <3>1. [status : Active \cup {"none"}, updated : {0}] \subseteq RunStates
            /\ {NoJobs} \subseteq JobStates
        BY <2>1 DEF RunStates, Times
      <3> QED
        BY <3>1 DEF Init
    <2>5. TypeOK
      BY <2>1, <2>2, <2>3, <2>4 DEF Init, TypeOK
    <2>6. \A r \in Runs : run[r].is.updated = 0 /\ run[r].job.event = 0
      BY DEF Init, NoJobs
    <2>7. health.head = 0
      BY DEF Init
    <2>8. StampsAreOld
      BY <2>6, <2>7 DEF Init, StampsAreOld, Underway
    <2>9. SeenIsActive /\ PhasesInvariant
      BY DEF Init, SeenIsActive, PhasesInvariant, Found, NothingSeen
    <2> QED
      BY <2>5, <2>8, <2>9 DEF Init, ObserverInvariant, FirstPassInvariant, SecondPassInvariant,
                              ReportIsOfOneMoment, Unknown
  <1>2. ObserverInvariant /\ [Next]_vars => ObserverInvariant'
    <2> SUFFICES ASSUME ObserverInvariant, [Next]_vars
                 PROVE  ObserverInvariant'
      OBVIOUS
    <2>1. ASSUME Begin PROVE ObserverInvariant'
      BY <2>1, ResetKeeps DEF Begin
    <2>2. CASE Refuse
      BY <2>2, ResetKeeps DEF Refuse
    <2>3. CASE Observe
      BY <2>1, <2>2, <2>3, ReadHealthKeeps, ReadListKeeps, ScanEndsKeeps, ReadJobsKeeps,
         FirstPassEndsKeeps, SecondPassEndsKeeps, RecheckKeeps
         DEF Observe, ReadListFails, ScanDiffers, ReadJobsFails, JobsDiffer, RecheckFails, Abandon
    <2>4. CASE World
      BY <2>4, WorldAdvances, AdvanceKeeps DEF ObserverInvariant
    <2>5. CASE UNCHANGED vars
      <3>1. Advance
        BY <2>5 DEF vars, world, local, Advance, ObserverInvariant, TypeOK, Times, Stamps
      <3> QED
        BY <3>1, AdvanceKeeps
    <2> QED
      BY <2>3, <2>4, <2>5 DEF Next
  <1> QED
    BY <1>1, <1>2, PTL DEF Spec

\* Whatever the observer reports as known is exact for one moment of its
\* observation: all stalled runs of that moment and no other, and its health.
THEOREM ReportIsOfOneMomentHolds == Spec => []ReportIsOfOneMoment
  <1>1. ObserverInvariant => ReportIsOfOneMoment
    BY DEF ObserverInvariant
  <1> QED
    BY <1>1, ObserverInvariantHolds, PTL
=============================================================================
