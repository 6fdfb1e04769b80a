--------------------------- MODULE QueueObserver ---------------------------
(***************************************************************************)
(* The observer of the reporting queue (observe_queue): it reads the runs  *)
(* of the reporting workflows list by list and their jobs run by run, does *)
(* it all again, and reports only if nothing differed.  The runs, their    *)
(* jobs and the protected health go on changing under it, and nothing it   *)
(* reads is read at one moment.                                            *)
(*                                                                         *)
(* Times are GitHub's, to the unit of the grace period.  What the observer *)
(* checks of the form of an answer (identities, counts, pages, budgets) is *)
(* the one step Abandon, and so are failing requests.                      *)
(***************************************************************************)
EXTENDS Integers, Sequences, FiniteSets

CONSTANTS Runs,
          Home,        \* the workflow of a run
          Workflows,   \* number of observed workflows (3)
          Grace,       \* grace period, in units of time
          Ahead,       \* how far the observer's clock is ahead of GitHub's
          Capacity,    \* active runs that one observation takes (16)
          MaxClock,    \* bound: time
          MaxChanges   \* bound: changes of runs, jobs and health

ASSUME ObserverAssumption ==
    /\ Workflows \in Nat \ {0} /\ Home \in [Runs -> 1..Workflows]
    /\ Grace \in Nat \ {0} /\ Ahead \in Int /\ Ahead < Grace
    /\ Capacity \in Nat /\ MaxClock \in Nat /\ MaxChanges \in Nat

VARIABLES clock, changes,
          run,      \* status, last update, and the last event of the jobs
          health,   \* the head of the state branch, and whether the cursor it
                    \* records is current and no batch is pending
          pc, pass, now,
          list,     \* the list of runs that is read next: <<workflow, index>>
          todo,     \* runs whose jobs are still to be read
          seen,     \* what each pass saw of the runs
          jobs,     \* what each pass saw of their jobs
          initial,  \* the health at the beginning
          result,
          between   \* runs and health when the second pass began (history)

world == <<clock, changes, run, health>>
local == <<pc, pass, now, list, todo, seen, jobs, initial, result, between>>
vars == <<world, local>>

ACTIVE == <<"queued", "in_progress", "waiting", "pending", "requested">>
Active == {ACTIVE[i] : i \in 1..5}
Nothing == [status |-> "none", updated |-> 0]
NoJobs == [event |-> 0, active |-> 0]
Unknown == [status |-> "unknown", stalled |-> {}]

Max(a, b) == IF a > b THEN a ELSE b
Times == 0..MaxClock
Stamps == 0..MaxChanges
RunStates == [status : Active \cup {"none", "completed"}, updated : Times]
JobStates == [event : Stamps, active : Times]
HealthStates == [head : Stamps, settled : BOOLEAN]

TypeOK ==
    /\ clock \in Times /\ changes \in Stamps
    /\ run \in [Runs -> [is : RunStates, job : JobStates]]
    /\ health \in HealthStates /\ initial \in HealthStates
    /\ pc \in {"idle", "health", "list", "jobs", "recheck", "done"}
    /\ pass \in {1, 2} /\ now \in Int
    /\ list \in (1 .. Workflows + 1) \X (1..5)
    /\ todo \subseteq Runs
    /\ seen \in [{1, 2} -> [Runs -> RunStates]]
    /\ jobs \in [{1, 2} -> [Runs -> JobStates]]
    /\ result \in [status : {"unknown", "stalled", "metadata-current"},
                   stalled : SUBSET Runs]
    /\ between \in [run : [Runs -> [is : RunStates, job : JobStates]],
                    health : HealthStates]

\* The group admits one run at a time and one that waits for it.
Holding == {"queued", "in_progress", "waiting"}
OneHolds(runs) ==
    \A q, r \in Runs : q # r => /\ ~ {runs[q].is.status, runs[r].is.status} \subseteq Holding
                                /\ ~ {runs[q].is.status, runs[r].is.status} \subseteq {"pending"}

NoHealth == [head |-> 0, settled |-> FALSE]
Nowhere == [run |-> [r \in Runs |-> [is |-> Nothing, job |-> NoJobs]], health |-> NoHealth]
NothingSeen == [p \in {1, 2} |-> [r \in Runs |-> Nothing]]
NoJobsSeen == [p \in {1, 2} |-> [r \in Runs |-> NoJobs]]

Init ==
    /\ clock = 0 /\ changes = 0
    /\ run \in [Runs -> [is : [status : Active \cup {"none"}, updated : {0}], job : {NoJobs}]]
    /\ OneHolds(run)
    /\ health \in [head : {0}, settled : BOOLEAN]
    /\ pc = "idle" /\ pass = 1 /\ now = 0 /\ list = <<1, 1>> /\ todo = {}
    /\ seen = NothingSeen /\ jobs = NoJobsSeen
    /\ initial = NoHealth /\ result = Unknown /\ between = Nowhere

(***************************************************************************)
(* The observer.                                                           *)
(***************************************************************************)
Found(p) == {r \in Runs : seen[p][r] # Nothing}

\* The call returns "unknown" with its reason; what it read is gone.
Refuse ==
    /\ pc' = "done" /\ result' = Unknown
    /\ pass' = 1 /\ now' = 0 /\ list' = <<1, 1>> /\ todo' = {}
    /\ seen' = NothingSeen /\ jobs' = NoJobsSeen
    /\ initial' = NoHealth /\ between' = Nowhere
    /\ UNCHANGED world

Begin ==
    /\ pc \in {"idle", "done"}
    /\ pc' = "health" /\ pass' = 1 /\ now' = clock + Ahead
    /\ seen' = NothingSeen /\ jobs' = NoJobsSeen
    /\ initial' = NoHealth /\ between' = Nowhere
    /\ list' = <<1, 1>> /\ todo' = {} /\ result' = Unknown
    /\ UNCHANGED world

ReadHealth ==
    /\ pc = "health"
    /\ initial' = health
    /\ pc' = "list" /\ list' = <<1, 1>>
    /\ UNCHANGED <<world, pass, now, todo, seen, jobs, result, between>>

Rows == {r \in Runs : Home[r] = list[1] /\ run[r].is.status = ACTIVE[list[2]]}

\* No run twice, none from the future, no more than the observer takes.
RowsAreSound ==
    /\ \A r \in Rows : seen[pass][r] = Nothing /\ run[r].is.updated <= now
    /\ Cardinality(Found(pass) \cup Rows) <= Capacity

NextList == IF list[2] < 5 THEN <<list[1], list[2] + 1>> ELSE <<list[1] + 1, 1>>

ReadList ==
    /\ pc = "list" /\ list[1] <= Workflows
    /\ RowsAreSound
    /\ seen' = [seen EXCEPT ![pass] =
                   [r \in Runs |-> IF r \in Rows THEN run[r].is ELSE @[r]]]
    /\ list' = NextList
    /\ UNCHANGED <<world, pc, pass, now, todo, jobs, initial, result, between>>

ReadListFails ==
    /\ pc = "list" /\ list[1] <= Workflows
    /\ ~ RowsAreSound
    /\ Refuse

\* Faulty variant: the second pass need only find runs the first one found.
RunsStillFound == pass = 1 \/ Found(2) \subseteq Found(1)

RunsAgree == pass = 1 \/ seen[1] = seen[2]

ScanEnds ==
    /\ pc = "list" /\ list[1] > Workflows
    /\ RunsAgree
    /\ pc' = "jobs" /\ todo' = Found(1)
    /\ UNCHANGED <<world, pass, now, list, seen, jobs, initial, result, between>>

ScanDiffers ==
    /\ pc = "list" /\ list[1] > Workflows
    /\ ~ RunsAgree
    /\ Refuse

ReadJobs(r) ==
    /\ pc = "jobs" /\ r \in todo
    /\ run[r].job.active <= now
    /\ jobs' = [jobs EXCEPT ![pass][r] = run[r].job]
    /\ todo' = todo \ {r}
    /\ UNCHANGED <<world, pc, pass, now, list, seen, initial, result, between>>

ReadJobsFails(r) ==
    /\ pc = "jobs" /\ r \in todo
    /\ run[r].job.active > now
    /\ Refuse

FirstPassEnds ==
    /\ pc = "jobs" /\ todo = {} /\ pass = 1
    /\ pass' = 2 /\ pc' = "list" /\ list' = <<1, 1>>
    /\ between' = [run |-> run, health |-> health]
    /\ UNCHANGED <<world, now, todo, seen, jobs, initial, result>>

\* Faulty variant: the jobs of the second pass are not compared.
JobsNotCompared == TRUE

JobsAgree == jobs[1] = jobs[2]

SecondPassEnds ==
    /\ pc = "jobs" /\ todo = {} /\ pass = 2
    /\ JobsAgree
    /\ pc' = "recheck"
    /\ UNCHANGED <<world, pass, now, list, todo, seen, jobs, initial, result, between>>

JobsDiffer ==
    /\ pc = "jobs" /\ todo = {} /\ pass = 2
    /\ ~ JobsAgree
    /\ Refuse

LastActivity(state, job) == Max(state.updated, job.active)

\* Runs that have been idle for the grace period, as the first pass saw them.
StalledSeen ==
    {r \in Found(1) : now - LastActivity(seen[1][r], jobs[1][r]) >= Grace}

Report ==
    [stalled |-> StalledSeen,
     status |-> IF StalledSeen # {} THEN "stalled"
                ELSE IF initial.settled THEN "metadata-current"
                ELSE "unknown"]

\* Faulty variant: the health is compared by what it says, not by its head.
HealthSaysTheSame == health.settled = initial.settled

HealthAgrees == health = initial

Recheck ==
    /\ pc = "recheck"
    /\ HealthAgrees
    /\ pc' = "done" /\ result' = Report
    /\ UNCHANGED <<world, pass, now, list, todo, seen, jobs, initial, between>>

RecheckFails ==
    /\ pc = "recheck"
    /\ ~ HealthAgrees
    /\ Refuse

Abandon ==
    /\ pc \notin {"idle", "done"}
    /\ Refuse

Observe ==
    \/ Begin \/ ReadHealth \/ ReadList \/ ReadListFails \/ ScanEnds \/ ScanDiffers
    \/ \E r \in Runs : ReadJobs(r) \/ ReadJobsFails(r)
    \/ FirstPassEnds \/ SecondPassEnds \/ JobsDiffer \/ Recheck \/ RecheckFails
    \/ Abandon

(***************************************************************************)
(* What goes on meanwhile.  The runs share one concurrency group: one of   *)
(* them holds it, the newest of the others waits for it as "pending".      *)
(***************************************************************************)
Moves == {<<"requested", "queued">>, <<"requested", "waiting">>, <<"requested", "pending">>,
          <<"pending", "queued">>, <<"pending", "waiting">>,
          <<"queued", "waiting">>, <<"waiting", "queued">>, <<"queued", "in_progress">>,
          <<"waiting", "in_progress">>, <<"in_progress", "waiting">>}

Tick ==
    /\ clock < MaxClock
    /\ clock' = clock + 1
    /\ UNCHANGED <<changes, run, health, local>>

Arrive(r) ==
    /\ changes < MaxChanges /\ run[r].is.status = "none"
    /\ changes' = changes + 1
    /\ run' = [run EXCEPT ![r].is = [status |-> "requested", updated |-> clock]]
    /\ UNCHANGED <<clock, health, local>>

\* A job event is a change of a job or of its steps; it need not be activity.
JobAfter(r, event, starts) ==
    [event |-> IF event THEN changes + 1 ELSE run[r].job.event,
     active |-> IF event /\ starts THEN clock ELSE run[r].job.active]

Move(r, to, event) ==
    /\ changes < MaxChanges /\ <<run[r].is.status, to>> \in Moves
    /\ to \in Holding => \A q \in Runs \ {r} : run[q].is.status \notin Holding
    /\ to = "in_progress" => event
    /\ changes' = changes + 1
    /\ run' = [q \in Runs |->
                  IF q = r THEN [is |-> [status |-> to, updated |-> clock],
                                 job |-> JobAfter(r, event, TRUE)]
                  ELSE IF to = "pending" /\ run[q].is.status = "pending"
                  THEN [run[q] EXCEPT !.is = [status |-> "completed", updated |-> clock]]
                  ELSE run[q]]
    /\ UNCHANGED <<clock, health, local>>

Complete(r) ==
    /\ changes < MaxChanges /\ run[r].is.status \in Active
    /\ changes' = changes + 1
    /\ run' = [run EXCEPT ![r] = [is |-> [status |-> "completed", updated |-> clock],
                                  job |-> JobAfter(r, run[r].job.event > 0, FALSE)]]
    /\ UNCHANGED <<clock, health, local>>

Work(r, starts) ==
    /\ changes < MaxChanges /\ run[r].is.status = "in_progress"
    /\ changes' = changes + 1
    /\ run' = [run EXCEPT ![r].job = JobAfter(r, TRUE, starts)]
    /\ UNCHANGED <<clock, health, local>>

\* A worker commits to the state branch.
Deliver(settled) ==
    /\ changes < MaxChanges
    /\ changes' = changes + 1
    /\ health' = [head |-> changes + 1, settled |-> settled]
    /\ UNCHANGED <<clock, run, local>>

World ==
    \/ Tick
    \/ \E r \in Runs : Arrive(r) \/ Complete(r)
    \/ \E r \in Runs, to \in Active, event \in BOOLEAN : Move(r, to, event)
    \/ \E r \in Runs, starts \in BOOLEAN : Work(r, starts)
    \/ \E settled \in BOOLEAN : Deliver(settled)

Next == Observe \/ World

Spec == Init /\ [][Next]_vars

(***************************************************************************)
(* Properties.                                                             *)
(***************************************************************************)
StalledIn(runs) ==
    {r \in Runs : /\ runs[r].is.status \in Active
                  /\ now - LastActivity(runs[r].is, runs[r].job) >= Grace}

\* A report that is not unknown is exact for one moment of the observation,
\* the one at which the second pass began: it names every run that was stalled
\* then, no other, and the health that the branch had then.
ReportIsOfOneMoment ==
    pc = "done" /\ result.status # "unknown" =>
        /\ result.stalled = StalledIn(between.run)
        /\ initial = between.health

Start == now - Ahead   \* the time at which the observation began, as GitHub's
Underway == pc \notin {"idle", "done"}

\* Events and heads are numbered, so that one follows another or is the same.
NotAfter(a, b) == a = b \/ a.event < b.event
NotAfterHealth(a, b) == a = b \/ a.head < b.head

StampsAreOld ==
    /\ \A r \in Runs : run[r].is.updated <= clock /\ run[r].job.event <= changes
    /\ health.head <= changes
    /\ Underway => Start <= clock

SeenIsActive ==
    /\ \A p \in {1, 2}, r \in Runs : seen[p][r] # Nothing => seen[p][r].status \in Active
    /\ todo \subseteq Found(1)

AlreadyRead(r) ==
    \E i \in 1..5 : /\ ACTIVE[i] = run[r].is.status
                    /\ Home[r] < list[1] \/ (Home[r] = list[1] /\ i < list[2])

FirstPassInvariant ==
    pass = 1 /\ pc \in {"list", "jobs"} =>
        /\ \A r \in Runs :
              run[r].is.updated < Start /\ AlreadyRead(r) => seen[1][r] = run[r].is
        /\ pc = "jobs" => /\ list[1] > Workflows
                          /\ \A r \in Found(1) \ todo : NotAfter(jobs[1][r], run[r].job)
        /\ NotAfterHealth(initial, health)

SecondPassInvariant ==
    pass = 2 /\ Underway =>
        /\ \A r \in Runs :
              LET then == between.run[r] IN
              /\ then.is = run[r].is \/ run[r].is.updated >= Start
              /\ NotAfter(then.job, run[r].job)
              /\ then.is.status \in Active /\ then.is.updated < Start => seen[1][r] = then.is
              /\ seen[2][r] # Nothing /\ seen[2][r].updated < Start => seen[2][r] = then.is
              /\ r \in Found(1) => NotAfter(jobs[1][r], then.job)
              /\ pc \in {"jobs", "recheck"} /\ r \in Found(1) \ todo =>
                     NotAfter(then.job, jobs[2][r])
        /\ NotAfterHealth(initial, between.health)
        /\ NotAfterHealth(between.health, health)
        /\ pc \in {"list", "jobs", "recheck"}
        /\ pc \in {"jobs", "recheck"} => seen[1] = seen[2]
        /\ pc = "recheck" => jobs[1] = jobs[2] /\ todo = {}

PhasesInvariant ==
    /\ pc = "health" => pass = 1
    /\ pc = "recheck" => pass = 2
    /\ pass = 1 => \A r \in Runs : seen[2][r] = Nothing

\* The inductive invariant: what the first pass saw of a run that has been
\* idle since before the observation is still so when the second pass begins,
\* and what the second pass sees of it was so then.
ObserverInvariant ==
    /\ TypeOK /\ StampsAreOld /\ SeenIsActive /\ PhasesInvariant
    /\ FirstPassInvariant /\ SecondPassInvariant
    /\ ReportIsOfOneMoment
=============================================================================
