--------------------------- MODULE ReportingCycle ---------------------------
(***************************************************************************)
(* What the reporting maintenance promises, without runners, branch or     *)
(* archive: one interval at a time goes through the phases in order; its   *)
(* campaign gets a size once, its facts are credited one by one, and it is *)
(* ready when all of them are.  A cycle may go back to its first phase at  *)
(* any time, and nothing stays credited; only a ready one makes room for   *)
(* the next interval.                                                      *)
(***************************************************************************)
EXTENDS Integers

CONSTANTS Cutoffs,  \* ends of intervals
          Sizes     \* sizes of campaigns

VARIABLES interval,  \* the end of the interval that is reported, 0 before the first
          phase,
          size,      \* facts of the campaign, 0 when there is none
          credited   \* facts that count as staged

cycle == <<interval, phase, size, credited>>

CycleInit == interval = 0 /\ phase = "none" /\ size = 0 /\ credited = 0

\* A phase before the campaign follows another.
Goes(from, to) ==
    /\ phase = from /\ phase' = to
    /\ size' = 0 /\ credited' = 0

Begin == Goes("none", "backfill") /\ interval' \in Cutoffs
Scanned == Goes("backfill", "review") /\ UNCHANGED interval
Reviewed == Goes("review", "checkpoint") /\ UNCHANGED interval

\* The size of the campaign is that of the projection.
Projected ==
    /\ phase = "checkpoint" /\ phase' = "stage"
    /\ size' \in Sizes /\ credited' = 0
    /\ UNCHANGED interval

Credit ==
    /\ phase = "stage" /\ credited < size
    /\ credited' = credited + 1
    /\ UNCHANGED <<interval, phase, size>>

Finish ==
    /\ phase = "stage" /\ credited = size
    /\ phase' = "ready"
    /\ UNCHANGED <<interval, size, credited>>

\* A revision of policy or trust, or a gap in the coverage.
GoBack ==
    /\ phase # "none"
    /\ Goes(phase, "backfill") /\ UNCHANGED interval

NextInterval ==
    /\ Goes("ready", "backfill")
    /\ interval' \in {c \in Cutoffs : c > interval}

CycleNext ==
    \/ Begin \/ Scanned \/ Reviewed \/ Projected
    \/ Credit \/ Finish \/ GoBack \/ NextInterval

Spec == CycleInit /\ [][CycleNext]_cycle
=============================================================================
