---------------------------- MODULE MCCollection ----------------------------
(*****************************************************************************)
(* Small instances of the hourly collection: the request budget with two     *)
(* overlapping invocations, the collector over a weekend, over a             *)
(* postponement and on an ordinary day, and the operator projection of its   *)
(* next acquisitions.                                                        *)
(*****************************************************************************)
EXTENDS ProspectiveBudget, TLC

CONSTANTS
    r1, r2

VARIABLES
    part,  \* the component this behaviour runs
    now, schedule, discovery, attempts, weekend, reserved, observed, captures,
    run, crashes, manuals, quoted, phases, late, starved, projectedWeekendNow,
    projectedWeekendSchedule, projectedWeekendDiscovery,
    projectedWeekendAttempts, projectedWeekendWeekend,
    projectedWeekendReserved, projectedWeekendObserved,
    projectedWeekendCaptures, projectedWeekendRun, projectedWeekendCrashes,
    projectedWeekendManuals, projectedWeekendQuoted, projectedWeekendPhases,
    projectedWeekendLate, projectedWeekendStarved, predicted, held

\* Friday 20:55 UTC, in the afternoon slot of New York, 21:05 after it, and
\* Saturday 13:35 for kickoffs at 15:00
WeekendTimes == {1255, 1265, 2255}
WeekendSchedules == [f \in {1, 2} |-> {2340}]

\* Friday 20:55, Saturday 13:35 and Sunday 13:35; the kickoff on Saturday at 15:00
\* may be postponed by a day
PostponedTimes == {1255, 2255, 3695}
PostponedSchedules == [f \in {1} |-> {2340, 3780}]

\* Friday 12:30, 17:35 and 18:35 UTC and Saturday 17:35; 18:45 may become
\* 18:45 on the next day
OrdinaryTimes == {750, 1055, 1115, 2495}
OrdinarySchedules == [f \in {1} |-> {1125, 2565}]

\* the times of the projection: the two slots, and Saturday 12:05, 13:35 and 14:35;
\* one day from 06:20 for kickoffs at 18:45 and 19:30
ProjectedTimes == {665, 1255, 2165, 2255, 2315}
DayTimes == {380, 750, 1055, 1105, 1115}
DaySchedules == [f \in {1, 2} |-> {IF f = 1 THEN 1125 ELSE 1170}]

-----------------------------------------------------------------------------
\* Friday afternoon and Saturday with the calendar gate, without crashes.
Weekend == INSTANCE ProspectiveCollector WITH
    Fixtures <- {1, 2}, Schedules <- WeekendSchedules, Times <- WeekendTimes,
    FridayReview <- TRUE, InvocationLimit <- 5, WeekendLimit <- 5,
    SaturdayReserve <- 2, MidweekReserve <- 3, SaturdayLimit <- 1,
    AfternoonLimit <- 2, RunTimeout <- 20, Allowance <- 20,
    EarlierReserved <- {0}, ManualEarly <- FALSE, CalendarGate <- TRUE,
    MaxCrashes <- 0, MaxManual <- 0, Saturday <- 1

\* A postponed fixture, a manual early run and a crash.
Postponed == INSTANCE ProspectiveCollector WITH
    Fixtures <- {1}, Schedules <- PostponedSchedules, Times <- PostponedTimes,
    FridayReview <- TRUE, InvocationLimit <- 5, WeekendLimit <- 9,
    SaturdayReserve <- 2, MidweekReserve <- 3, SaturdayLimit <- 1,
    AfternoonLimit <- 1, RunTimeout <- 20, Allowance <- 20,
    EarlierReserved <- {0}, ManualEarly <- TRUE, CalendarGate <- FALSE,
    MaxCrashes <- 1, MaxManual <- 0, Saturday <- 1

\* The hourly run on days without a weekend policy, with a manual capture and
\* a crash.
Ordinary == INSTANCE ProspectiveCollector WITH
    Fixtures <- {1}, Schedules <- OrdinarySchedules, Times <- OrdinaryTimes,
    FridayReview <- FALSE, InvocationLimit <- 8, WeekendLimit <- 9,
    SaturdayReserve <- 2, MidweekReserve <- 3, SaturdayLimit <- 1,
    AfternoonLimit <- 1, RunTimeout <- 20, Allowance <- 20,
    EarlierReserved <- {0}, ManualEarly <- FALSE, CalendarGate <- FALSE,
    MaxCrashes <- 1, MaxManual <- 1, Saturday <- 9

\* The projection beside the weekend runs, and beside the runs of one day.
ProjectedWeekend == INSTANCE CollectorFreshness WITH
    Fixtures <- {1, 2}, Schedules <- WeekendSchedules,
    Times <- ProjectedTimes, FridayReview <- TRUE, InvocationLimit <- 5,
    WeekendLimit <- 9, SaturdayReserve <- 2, MidweekReserve <- 3,
    SaturdayLimit <- 1, AfternoonLimit <- 1, RunTimeout <- 20,
    Allowance <- 14, EarlierReserved <- {0, 4}, ManualEarly <- FALSE,
    CalendarGate <- FALSE, MaxCrashes <- 0, MaxManual <- 0, Saturday <- 1,
    now <- projectedWeekendNow, schedule <- projectedWeekendSchedule,
    discovery <- projectedWeekendDiscovery,
    attempts <- projectedWeekendAttempts, weekend <- projectedWeekendWeekend,
    reserved <- projectedWeekendReserved,
    observed <- projectedWeekendObserved,
    captures <- projectedWeekendCaptures, run <- projectedWeekendRun,
    crashes <- projectedWeekendCrashes, manuals <- projectedWeekendManuals,
    quoted <- projectedWeekendQuoted, phases <- projectedWeekendPhases,
    late <- projectedWeekendLate, starved <- projectedWeekendStarved

ProjectedDay == INSTANCE CollectorFreshness WITH
    Fixtures <- {1, 2}, Schedules <- DaySchedules, Times <- DayTimes,
    FridayReview <- TRUE, InvocationLimit <- 5, WeekendLimit <- 9,
    SaturdayReserve <- 2, MidweekReserve <- 3, SaturdayLimit <- 1,
    AfternoonLimit <- 1, RunTimeout <- 20, Allowance <- 9,
    EarlierReserved <- {0, 3}, ManualEarly <- FALSE, CalendarGate <- FALSE,
    MaxCrashes <- 0, MaxManual <- 0, Saturday <- 3,
    now <- projectedWeekendNow, schedule <- projectedWeekendSchedule,
    discovery <- projectedWeekendDiscovery,
    attempts <- projectedWeekendAttempts, weekend <- projectedWeekendWeekend,
    reserved <- projectedWeekendReserved,
    observed <- projectedWeekendObserved,
    captures <- projectedWeekendCaptures, run <- projectedWeekendRun,
    crashes <- projectedWeekendCrashes, manuals <- projectedWeekendManuals,
    quoted <- projectedWeekendQuoted, phases <- projectedWeekendPhases,
    late <- projectedWeekendLate, starved <- projectedWeekendStarved

ASSUME PartsAreSound ==
    /\ Weekend!CollectorConstants
    /\ Postponed!CollectorConstants
    /\ Ordinary!CollectorConstants
    /\ ProjectedWeekend!CollectorConstants
    /\ ProjectedDay!CollectorConstants

-----------------------------------------------------------------------------
coreVars ==
    <<today, control, events, lock, pc, mem, plan, guard, rolls, failures,
      spent, monthSent, wholeMonth>>
weekendVars ==
    <<now, schedule, discovery, attempts, weekend, reserved, observed,
      captures, run, crashes, manuals, quoted, phases, late, starved>>
projectedWeekendVars ==
    <<projectedWeekendNow, projectedWeekendSchedule,
      projectedWeekendDiscovery, projectedWeekendAttempts,
      projectedWeekendWeekend, projectedWeekendReserved,
      projectedWeekendObserved, projectedWeekendCaptures, projectedWeekendRun,
      projectedWeekendCrashes, projectedWeekendManuals,
      projectedWeekendQuoted, projectedWeekendPhases, projectedWeekendLate,
      projectedWeekendStarved, predicted, held>>
suiteVars == <<part, coreVars, weekendVars, projectedWeekendVars>>

(* Each behaviour runs one component; what the others would hold is 0.      *)
NoWeekend ==
    /\ now = 0 /\ schedule = 0 /\ discovery = 0 /\ attempts = 0 /\ weekend = 0
    /\ reserved = 0 /\ observed = 0 /\ captures = 0 /\ run = 0 /\ crashes = 0
    /\ manuals = 0 /\ quoted = 0 /\ phases = 0 /\ late = 0 /\ starved = 0
NoProjectedWeekend ==
    /\ projectedWeekendNow = 0 /\ projectedWeekendSchedule = 0
    /\ projectedWeekendDiscovery = 0 /\ projectedWeekendAttempts = 0
    /\ projectedWeekendWeekend = 0 /\ projectedWeekendReserved = 0
    /\ projectedWeekendObserved = 0 /\ projectedWeekendCaptures = 0
    /\ projectedWeekendRun = 0 /\ projectedWeekendCrashes = 0
    /\ projectedWeekendManuals = 0 /\ projectedWeekendQuoted = 0
    /\ projectedWeekendPhases = 0 /\ projectedWeekendLate = 0
    /\ projectedWeekendStarved = 0 /\ predicted = 0 /\ held = 0

SuiteInit ==
    /\ Init
    /\ \/ /\ part = "budget"
          /\ NoWeekend /\ NoProjectedWeekend
       \/ /\ part = "weekend" /\ Weekend!Init
          /\ NoProjectedWeekend
       \/ /\ part = "postponed" /\ Postponed!Init
          /\ NoProjectedWeekend
       \/ /\ part = "ordinary" /\ Ordinary!Init
          /\ NoProjectedWeekend
       \/ /\ part = "projected weekend" /\ ProjectedWeekend!FreshnessInit
          /\ NoWeekend
       \/ /\ part = "projected day" /\ ProjectedDay!FreshnessInit
          /\ NoWeekend

SuiteNext ==
    \/ /\ part = "budget" /\ Next
       /\ UNCHANGED <<part, weekendVars, projectedWeekendVars>>
    \/ /\ part = "weekend" /\ Weekend!Next
       /\ UNCHANGED <<part, coreVars, projectedWeekendVars>>
    \/ /\ part = "postponed" /\ Postponed!Next
       /\ UNCHANGED <<part, coreVars, projectedWeekendVars>>
    \/ /\ part = "ordinary" /\ Ordinary!Next
       /\ UNCHANGED <<part, coreVars, projectedWeekendVars>>
    \/ /\ part = "projected weekend" /\ ProjectedWeekend!FreshnessNext
       /\ UNCHANGED <<part, coreVars, weekendVars>>
    \/ /\ part = "projected day" /\ ProjectedDay!FreshnessNext
       /\ UNCHANGED <<part, coreVars, weekendVars>>

SuiteSpec == SuiteInit /\ [][SuiteNext]_suiteVars

\* only what a part quantifies over is permuted
Symmetry ==
    Permutations(Runners)

-----------------------------------------------------------------------------
\* The weekend policies over any number of runs: first captures share one afternoon
\* quota and near-kickoff captures one Saturday quota, retries included; what is
\* spent on Friday leaves the Saturday reserve; and an acquisition planned for a
\* slot is never sent after the slot.
WeekendPolicies ==
    part = "weekend" =>
        Weekend!TypeOK /\ Weekend!PhaseQuotas /\ Weekend!SaturdayReserveSuffices /\ Weekend!SlotHonoured

\* With postponements, manual captures and a crash: the control a run leaves always
\* loads in the next; without manual captures no run leaves evidence that makes the
\* inventory of the next reject the directory; and each acquisition is on record before
\* it is sent, so that no fixture is bought more often than its attempts say.
StateStaysReadable ==
    /\ part = "postponed" =>
          Postponed!TypeOK /\ Postponed!ControlLoads /\ Postponed!EvidenceStaysReadable
    /\ part = "ordinary" =>
          Ordinary!TypeOK /\ Ordinary!ControlLoads /\ Ordinary!AcquisitionsRecorded

\* What the operator is told of the next acquisition is what the next run does: a
\* run acquires no fixture before the projected instant, nor one projected for never,
\* and refuses none that was projected for the moment at which it begins.
ProjectionIsHonest ==
    /\ part = "projected weekend" =>
          /\ ProjectedWeekend!FreshnessTypeOK
          /\ ProjectedWeekend!NoAcquisitionIsMissed /\ ProjectedWeekend!EligibleIsTaken
    /\ part = "projected day" =>
          /\ ProjectedDay!FreshnessTypeOK
          /\ ProjectedDay!NoAcquisitionIsMissed /\ ProjectedDay!EligibleIsTaken
=============================================================================
