------------------------- MODULE ProspectiveCollector -------------------------
(***************************************************************************)
(* One-shot prospective collection (corner_prospective.run_once with       *)
(* friday_collection.py and early_collection.py): discovery, at most two   *)
(* odds acquisitions per fixture, the weekend allocation, and the          *)
(* immutable evidence (analysis captures, market observations) that        *)
(* decides what a later run may still do.                                  *)
(*                                                                         *)
(* Runs are serialised by the runner lock (module ProspectiveBudget), so   *)
(* one run record is enough; a manual capture takes only the ledger lock   *)
(* and interleaves with a run.  Times are minutes from the midnight that   *)
(* opens day 0; New York is four hours behind UTC.                         *)
(***************************************************************************)
EXTENDS Integers, Sequences, FiniteSets, FiniteSetsExt

CONSTANTS
    Fixtures,         \* provider fixture ids (numbers: ids are compared)
    Schedules,        \* per fixture: the kickoffs its provider may announce
    Times,            \* bound: the instants at which the clock stops
    Saturday,         \* the day number of the one Saturday
    FridayReview,     \* run-once --friday-review
    CalendarGate,     \* run-once --calendar-gate
    ManualEarly,      \* an operator may run collect-early
    Allowance,        \* the period's allowance
    EarlierReserved,  \* what the period's earlier days may have reserved
    InvocationLimit,  \* invocation_limit of _RequestBudgetGuard
    WeekendLimit, SaturdayReserve, MidweekReserve, SaturdayLimit, AfternoonLimit,
    RunTimeout,       \* TimeoutStartSec of the service, in minutes
    MaxCrashes,       \* bound
    MaxManual         \* bound: manual captures

CollectorConstants ==
    /\ Fixtures \subseteq Nat /\ IsFiniteSet(Fixtures)
    /\ \A f \in Fixtures : Schedules[f] # {} /\ Schedules[f] \subseteq Nat \ {0}
    /\ Times # {} /\ Times \subseteq Nat
    /\ Saturday \in Nat
    /\ EarlierReserved \subseteq 0 .. Allowance
    /\ {FridayReview, CalendarGate, ManualEarly} \subseteq BOOLEAN
    /\ {Allowance, InvocationLimit, WeekendLimit, SaturdayReserve, MidweekReserve,
        SaturdayLimit, AfternoonLimit, RunTimeout, MaxCrashes, MaxManual} \subseteq Nat

VARIABLES
    now,        \* the clock
    schedule,   \* per fixture: the kickoff its provider announces
    discovery,  \* control: discovery and advance_discovery
    attempts,   \* control: attempts
    weekend,    \* control: weekend_allocations of the Saturday, -1 if absent
    reserved,   \* control: period.reserved
    observed,   \* per fixture: market-observations/
    captures,   \* per fixture: analyses/ (each with the observation it was made from)
    run,        \* the run holding the lock
    crashes, manuals,
    \* observations of the environment, read by no action
    quoted,     \* per fixture: odds acquisitions started
    phases,     \* the weekend acquisitions started, by the phase they were allocated to
    late,       \* an acquisition of a Friday slot was sent after the slot
    starved     \* a Saturday acquisition found the weekend allocation spent

control == <<discovery, attempts, weekend, reserved>>
evidence == <<observed, captures>>
observations == <<quoted, phases, late, starved>>
vars == <<now, schedule, control, evidence, run, crashes, manuals, observations>>

-----------------------------------------------------------------------------
(* Time                                                                    *)

Day(t) == t \div 1440
NYFriday(t) == t >= 240 /\ Day(t - 240) = Saturday - 1
NYHour(t) == ((t - 240) % 1440) \div 60
UTCHour(t) == (t % 1440) \div 60

\* friday_slot
FridaySlot(t) ==
    CASE NYFriday(t) /\ NYHour(t) \in 7 .. 8 -> "morning"
      [] NYFriday(t) /\ NYHour(t) \in 15 .. 16 -> "afternoon"
      [] OTHER -> "none"

-----------------------------------------------------------------------------
(* State                                                                   *)

Keys == {"discovery", "advance_discovery"}
NoDiscovery == [day |-> -1, status |-> "NONE", kickoffs |-> [f \in Fixtures |-> 0],
                queries |-> 0, at |-> 0]
NoAttempt == [count |-> 0, state |-> "NONE", at |-> 0, kickoff |-> 0,
              phase |-> "none", phaseAttempts |-> 0]
NoCapture == [n |-> 0, watch |-> FALSE, count |-> 0]
NoCohort == [slot |-> "none", day |-> -1, phase |-> "none", key |-> "discovery",
             weekend |-> FALSE, hold |-> FALSE, retry |-> FALSE, at |-> 0]
Idle == [pc |-> "idle", began |-> 0, stages |-> <<>>, planned |-> "none", cohort |-> NoCohort,
         captured |-> [f \in Fixtures |-> NoCapture], todo |-> {}, selected |-> {},
         fixture |-> 0, initial |-> FALSE, spent |-> 0, metadata |-> FALSE,
         quote |-> 0]

Listed(d) == {f \in Fixtures : d.kickoffs[f] # 0}
HasCapture(f) == run.captured[f].n # 0
Attempted(f) == attempts[f].count > 0
ObservationCount(f) == Cardinality(observed[f])

Init ==
    /\ now = Min(Times)
    /\ schedule = [f \in Fixtures |-> Min(Schedules[f])]
    /\ discovery = [k \in Keys |-> NoDiscovery]
    /\ attempts = [f \in Fixtures |-> NoAttempt]
    /\ weekend = -1
    /\ reserved \in EarlierReserved
    /\ observed = [f \in Fixtures |-> {}]
    /\ captures = [f \in Fixtures |-> {}]
    /\ run = Idle
    /\ crashes = 0 /\ manuals = 0
    /\ quoted = [f \in Fixtures |-> 0]
    /\ phases = [p \in {"morning", "afternoon", "near_kickoff", "manual_early"} |-> 0]
    /\ late = FALSE
    /\ starved = FALSE

\* a market observation, numbered in the order of retrieval
NextNumber(f) == 1 + Cardinality(observed[f] \cup captures[f])
Observation(f, kickoff, good, teamTotals) ==
    [n |-> NextNumber(f), at |-> now, kickoff |-> kickoff, good |-> good,
     teamTotals |-> teamTotals]

-----------------------------------------------------------------------------
(* The shared request budget                                               *)

\* the acquisitions that the attempts of some fixtures count, one by one
Counted(count, F) == UNION {{f} \X (1 .. count[f]) : f \in F}
AttemptCount == [f \in Fixtures |-> attempts[f].count]
PhaseCount == [f \in Fixtures |-> attempts[f].phaseAttempts]

\* weekend_spent; before the first allocation, a conservative estimate
WeekendSpent ==
    LET cached == \E k \in Keys : discovery[k].day = Saturday
        ours == {f \in Fixtures : /\ Attempted(f)
                                  /\ IF attempts[f].kickoff # 0
                                     THEN Day(attempts[f].kickoff) = Saturday
                                     ELSE Day(attempts[f].at) \in {Saturday, Saturday - 1}}
        estimate == (IF cached THEN 2 ELSE 0)
                        + 2 * Cardinality(Counted(AttemptCount, ours))
    IN IF weekend # -1 THEN weekend ELSE Min({WeekendLimit, estimate})

MutantNoHeadroom == 0

\* reserve with allocation_reason; a Friday in New York leaves Saturday its share
Headroom == IF NYFriday(now) THEN SaturdayReserve ELSE 0
WithinWeekend(count) == WeekendSpent + count <= WeekendLimit - Headroom
WithinPeriod(count) ==
    /\ run.spent + count <= InvocationLimit
    /\ reserved + count <= Allowance
MidweekKept(count) == Allowance - reserved - count >= MidweekReserve + Headroom
MayReserve(count) ==
    /\ WithinPeriod(count)
    /\ run.cohort.weekend => WithinWeekend(count) /\ MidweekKept(count)

Charge(count) ==
    /\ reserved' = reserved + count
    /\ weekend' = IF run.cohort.weekend THEN WeekendSpent + count ELSE weekend

-----------------------------------------------------------------------------
(* A run: the lock, the inventory, the cohorts                             *)

\* every capture gets its observation; a later observation of another kickoff
\* makes prediction_observations reject the fixture's evidence
Companions(f) == observed[f] \cup captures[f]
EvidenceRejected(f, seen) ==
    \E c \in captures[f], o \in seen : o.n # c.n /\ o.kickoff # c.kickoff
InventoryRejected == \E f \in Fixtures : EvidenceRejected(f, Companions(f))

\* what _inventory keeps of a fixture: its latest capture, how many observations
\* that prediction may use and whether one of them reached the watchlist
Captured(f, seen) ==
    LET last == CHOOSE c \in captures[f] : \A d \in captures[f] : d.n <= c.n
        used == {o \in seen : o.n >= last.n}
    IN IF captures[f] = {} THEN NoCapture
       ELSE [n |-> last.n, watch |-> \E o \in used : o.good, count |-> Cardinality(used)]

EndRun == run' = Idle

\* _lock, _load, _inventory; then the cohorts _provider_work will go through
StartRun(stages, selected) ==
    /\ run.pc = "idle"
    /\ observed' = [f \in Fixtures |-> Companions(f)]
    /\ IF InventoryRejected THEN EndRun
       ELSE run' = [Idle EXCEPT !.pc = "cohort", !.began = now, !.stages = stages, !.selected = selected,
                       !.planned = IF FridayReview THEN FridaySlot(now) ELSE "none",
                       !.captured = [f \in Fixtures |-> Captured(f, Companions(f))]]
    /\ UNCHANGED <<now, schedule, control, captures, crashes, manuals, observations>>

\* the hourly run: on a Friday slot an ordinary cohort comes first
StartHourly ==
    StartRun(IF FridayReview /\ FridaySlot(now) # "none" THEN <<"ordinary", "main">>
                                                         ELSE <<"main">>, {})

\* collect-early and its plan: a Saturday at most one day away; the whole request
\* must fit; a selection without an eligible fixture acquires nothing
EarlyKey == IF discovery["advance_discovery"].day # Saturday
               /\ discovery["discovery"].day = Saturday
            THEN "discovery" ELSE "advance_discovery"
EarlyEligible(f) ==
    LET d == discovery[EarlyKey] IN
    /\ ~Attempted(f) /\ observed[f] = {}
    /\ d.day = Saturday => d.status = "DONE" /\ d.kickoffs[f] - now \in 16 .. 2880
EarlyMaximum(eligible) ==
    IF eligible = {} THEN 0
    ELSE Cardinality(eligible) + 1 + IF discovery[EarlyKey].day = Saturday THEN 0 ELSE 1

StartEarly(selected) ==
    LET eligible == {f \in selected : EarlyEligible(f)}
        maximum == EarlyMaximum(eligible) IN
    /\ ManualEarly /\ selected # {}
    /\ Saturday - Day(now) \in 0 .. 1
    /\ maximum # 0 => /\ maximum <= Min({InvocationLimit, Allowance - reserved})
                      /\ WithinWeekend(maximum) /\ MidweekKept(maximum)
    /\ StartRun(<<"early">>, IF eligible = {} THEN {} ELSE selected)

\* the cohort _provider_cohort works on, from the clock it reads first
CohortAt(stage, t) ==
    LET slot == IF stage = "main" /\ FridayReview THEN FridaySlot(t) ELSE "none"
        day == IF stage = "early" \/ slot # "none" THEN Saturday ELSE Day(t)
        phase == IF stage = "early" THEN "manual_early"
                 ELSE IF slot # "none" THEN slot ELSE "near_kickoff"
        advanced == discovery["advance_discovery"].day = day
        allocated == day = Saturday /\ weekend # -1
        key == IF stage = "early"
               THEN EarlyKey
               ELSE IF slot # "none" \/ ((FridayReview \/ allocated) /\ advanced)
                    THEN "advance_discovery" ELSE "discovery"
        d == discovery[key]
        isWeekend == day = Saturday /\ (FridayReview \/ stage = "early" \/ allocated)
        retry == /\ stage # "early" /\ d.day = day /\ d.queries = 1
                 /\ (d.status = "DONE" \/ key = "advance_discovery")
                 /\ IF slot # "none" THEN slot = "afternoon"
                    ELSE key = "discovery" /\ UTCHour(t) \in 12 .. 17
                 /\ t - d.at >= 360
    IN [slot |-> slot, day |-> day, phase |-> phase, key |-> key, weekend |-> isWeekend,
        hold |-> isWeekend /\ NYFriday(t), retry |-> retry, at |-> t]

\* the calendar gate keeps a planned Saturday cohort to its own slot
PlannedSlotMissed(stage) ==
    CalendarGate /\ stage = "main" /\ run.planned # "none" /\ FridaySlot(now) # run.planned

NextCohort == run' = [run EXCEPT !.pc = "cohort", !.stages = Tail(@), !.cohort = NoCohort,
                                 !.todo = {}, !.fixture = 0, !.initial = FALSE]

EnterCohort ==
    /\ run.pc = "cohort" /\ run.stages # <<>>
    /\ IF PlannedSlotMissed(Head(run.stages))
             \/ (Head(run.stages) = "early" /\ run.selected = {})
       THEN NextCohort
       ELSE LET c == CohortAt(Head(run.stages), now)
                asks == discovery[c.key].day # c.day \/ c.retry
            IN run' = [run EXCEPT !.cohort = c, !.pc = IF asks THEN "discover" ELSE "cached"]
    /\ UNCHANGED <<now, schedule, control, evidence, crashes, manuals, observations>>

\* the last cohort is done: publication, receipt, lock released
FinishRun ==
    /\ run.pc = "cohort" /\ run.stages = <<>>
    /\ EndRun
    /\ UNCHANGED <<now, schedule, control, evidence, crashes, manuals, observations>>

-----------------------------------------------------------------------------
(* Discovery                                                               *)

MutantSlotUnchecked == TRUE

\* check_calendar, before every reservation and request: a slot's work does not go
\* on after the slot
SlotOpen ==
    (CalendarGate /\ run.cohort.slot # "none") => FridaySlot(now) = run.cohort.slot

SaturdayHeld(count) == run.cohort.hold /\ Allowance - reserved - count < SaturdayReserve

DiscoveryWithheld ==
    /\ run.pc = "discover" /\ SaturdayHeld(1)
    /\ NextCohort
    /\ UNCHANGED <<now, schedule, control, evidence, crashes, manuals, observations>>

\* a refused reservation is a RunnerError and ends the run
DiscoveryRefused ==
    /\ run.pc = "discover" /\ ~SaturdayHeld(1) /\ SlotOpen /\ ~MayReserve(1)
    /\ EndRun
    /\ UNCHANGED <<now, schedule, control, evidence, crashes, manuals, observations>>

ReserveDiscovery ==
    /\ run.pc = "discover" /\ ~SaturdayHeld(1) /\ SlotOpen /\ MayReserve(1)
    /\ Charge(1)
    /\ run' = [run EXCEPT !.pc = "record", !.spent = @ + 1]
    /\ UNCHANGED <<now, schedule, discovery, attempts, evidence, crashes, manuals,
                   observations>>

\* the second save: what is being asked is recorded before it is asked
RecordDiscovery ==
    /\ run.pc = "record"
    /\ discovery' = [discovery EXCEPT ![run.cohort.key] =
          IF @.day # run.cohort.day
          THEN [NoDiscovery EXCEPT !.day = run.cohort.day, !.status = "RESERVED",
                                   !.queries = 1, !.at = run.cohort.at]
          ELSE [@ EXCEPT !.status = "RESERVED", !.queries = 2, !.at = run.cohort.at]]
    /\ run' = [run EXCEPT !.pc = "query"]
    /\ UNCHANGED <<now, schedule, attempts, weekend, reserved, evidence, crashes, manuals,
                   observations>>

\* the provider lists some of the day's fixtures; a listed kickoff that disagrees
\* with the cache fails the query
Discovered(listed) ==
    LET d == discovery[run.cohort.key]
        moved == \E f \in listed : d.kickoffs[f] \notin {0, schedule[f]}
    IN IF moved THEN [d EXCEPT !.status = "FAILED"]
       ELSE [d EXCEPT !.status = "DONE",
                      !.kickoffs = [f \in Fixtures |-> IF f \in listed THEN schedule[f]
                                                       ELSE d.kickoffs[f]]]

DiscoveryAnswered(listed) ==
    /\ run.pc = "query" /\ SlotOpen
    /\ \A f \in listed : Day(schedule[f]) = run.cohort.day
    /\ discovery' = [discovery EXCEPT ![run.cohort.key] = Discovered(listed)]
    /\ IF Discovered(listed).status = "DONE" THEN run' = [run EXCEPT !.pc = "cached"]
                                             ELSE EndRun
    /\ UNCHANGED <<now, schedule, attempts, weekend, reserved, evidence, crashes, manuals,
                   observations>>

\* an invalid answer is recorded; a provider failure leaves the query RESERVED
DiscoveryFailed ==
    /\ run.pc = "query"
    /\ discovery' \in {discovery, [discovery EXCEPT ![run.cohort.key].status = "FAILED"]}
    /\ EndRun
    /\ UNCHANGED <<now, schedule, attempts, weekend, reserved, evidence, crashes, manuals,
                   observations>>

\* only an advance cache may be used after an incomplete query
UseCache ==
    LET d == discovery[run.cohort.key]
        usable == d.status = "DONE"
                    \/ (run.cohort.key = "advance_discovery" /\ Listed(d) # {})
    IN /\ run.pc = "cached"
       /\ IF usable
          THEN run' = [run EXCEPT !.pc = "pick",
                         !.todo = IF run.cohort.phase = "manual_early"
                                  THEN Listed(d) \cap run.selected ELSE Listed(d)]
          ELSE NextCohort
       /\ UNCHANGED <<now, schedule, control, evidence, crashes, manuals, observations>>

\* the calendar gate, read before a cohort, a reservation and every request: no
\* fresh evidence ends the cohort, a closed slot ends the run
CalendarStops ==
    /\ CalendarGate
    /\ run.pc \in {"discover", "query", "cached", "pick", "reserve", "quote"}
    /\ NextCohort
    /\ UNCHANGED <<now, schedule, control, evidence, crashes, manuals, observations>>

SlotCloses ==
    /\ run.pc \in {"discover", "query", "cached", "pick", "reserve", "quote"} /\ ~SlotOpen
    /\ EndRun
    /\ UNCHANGED <<now, schedule, control, evidence, crashes, manuals, observations>>

-----------------------------------------------------------------------------
(* The fixtures of a cohort                                                *)

Cached(f) == discovery[run.cohort.key].kickoffs[f]
MinutesLeft(f) == Cached(f) - now

\* uncaptured fixtures first in an afternoon or on a weekend, then by kickoff
Before(f, g) ==
    LET key(h) == IF (run.cohort.phase = "afternoon" \/ run.cohort.weekend) /\ HasCapture(h)
                  THEN 1 ELSE 0
    IN \/ key(f) < key(g)
       \/ key(f) = key(g) /\ Cached(f) < Cached(g)
       \/ key(f) = key(g) /\ Cached(f) = Cached(g) /\ f < g
FirstFixture == CHOOSE f \in run.todo : \A g \in run.todo : g = f \/ Before(f, g)

OnDay(f) == attempts[f].kickoff # 0 /\ Day(attempts[f].kickoff) = run.cohort.day
MutantFinishedAttempts ==
    Cardinality(Counted(PhaseCount,
                  {f \in Fixtures : /\ attempts[f].phase = "near_kickoff" /\ OnDay(f)
                                    /\ attempts[f].state = "DONE"}))
NearKickoffAttempts ==
    Cardinality(Counted(PhaseCount,
                  {f \in Fixtures : attempts[f].phase = "near_kickoff" /\ OnDay(f)}))
AfternoonAttempts ==
    Cardinality({f \in Fixtures : attempts[f].phase = "afternoon" /\ OnDay(f)})

Early == run.cohort.phase = "manual_early"

InitialSlot(f) ==
    /\ ~HasCapture(f)
    /\ \/ run.cohort.slot # "none"
       \/ 15 < MinutesLeft(f) /\ MinutesLeft(f) <= (IF Early THEN 2880 ELSE 360)
LatestSlot(f) ==
    /\ ~Early /\ HasCapture(f)
    /\ run.captured[f].watch /\ run.captured[f].count < 2
    /\ (run.cohort.phase = "afternoon" \/ MinutesLeft(f) \in 16 .. 90)

MutantKickoffForgotten(f) == FALSE

\* an attempt made before remembers the kickoff it was made for, in weekend mode
KickoffChanged(f) == Attempted(f) /\ attempts[f].kickoff \notin {0, Cached(f)}

InPolicy(f) ==
    /\ CalendarGate => MinutesLeft(f) > 0
    /\ Early => ~HasCapture(f) /\ ~Attempted(f) /\ observed[f] = {}
    /\ (InitialSlot(f) \/ LatestSlot(f))
    /\ ~KickoffChanged(f)

\* the cohort stops at a closed slot or an exhausted phase quota
QuotaReached(f) ==
    \/ run.cohort.slot # "none" /\ FridaySlot(now) # run.cohort.slot
    \/ /\ run.cohort.weekend /\ run.cohort.phase = "near_kickoff"
       /\ NearKickoffAttempts >= SaturdayLimit
    \/ run.cohort.phase = "afternoon" /\ InPolicy(f) /\ AfternoonAttempts >= AfternoonLimit

MutantAnyRetry(f) == LatestSlot(f) \/ attempts[f].state = "NO_TEAM_TOTAL"

\* a second acquisition: a watchlisted capture near kickoff, or a first look an
\* hour ago that found no team totals
SecondLook(f) ==
    \/ LatestSlot(f) /\ attempts[f].count <= 1
    \/ /\ InitialSlot(f) /\ attempts[f].state = "NO_TEAM_TOTAL" /\ attempts[f].count = 1
       /\ (run.cohort.phase = "afternoon" \/ MinutesLeft(f) \in 16 .. 90)
       /\ ObservationCount(f) = 1
       /\ \A o \in observed[f] : o.at >= attempts[f].at /\ now - o.at >= 60
Eligible(f) ==
    /\ InPolicy(f)
    /\ ~(run.cohort.phase = "afternoon" /\ attempts[f].phase = "afternoon")
    /\ Attempted(f) => SecondLook(f)

StopCohort ==
    /\ run.pc = "pick"
    /\ run.todo # {} => (SlotOpen /\ QuotaReached(FirstFixture))
    /\ NextCohort
    /\ UNCHANGED <<now, schedule, control, evidence, crashes, manuals, observations>>

SkipFixture ==
    /\ run.pc = "pick" /\ run.todo # {}
    /\ SlotOpen /\ ~QuotaReached(FirstFixture)
    /\ (CalendarGate \/ ~Eligible(FirstFixture))
    /\ run' = [run EXCEPT !.todo = @ \ {FirstFixture}]
    /\ UNCHANGED <<now, schedule, control, evidence, crashes, manuals, observations>>

TakeFixture ==
    /\ run.pc = "pick" /\ run.todo # {}
    /\ SlotOpen /\ ~QuotaReached(FirstFixture) /\ Eligible(FirstFixture)
    /\ run' = [run EXCEPT !.pc = "recheck", !.fixture = FirstFixture,
                          !.initial = InitialSlot(FirstFixture),
                          !.todo = @ \ {FirstFixture}]
    /\ UNCHANGED <<now, schedule, control, evidence, crashes, manuals, observations>>

\* "Recheck evidence immediately before quotes, including manual captures": the
\* ledger is read again and a capture found there replaces what the run knew
Rechecked(c) ==
    IF c = NoCapture THEN run.captured[run.fixture]
    ELSE [n |-> c.n, watch |-> c.good,
          count |-> Cardinality({o \in Companions(run.fixture) : o.n >= c.n})]

MayAcquire(known, seen) ==
    /\ IF run.initial THEN known.n = 0 ELSE known.n # 0 /\ known.count < 2
    /\ Cardinality(seen) < 2

Recheck ==
    LET f == run.fixture IN
    /\ run.pc = "recheck"
    /\ \E c \in IF captures[f] = {} THEN {NoCapture} ELSE captures[f] :
          LET seen == IF c = NoCapture THEN observed[f] ELSE observed[f] \cup {c} IN
          /\ observed' = [observed EXCEPT ![f] = seen]
          /\ IF c # NoCapture /\ \E o \in seen : o.n # c.n /\ o.kickoff # c.kickoff
             THEN EndRun
             ELSE run' = [run EXCEPT !.captured[f] = Rechecked(c),
                            !.pc = IF MayAcquire(Rechecked(c), seen) THEN "reserve"
                                                                     ELSE "pick"]
    /\ UNCHANGED <<now, schedule, control, captures, crashes, manuals, observations>>

\* metadata fetched earlier in the run is reused
Cost == IF run.metadata THEN 1 ELSE 2

\* a refusal ends the cohort; the summary only reports it
ReserveRefused ==
    /\ run.pc = "reserve" /\ (SaturdayHeld(Cost) \/ (SlotOpen /\ ~MayReserve(Cost)))
    /\ NextCohort
    /\ starved' = (starved \/ (/\ run.cohort.weekend /\ run.cohort.phase = "near_kickoff"
                               /\ WithinPeriod(Cost) /\ ~WithinWeekend(Cost)))
    /\ UNCHANGED <<now, schedule, control, evidence, crashes, manuals, quoted, phases, late>>

ReserveQuote ==
    /\ run.pc = "reserve" /\ ~SaturdayHeld(Cost) /\ SlotOpen /\ MayReserve(Cost)
    /\ Charge(Cost)
    /\ run' = [run EXCEPT !.pc = "attempt", !.spent = @ + Cost]
    /\ UNCHANGED <<now, schedule, discovery, attempts, evidence, crashes, manuals,
                   observations>>

\* the attempt is saved as RESERVED before the first request for it
NewAttempt(f) ==
    LET previous == attempts[f] IN
    [count |-> Max({ObservationCount(f), previous.count}) + 1, state |-> "RESERVED", at |-> now,
     kickoff |-> IF FridayReview \/ Early \/ run.cohort.weekend THEN Cached(f) ELSE 0,
     phase |-> IF FridayReview \/ Early \/ run.cohort.weekend
               THEN run.cohort.phase ELSE "none",
     phaseAttempts |-> IF FridayReview \/ Early \/ run.cohort.weekend
                       THEN IF previous.phase = run.cohort.phase
                            THEN previous.phaseAttempts + 1 ELSE 1
                       ELSE 0]

MutantAttemptAfterwards ==
    /\ run.pc = "attempt"
    /\ run' = [run EXCEPT !.pc = "quote"]
    /\ UNCHANGED <<now, schedule, control, evidence, crashes, manuals, observations>>

RecordAttempt ==
    /\ run.pc = "attempt"
    /\ attempts' = [attempts EXCEPT ![run.fixture] = NewAttempt(run.fixture)]
    /\ run' = [run EXCEPT !.pc = "quote"]
    /\ UNCHANGED <<now, schedule, discovery, weekend, reserved, evidence, crashes, manuals,
                   observations>>

-----------------------------------------------------------------------------
(* The acquisition                                                         *)

Sent(f) ==
    /\ quoted' = [quoted EXCEPT ![f] = @ + 1]
    /\ phases' = IF run.cohort.weekend THEN [phases EXCEPT ![run.cohort.phase] = @ + 1] ELSE phases
    /\ late' = (late \/ (/\ run.cohort.slot # "none"
                         /\ FridaySlot(now) # run.cohort.slot))
    /\ UNCHANGED starved

SaveState(state) ==
    attempts' = [attempts EXCEPT ![run.fixture].state = state]

\* get_corner_markets and store_market_observation; a fixture that moved since
\* its discovery is not quoted
Quote(good, teamTotals) ==
    LET f == run.fixture
        o == Observation(f, Cached(f), good, teamTotals) IN
    /\ run.pc = "quote" /\ SlotOpen
    /\ schedule[f] = Cached(f) /\ now < Cached(f)
    /\ observed' = [observed EXCEPT ![f] = @ \cup {o}]
    /\ Sent(f)
    /\ run' = [run EXCEPT !.pc = "assess", !.quote = o.n, !.metadata = TRUE]
    /\ UNCHANGED <<now, schedule, control, captures, crashes, manuals>>

MutantUnknownState ==
    /\ run.pc = "quote" /\ SlotOpen
    /\ Sent(run.fixture)
    /\ SaveState("FIXTURE_REVIEW")
    /\ run' = [run EXCEPT !.pc = "pick"]
    /\ UNCHANGED <<now, schedule, discovery, weekend, reserved, evidence, crashes, manuals>>

\* FIXTURE_REVIEW: the answer cannot be used; the next fixture is tried
QuoteReviewed ==
    /\ run.pc = "quote" /\ SlotOpen
    /\ Sent(run.fixture)
    /\ SaveState("REVIEW")
    /\ \E fetched \in BOOLEAN :
          run' = [run EXCEPT !.pc = "pick", !.metadata = @ \/ fetched]
    /\ UNCHANGED <<now, schedule, discovery, weekend, reserved, evidence, crashes, manuals>>

\* any other provider failure ends the run with the attempt RESERVED
QuoteFailed ==
    /\ run.pc = "quote" /\ SlotOpen
    /\ Sent(run.fixture)
    /\ EndRun
    /\ UNCHANGED <<now, schedule, control, evidence, crashes, manuals>>

TheQuote == CHOOSE o \in observed[run.fixture] : o.n = run.quote

NextFixture(f, known) == run' = [run EXCEPT !.pc = "pick", !.captured[f] = known]

\* no capture to make: no team totals, or the capture window closed meanwhile
AssessUnusable ==
    /\ run.pc = "assess"
    /\ (~TheQuote.teamTotals \/ MinutesLeft(run.fixture) <= 15)
    /\ SaveState(IF TheQuote.teamTotals THEN "DONE" ELSE "NO_TEAM_TOTAL")
    /\ run' = [run EXCEPT !.pc = "pick"]
    /\ UNCHANGED <<now, schedule, discovery, weekend, reserved, evidence, crashes, manuals,
                   observations>>

\* a second look is assessed against the prediction frozen by the first; a quote
\* for another kickoff does not belong to it and ends the run
AssessAgain ==
    LET f == run.fixture  known == run.captured[f]
        source == CHOOSE c \in captures[f] : c.n = known.n IN
    /\ run.pc = "assess" /\ HasCapture(f)
    /\ TheQuote.teamTotals /\ MinutesLeft(f) > 15
    /\ IF TheQuote.kickoff # source.kickoff
       THEN EndRun
            /\ UNCHANGED attempts
       ELSE /\ SaveState("DONE")
            /\ NextFixture(f, [known EXCEPT !.watch = @ \/ TheQuote.good, !.count = @ + 1])
    /\ UNCHANGED <<now, schedule, discovery, weekend, reserved, evidence, crashes, manuals,
                   observations>>

\* client.capture: the first usable quote becomes the fixture's analysis; too
\* little history leaves it without one
StoreCapture ==
    LET f == run.fixture IN
    /\ run.pc = "assess" /\ ~HasCapture(f)
    /\ TheQuote.teamTotals /\ MinutesLeft(f) > 15
    /\ captures' = [captures EXCEPT ![f] = @ \cup {TheQuote}]
    /\ run' = [run EXCEPT !.pc = "captured"]
    /\ UNCHANGED <<now, schedule, control, observed, crashes, manuals, observations>>

HistoryMissing ==
    /\ run.pc = "assess" /\ ~HasCapture(run.fixture)
    /\ TheQuote.teamTotals /\ MinutesLeft(run.fixture) > 15
    /\ SaveState("HISTORY")
    /\ run' = [run EXCEPT !.pc = "pick"]
    /\ UNCHANGED <<now, schedule, discovery, weekend, reserved, evidence, crashes, manuals,
                   observations>>

AssessCapture ==
    LET f == run.fixture IN
    /\ run.pc = "captured"
    /\ IF \E o \in observed[f] : o.kickoff # TheQuote.kickoff
       THEN EndRun
            /\ UNCHANGED attempts
       ELSE /\ SaveState("DONE")
            /\ NextFixture(f, [n |-> run.quote, watch |-> TheQuote.good,
                               count |-> Cardinality({o \in observed[f] : o.n >= run.quote})])
    /\ UNCHANGED <<now, schedule, discovery, weekend, reserved, evidence, crashes, manuals,
                   observations>>

-----------------------------------------------------------------------------
(* The environment                                                         *)

\* the lock is dropped; what was saved stays
Crash ==
    /\ run.pc # "idle" /\ crashes < MaxCrashes
    /\ crashes' = crashes + 1
    /\ EndRun
    /\ UNCHANGED <<now, schedule, control, evidence, manuals, observations>>

\* an operator captures a fixture; its observation is stored by a later run
ManualCapture(f, good) ==
    /\ manuals < MaxManual /\ now < schedule[f]
    /\ manuals' = manuals + 1
    /\ captures' = [captures EXCEPT ![f] = @ \cup {Observation(f, schedule[f], good, TRUE)}]
    /\ UNCHANGED <<now, schedule, control, observed, run, crashes, observations>>

Reschedule(f) ==
    /\ now < schedule[f]
    /\ \E kickoff \in Schedules[f] :
          kickoff > schedule[f] /\ schedule' = [schedule EXCEPT ![f] = kickoff]
    /\ UNCHANGED <<now, control, evidence, run, crashes, manuals, observations>>

\* the service manager ends a run that is still active after RunTimeout
Tick ==
    /\ \E t \in Times : t > now
    /\ now' = Min({t \in Times : t > now})
    /\ run.pc # "idle" => now' - run.began <= RunTimeout
    /\ UNCHANGED <<schedule, control, evidence, run, crashes, manuals, observations>>

RunStep ==
    \/ EnterCohort \/ FinishRun
    \/ DiscoveryWithheld \/ DiscoveryRefused \/ ReserveDiscovery \/ RecordDiscovery
    \/ (\E listed \in SUBSET Fixtures : DiscoveryAnswered(listed)) \/ DiscoveryFailed
    \/ UseCache \/ CalendarStops \/ SlotCloses
    \/ StopCohort \/ SkipFixture \/ TakeFixture \/ Recheck
    \/ ReserveRefused \/ ReserveQuote \/ RecordAttempt
    \/ (\E good, teamTotals \in BOOLEAN : Quote(good, teamTotals))
    \/ QuoteReviewed \/ QuoteFailed
    \/ AssessUnusable \/ AssessAgain \/ StoreCapture \/ HistoryMissing \/ AssessCapture

Next ==
    \/ StartHourly \/ \E selected \in SUBSET Fixtures : StartEarly(selected)
    \/ RunStep
    \/ Crash
    \/ \E f \in Fixtures : Reschedule(f) \/ \E good \in BOOLEAN : ManualCapture(f, good)
    \/ Tick

Spec == Init /\ [][Next]_vars

-----------------------------------------------------------------------------
(* Properties                                                              *)

\* The control's collections and the run hold values run_once can produce.
TypeOK ==
    /\ now \in Times
    /\ \A f \in Fixtures : schedule[f] \in Schedules[f]
    /\ \A k \in Keys : discovery[k].status \in {"NONE", "RESERVED", "DONE", "FAILED"}
    /\ \A f \in Fixtures : attempts[f].state \in
          {"NONE", "RESERVED", "NO_TEAM_TOTAL", "DONE", "REVIEW", "HISTORY"}
    /\ weekend \in Int /\ reserved \in Nat
    /\ run.todo \subseteq Fixtures /\ run.spent \in Nat

\* _load accepts every control a run leaves behind: attempts of one or two, a
\* phase counted within them, at most two queries a day, a weekend within limit.
ControlLoads ==
    /\ \A f \in Fixtures : Attempted(f) =>
          /\ attempts[f].count \in {1, 2}
          /\ attempts[f].phase # "none" =>
                attempts[f].phaseAttempts \in 1 .. attempts[f].count
    /\ \A k \in Keys : discovery[k].day # -1 => discovery[k].queries \in {1, 2}
    /\ weekend <= WeekendLimit
    /\ reserved <= Allowance

\* An acquisition is always recorded before it is sent, so crashes cannot make a
\* fixture be bought more often than its attempt says, and never a third time.
AcquisitionsRecorded == \A f \in Fixtures : quoted[f] <= attempts[f].count

\* The second slots of Friday afternoon and Saturday are shared quotas, crashed
\* and failed acquisitions included.
PhaseQuotas ==
    /\ phases["afternoon"] <= AfternoonLimit
    /\ phases["near_kickoff"] <= SaturdayLimit

\* SATURDAY_RESERVE, "held back from Friday": as long as nothing crashed, the
\* Saturday acquisitions the quota allows are never refused for the weekend limit.
SaturdayReserveSuffices == crashes = 0 => ~starved

\* "a precharged Saturday request must not leave after its originally planned
\* Friday window has closed" (under the calendar gate)
SlotHonoured == CalendarGate => ~late

\* A weekend run never leaves evidence that the next inventory rejects: with the
\* kickoff kept in the attempt a postponed fixture is not observed again.
EvidenceStaysReadable == (FridayReview /\ manuals = 0) => ~InventoryRejected
=============================================================================
