-------------------------- MODULE CollectorFreshness --------------------------
(***************************************************************************)
(* The operator's projection of the collector (collector_freshness.py):    *)
(* for every discovered fixture, the earliest instant at which a run could *)
(* acquire it if the saved state stayed as it is.  It repeats the windows, *)
(* quotas and budgets of corner_prospective.py in its own words, so it is  *)
(* checked against the collector itself: the projection is taken under the *)
(* runner lock, just before a run begins, and compared with what that run  *)
(* then does.                                                              *)
(***************************************************************************)
EXTENDS ProspectiveCollector

VARIABLES
    predicted,  \* per fixture: the projected instant by kickoff, taken before the run
    held        \* since the run began, no acquisition was reserved

projection == <<predicted, held>>

-----------------------------------------------------------------------------
(* _next_opportunity                                                       *)

Never == -1
Midnight(day) == day * 1440
NYMidnight(day) == Midnight(day) + 240

\* _discovery_cost: a first query, or the second one when it is due
Query(key, day, t, afternoon) ==
    LET d == discovery[key]
        window == IF key = "advance_discovery" THEN afternoon ELSE UTCHour(t) \in 12 .. 17
    IN \/ d.day # day
       \/ /\ d.queries = 1 /\ window /\ t - d.at >= 360
          /\ (key = "advance_discovery" \/ d.status = "DONE")
MutantQueryCost(key, day, t, afternoon) == 0
QueryCost(key, day, t, afternoon) == IF Query(key, day, t, afternoon) THEN 1 ELSE 0

Known(f) == Captured(f, observed[f])
Uses(f) == Max({ObservationCount(f), attempts[f].count})

MutantExhausted(f, kickoff) ==
    kickoff <= now + 15 \/ Uses(f) >= 1 \/ (Attempted(f) /\ attempts[f].kickoff \notin {0, kickoff})
Exhausted(f, kickoff) ==
    \/ kickoff <= now + 15
    \/ Uses(f) >= 2
    \/ Attempted(f) /\ attempts[f].kickoff \notin {0, kickoff}

\* a first look, a second look at a watchlisted capture, or a retry of a fixture
\* whose only observation found no team total
FirstLook(f) == Known(f).n = 0 /\ ~Attempted(f)
WatchedAgain(f) == Known(f).n # 0 /\ Known(f).watch /\ Known(f).count < 2
Retry(f) ==
    /\ Known(f).n = 0 /\ attempts[f].state = "NO_TEAM_TOTAL" /\ attempts[f].count = 1
    /\ ObservationCount(f) = 1 /\ \A o \in observed[f] : o.at >= attempts[f].at
MutantReady(f) == now
Ready(f) == IF Retry(f) THEN Max({now} \cup {o.at + 60 : o \in observed[f]}) ELSE now
Minutes(f) == IF FirstLook(f) THEN 360 ELSE 90

ForSaturday(f) == attempts[f].kickoff # 0 /\ Day(attempts[f].kickoff) = Saturday
UsedAfternoon == Cardinality({f \in Fixtures : attempts[f].phase = "afternoon" /\ ForSaturday(f)})
UsedSaturday == MapThenSumSet(LAMBDA f : attempts[f].phaseAttempts,
                    {f \in Fixtures : attempts[f].phase = "near_kickoff" /\ ForSaturday(f)})

MutantNear(f, kickoff) ==
    [from |-> Max({kickoff - 360, Midnight(Day(kickoff))}), to |-> kickoff - 15, phase |-> "near_kickoff"]
Near(f, kickoff) ==
    [from |-> Max({kickoff - Minutes(f), Midnight(Day(kickoff))}), to |-> kickoff - 15, phase |-> "near_kickoff"]
Slot(hour, phase) ==
    [from |-> NYMidnight(Saturday - 1) + (hour - 2) * 60, to |-> NYMidnight(Saturday - 1) + hour * 60, phase |-> phase]
MutantWindows(f, kickoff) ==
    IF Day(kickoff) # Saturday THEN {Near(f, kickoff)} ELSE {Slot(9, "morning"), Slot(17, "afternoon"), Near(f, kickoff)}
Windows(f, kickoff) ==
    IF Day(kickoff) # Saturday THEN {Near(f, kickoff)}
    ELSE (IF FirstLook(f) THEN {Slot(9, "morning")} ELSE {})
         \cup (IF UsedAfternoon < AfternoonLimit /\ attempts[f].phase # "afternoon"
               THEN {Slot(17, "afternoon")} ELSE {})
         \cup (IF UsedSaturday < SaturdayLimit THEN {Near(f, kickoff)} ELSE {})

MutantCandidates(f, kickoff) ==
    {[at |-> w.from, phase |-> w.phase] : w \in {v \in Windows(f, kickoff) : now < Min({v.to, kickoff - 15})}}
\* the reserve is released at New York's midnight, the second query ends at 18 UTC
Candidates(f, kickoff) ==
    UNION {LET start == Max({w.from, Ready(f)}) IN
           {[at |-> t, phase |-> w.phase] :
               t \in {u \in {start, NYMidnight(Day(kickoff)), Midnight(Day(kickoff)) + 1080} :
                        start <= u /\ u < Min({w.to, kickoff - 15})}} : w \in Windows(f, kickoff)}

HeadroomAt(t) == IF NYFriday(t) THEN SaturdayReserve ELSE 0
MutantAffordable(c, day) ==
    2 <= Min({InvocationLimit, Allowance - reserved})
Affordable(c, day) ==
    LET advance == c.phase # "near_kickoff"
        key == IF advance \/ discovery["advance_discovery"].day = day THEN "advance_discovery" ELSE "discovery"
        own == 2 + QueryCost(key, day, c.at, c.phase = "afternoon")
        ordinary == IF advance THEN QueryCost("discovery", Day(c.at), c.at, FALSE) ELSE 0
    IN /\ key = "discovery" /\ discovery[key].day = day => discovery[key].status = "DONE"
       /\ own + ordinary <= Min({InvocationLimit, Allowance - reserved})
       /\ day = Saturday =>
            /\ WeekendSpent + own <= WeekendLimit - HeadroomAt(c.at)
            /\ Allowance - (reserved + ordinary) - own >= MidweekReserve + HeadroomAt(c.at)

NextOpportunity(f, kickoff) ==
    LET possible == {c.at : c \in {d \in Candidates(f, kickoff) : Affordable(d, Day(kickoff))}} IN
    IF Exhausted(f, kickoff) \/ ~(FirstLook(f) \/ WatchedAgain(f) \/ Retry(f)) \/ possible = {}
    THEN Never ELSE Min(possible)

\* read: every fixture of the two caches, by kickoff
Kickoffs(f) == {discovery[k].kickoffs[f] : k \in {k \in Keys : f \in Listed(discovery[k])}}
read == [f \in Fixtures |-> [kickoff \in Kickoffs(f) |-> NextOpportunity(f, kickoff)]]

-----------------------------------------------------------------------------
(* The projection beside the collector                                     *)

NoProjection == [f \in Fixtures |-> <<>>]
FreshnessInit == Init /\ predicted = NoProjection /\ held = TRUE

Begins == run.pc = "idle" /\ run'.pc # "idle"
Acquires == run.pc = "reserve" /\ run'.pc = "attempt"
FreshnessNext ==
    /\ Next
    /\ predicted' = IF run'.pc = "idle" THEN NoProjection ELSE IF Begins THEN read ELSE predicted
    /\ held' = (run'.pc = "idle" \/ Begins \/ (held /\ ~Acquires))

FreshnessSpec == FreshnessInit /\ [][FreshnessNext]_<<vars, projection>>

-----------------------------------------------------------------------------
(* Properties                                                              *)

\* next_opportunity_at_utc is a time or nothing, not before the projection.
FreshnessTypeOK ==
    \A f \in Fixtures : \A kickoff \in DOMAIN predicted[f] :
        predicted[f][kickoff] # Never => predicted[f][kickoff] \in run.began .. kickoff - 16

Listing(f) == Cached(f) \in DOMAIN predicted[f]

\* "Earliest": no run acquires a fixture the projection knew of before the instant it
\* gave, nor one it called closed, exhausted, over quota or over budget.
NoAcquisitionIsMissed ==
    run.pc = "attempt" /\ Listing(run.fixture) =>
        LET t == predicted[run.fixture][Cached(run.fixture)] IN t # Never /\ t <= now

\* ELIGIBLE_PENDING_PRIORITY is true: a run that begins at that instant, and has not
\* spent its budget on another fixture first, neither skips the fixture nor finds its
\* quota used, its queries or its reservation refused.
Promised(f) == Listing(f) /\ predicted[f][Cached(f)] = run.began /\ now = run.began /\ held
EligibleIsTaken ==
    /\ run.pc = "pick" /\ run.todo # {} /\ Promised(FirstFixture) =>
            Eligible(FirstFixture) /\ ~QuotaReached(FirstFixture)
    /\ run.pc = "reserve" /\ Promised(run.fixture) => MayReserve(Cost) /\ ~SaturdayHeld(Cost)
=============================================================================
