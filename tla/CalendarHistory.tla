--------------------------- MODULE CalendarHistory ---------------------------
(***************************************************************************)
(* Which results a Both Teams To Score forecast may know: the league       *)
(* calendar of history_completeness.py (E1) and pl_calendar.py (E0), the   *)
(* installed results they are reconciled with, the freezes of              *)
(* btts_model.py and pl_btts.py, the audit of pl_history_readiness.py and  *)
(* the totals of goal_totals.py that inherit a freeze.                     *)
(*                                                                         *)
(* Time is counted in slots, SlotsPerDay to a UTC day; the last slot of a  *)
(* UTC day already belongs to the next day in London, which is where the   *)
(* two notions of date used by the code differ.  A calendar is a download: *)
(* it says what was true when it was retrieved, except that some of its    *)
(* rows may lag or be missing.  The installed results lag too, may carry a *)
(* wrong score, and may lack corners.                                      *)
(***************************************************************************)
EXTENDS Integers, FiniteSets, FiniteSetsExt

CONSTANTS
    Matches,        \* the season's fixtures
    Round,          \* the matchday of each
    Slate,          \* when each is first scheduled
    SlotsPerDay,
    MaxAge,         \* MAX_CALENDAR_AGE: six hours
    Horizon,        \* twenty-seven hours
    MaxHistoryDays, \* MAX_HISTORY_AGE: fourteen days
    MinHistory,     \* MIN_HISTORY
    Notice,         \* a match is never re-timed to less than this from now
    MaxTime,        \* bound: the model's clock
    MaxMoves,       \* bound: fixture changes
    MaxDefects,     \* bound: rows of one download that lag, lack or lie
    None

CalendarAssumption ==
    /\ SlotsPerDay \in Nat \ {0} /\ MaxAge \in Nat /\ Horizon \in Nat
    /\ Notice > MaxAge
    /\ Slate \in [Matches -> 1 .. MaxTime]

VARIABLES
    now,
    kick,       \* the true kick-off of each match
    off,        \* "on", "postponed" or "cancelled"
    moves,
    calendar,   \* the last calendar downloaded, or None
    history     \* the last results installed, or None

vars == <<now, kick, off, moves, calendar, history>>

-----------------------------------------------------------------------------
(* The two dates.                                                          *)

UtcDay(t) == t \div SlotsPerDay
e1_result_date(t) == (t + 1) \div SlotsPerDay

(* What is true of a match at time t.                                      *)
StatusAt(m, t) ==
    IF off[m] = "postponed" THEN "POSTPONED"
    ELSE IF off[m] = "cancelled" THEN "CANCELLED"
    ELSE IF t < kick[m] THEN "TIMED" ELSE IF t = kick[m] THEN "IN_PLAY" ELSE "FINISHED"

Played == {m \in Matches : StatusAt(m, now) = "FINISHED"}

_TERMINAL == {"FINISHED", "POSTPONED", "CANCELLED"}
_ACTIVE == {"IN_PLAY"}
Statuses == _TERMINAL \cup _ACTIVE \cup {"TIMED"}

(* A row that lags shows the status before this one.                       *)
MutantLagging(s) == IF s = "FINISHED" THEN "IN_PLAY" ELSE "SCHEDULED"
Lagging(s) == IF s = "FINISHED" THEN "IN_PLAY" ELSE "TIMED"

-----------------------------------------------------------------------------
(* The calendar.                                                           *)

(* Every pair of the season once and every round a partition of the teams: *)
(* a truncated feed is refused, however consistent its own counts are.     *)
parse_calendar(c) ==
    /\ c /= None
    /\ c.rows = Matches
    /\ \A m \in c.rows : /\ c.status[m] \in _ACTIVE => c.kick[m] <= c.at
                         /\ c.status[m] = "FINISHED" => c.kick[m] < c.at

Day(c, m) == e1_result_date(c.kick[m])
MutantFreshCalendar(c, t) == t >= c.at
FreshCalendar(c, t) == t - c.at \in 0 .. MaxAge
CompletedBefore(c, day) == {m \in c.rows : c.status[m] = "FINISHED" /\ Day(c, m) < day}

(* The first active kick-off of a fixture's round.                         *)
FixtureInCalendar(c, m) == c.kick[m] = kick[m] /\ c.status[m] = "TIMED"
MutantRoundStart(c, m) ==
    Min({c.kick[o] : o \in {o \in c.rows : Round[o] = Round[m] /\ c.status[o] = "TIMED"}} \cup {c.kick[m]})
RoundStart(c, m) ==
    Min({c.kick[o] : o \in {o \in c.rows : Round[o] = Round[m]
                                           /\ c.status[o] \notin {"POSTPONED", "CANCELLED"}}})
matchweek_cutoff(c, m) == e1_result_date(RoundStart(c, m))

-----------------------------------------------------------------------------
(* The installed results.                                                  *)

RowDay(m) == e1_result_date(kick[m])

(* The BTTS model keeps only rows that have goals and corners.             *)
GoalRows(h) == IF h = None THEN {} ELSE h.rows
CornerRows(h) == IF h = None THEN {} ELSE h.rows \ h.bare
history_from_bytes(h) == CornerRows(h)

(* Each completed match has its row on the same London day, and no other.  *)
SameResults(c, day, rows) ==
    {<<m, Day(c, m)>> : m \in CompletedBefore(c, day)}
        = {<<m, RowDay(m)>> : m \in {m \in rows : RowDay(m) < day}}

SameScores(c, day, h) == CompletedBefore(c, day) \cap h.wrong = {}

-----------------------------------------------------------------------------
(* E1: history_completeness.py and btts_model.py.                          *)

NearCutoff(c, cutoff) ==
    cutoff > e1_result_date(now) =>
        \E m \in c.rows : /\ Day(c, m) = cutoff
                          /\ c.kick[m] <= now + Horizon
                          /\ c.status[m] \notin {"POSTPONED", "CANCELLED"}

MutantTerminal == _TERMINAL \cup _ACTIVE
MutantResolved(c, cutoff) ==
    \A m \in c.rows : Day(c, m) < cutoff => c.status[m] \in MutantTerminal
Resolved(c, cutoff) == \A m \in c.rows : Day(c, m) < cutoff => c.status[m] \in _TERMINAL

verify_goal_history(c, h, cutoff) ==
    /\ FreshCalendar(c, now)
    /\ NearCutoff(c, cutoff)
    /\ cutoff <= Max({Day(c, m) : m \in c.rows})
    /\ Resolved(c, cutoff)
    /\ CompletedBefore(c, cutoff) /= {}
    /\ SameResults(c, cutoff, history_from_bytes(h))
    /\ SameScores(c, cutoff, h)

(* The results a freeze reads.                                             *)
Prior(h, cutoff) ==
    {m \in history_from_bytes(h) : RowDay(m) < cutoff /\ RowDay(m) <= e1_result_date(now)}

Enough(rows) == Cardinality(rows) >= MinHistory
Latest(rows) == Max({RowDay(m) : m \in rows})

(* freeze_btts_forecast up to the contract it builds.  Without a calendar  *)
(* the cutoff is the UTC date of the freeze.                               *)
FreezeGates(m, cutoff, proof) ==
    /\ cutoff <= e1_result_date(kick[m])
    /\ IF proof THEN /\ FixtureInCalendar(calendar, m)
                     /\ cutoff = matchweek_cutoff(calendar, m)
                     /\ verify_goal_history(calendar, history, cutoff)
       ELSE cutoff <= UtcDay(now)
    /\ Enough(Prior(history, cutoff))

Frozen(m, cutoff, proof) ==
    [fixture |-> m, frozen |-> now, kickoff |-> kick[m], cutoff |-> cutoff,
     prior |-> Prior(history, cutoff), latest |-> Latest(Prior(history, cutoff)),
     observed |-> IF proof THEN calendar.at ELSE None,
     first |-> IF proof THEN RoundStart(calendar, m) ELSE None]

(* The contract's own check, made when it is built and whenever it is read.*)
validate_forecast(f) ==
    /\ f.frozen < f.kickoff
    /\ f.cutoff <= e1_result_date(f.kickoff)
    /\ f.latest < f.cutoff
    /\ f.latest <= e1_result_date(f.frozen)
    /\ IF f.observed = None THEN f.cutoff <= UtcDay(f.frozen)
       ELSE /\ f.frozen - f.observed \in 0 .. MaxAge
            /\ f.first <= f.kickoff
            /\ f.first <= f.frozen + Horizon
            /\ e1_result_date(f.first) = f.cutoff
            /\ f.latest <= e1_result_date(f.observed)

freeze_btts_forecast(m, cutoff, proof) ==
    /\ FreezeGates(m, cutoff, proof)
    /\ validate_forecast(Frozen(m, cutoff, proof))

(* The totals take a freeze over without refitting it.                     *)
from_btts(f) == f.frozen < f.kickoff /\ f.cutoff <= e1_result_date(f.kickoff)

Verified(m) == parse_calendar(calendar) /\ freeze_btts_forecast(m, matchweek_cutoff(calendar, m), TRUE)
Unverified(m) == freeze_btts_forecast(m, UtcDay(now), FALSE)

-----------------------------------------------------------------------------
(* E0: the readiness report, the whole-day freeze and the corner audit.    *)

MutantHistoryDay(day, nextDay) == day
HistoryDay(day, nextDay) == IF nextDay THEN e1_result_date(now) ELSE day

Unresolved(c, day, nextDay) ==
    {m \in c.rows : /\ c.status[m] \notin _TERMINAL
                    /\ \/ Day(c, m) < HistoryDay(day, nextDay)
                       \/ ~nextDay /\ (c.status[m] \in _ACTIVE \/ c.kick[m] < now)}

readiness(c, day, nextDay) ==
    /\ nextDay => day = e1_result_date(now) + 1
    /\ parse_calendar(c)
    /\ FreshCalendar(c, now)
    /\ Unresolved(c, day, nextDay) = {}

OnDay(c, day) == {m \in c.rows : Day(c, m) = day}
PreMatch(c, m) == c.status[m] = "TIMED" /\ c.kick[m] > now

(* The receipt of the current season's file and the age of its results.    *)
SuppliedAndFresh(h, rows, day) ==
    /\ h.known
    /\ UtcDay(now) - UtcDay(h.at) <= MaxHistoryDays
    /\ Enough(rows)
    /\ day - Latest(rows) <= MaxHistoryDays

Reconciled(c, h, rows, day) ==
    /\ SameResults(c, day, rows)
    /\ SameScores(c, day, h)
    /\ \A m \in CompletedBefore(c, day) : c.kick[m] < h.at

PLRows(h, day) == {m \in GoalRows(h) : RowDay(m) < day}

(* Every fixture of the London day, or none.                               *)
MutantWholeDay(c, day) == {m \in OnDay(c, day) : PreMatch(c, m)}
WholeDay(c, day) == IF \A m \in OnDay(c, day) : PreMatch(c, m) THEN OnDay(c, day) ELSE {}

MutantDayReady(c, h, day) ==
    /\ readiness(c, day, FALSE)
    /\ h /= None
    /\ SuppliedAndFresh(h, PLRows(h, day), day)
    /\ day - Latest(PLRows(h, day)) < MaxHistoryDays
    /\ Reconciled(c, h, PLRows(h, day), day)
DayReady(c, h, day) ==
    /\ readiness(c, day, FALSE)
    /\ h /= None
    /\ SuppliedAndFresh(h, PLRows(h, day), day)
    /\ Reconciled(c, h, PLRows(h, day), day)

prepare(c, h) ==
    LET day == e1_result_date(now)
    IN  IF DayReady(c, h, day)
        THEN [forecasts |-> WholeDay(c, day), prior |-> PLRows(h, day)]
        ELSE [forecasts |-> {}, prior |-> {}]

(* pl_history_readiness.assess: the same evidence for the corner model.    *)
assess(c, h, day, nextDay) ==
    LET before == HistoryDay(day, nextDay)
        rows == PLRows(h, before)
        complete == rows \cap CornerRows(h)
    IN  /\ ~nextDay => day = e1_result_date(now)
        /\ readiness(c, day, nextDay)
        /\ h /= None
        /\ SuppliedAndFresh(h, rows, before)
        /\ Reconciled(c, h, rows, before)
        /\ CompletedBefore(c, before) \subseteq complete
        /\ Enough(complete)
        /\ OnDay(c, day) /= {}
        /\ \A m \in OnDay(c, day) : PreMatch(c, m)

(* The history each model reads before its cutoff.                         *)
AuditRows(h, day, nextDay) == PLRows(h, HistoryDay(day, nextDay))

-----------------------------------------------------------------------------
Init ==
    /\ now = 0
    /\ kick = Slate
    /\ off = [m \in Matches |-> "on"]
    /\ moves = 0
    /\ calendar = None
    /\ history = None

Tick == now < MaxTime /\ now' = now + 1 /\ UNCHANGED <<kick, off, moves, calendar, history>>

(* The league changes a fixture that has not kicked off.                   *)
CallOff(m, how) ==
    /\ moves < MaxMoves /\ moves' = moves + 1
    /\ off[m] = "on" /\ now < kick[m]
    /\ off' = [off EXCEPT ![m] = how]
    /\ UNCHANGED <<now, kick, calendar, history>>

Reschedule(m, t) ==
    /\ off[m] = "postponed"
    /\ t >= now + Notice
    /\ kick' = [kick EXCEPT ![m] = t]
    /\ off' = [off EXCEPT ![m] = "on"]
    /\ UNCHANGED <<now, moves, calendar, history>>

(* A calendar is downloaded; some rows lag or are missing.                 *)
Download(lag, lost) ==
    /\ calendar' = [at |-> now, rows |-> Matches \ lost, kick |-> kick,
                    status |-> [m \in Matches |-> IF m \in lag THEN Lagging(StatusAt(m, now))
                                                  ELSE StatusAt(m, now)]]
    /\ UNCHANGED <<now, kick, off, moves, history>>

(* The results are refreshed; some are late, wrong or without corners, or  *)
(* the file has no receipt.                                                *)
Refresh(late, wrong, bare, known) ==
    /\ history' = [at |-> now, rows |-> Played \ late, wrong |-> wrong, bare |-> bare, known |-> known]
    /\ UNCHANGED <<now, kick, off, moves, calendar>>

Defects(S) == {D \in SUBSET S : Cardinality(D) <= MaxDefects}

Next ==
    \/ Tick
    \/ \E m \in Matches, how \in {"postponed", "cancelled"} : CallOff(m, how)
    \/ \E m \in Matches, t \in 1 .. MaxTime : Reschedule(m, t)
    \/ \E lag \in Defects({m \in Matches : StatusAt(m, now) /= "TIMED"}) : Download(lag, {})
    \/ \E lost \in Defects(Matches) : Download({}, lost)
    \/ \E late \in Defects(Played) : Refresh(late, {}, {}, TRUE)
    \/ \E wrong \in Defects(Played) : Refresh({}, wrong, {}, TRUE)
    \/ \E bare \in Defects(Played) : Refresh({}, {}, bare, TRUE)
    \/ Refresh({}, {}, {}, FALSE)

Spec == Init /\ [][Next]_vars

-----------------------------------------------------------------------------
(* Properties.                                                             *)

(* Every variable keeps its shape.                                         *)
TypeOK ==
    /\ now \in 0 .. MaxTime
    /\ kick \in [Matches -> 1 .. MaxTime]
    /\ off \in [Matches -> {"on", "postponed", "cancelled"}]
    /\ moves \in 0 .. MaxMoves
    /\ calendar = None \/ calendar \in [at : 0 .. MaxTime, rows : SUBSET Matches,
                                        kick : [Matches -> 1 .. MaxTime], status : [Matches -> Statuses]]
    /\ history = None \/ history \in [at : 0 .. MaxTime, rows : SUBSET Matches, wrong : SUBSET Matches,
                                      bare : SUBSET Matches, known : BOOLEAN]

(* The gates a freeze passes are never weaker than the contract that is    *)
(* checked when the forecast is built and read back, although the two use  *)
(* UTC and London dates and two horizons: the contract refuses only a      *)
(* fixture that a lagging calendar still shows to come, and a round whose  *)
(* first match is further away than another round's on the same day.  The  *)
(* totals accept every freeze that stands.                                 *)
NothingFrozenIsRefused ==
    \A m \in Matches, proof \in BOOLEAN :
        (proof => parse_calendar(calendar)) =>
            LET cutoff == IF proof THEN matchweek_cutoff(calendar, m) ELSE UtcDay(now)
                f == Frozen(m, cutoff, proof)
            IN  FreezeGates(m, cutoff, proof) =>
                    /\ \/ validate_forecast(f)
                       \/ now >= kick[m]
                       \/ proof /\ f.first > now + Horizon
                    /\ validate_forecast(f) => from_btts(f)

(* A verified freeze reads no result of the fixture's own round, however   *)
(* its matches were moved around: not the round's early matches, and not   *)
(* one put off and played later.                                           *)
BlindToTheRound ==
    \A m \in Matches : Verified(m) =>
        \A o \in Prior(history, matchweek_cutoff(calendar, m)) : Round[o] /= Round[m]

(* A verified freeze reads every match that has been played before its     *)
(* cutoff, all with their true scores: a late row, a wrong score, a row    *)
(* without corners, a truncated or lagging calendar or a match re-timed    *)
(* since each stops it.                                                    *)
VerifiedIsComplete ==
    \A m \in Matches : Verified(m) =>
        LET cutoff == matchweek_cutoff(calendar, m)
        IN  /\ Prior(history, cutoff) = {o \in Played : RowDay(o) < cutoff}
            /\ Prior(history, cutoff) \cap history.wrong = {}

(* The Premier League freeze covers the whole London day or none of it,    *)
(* and reads exactly the results of the days before, with true scores.     *)
PLWholeDay ==
    LET p == prepare(calendar, history) IN
    p.forecasts /= {} =>
        /\ p.forecasts = OnDay(calendar, e1_result_date(now))
        /\ \A m \in p.forecasts : ~(off[m] = "on" /\ kick[m] <= now)
        /\ p.prior = {o \in Played : RowDay(o) < e1_result_date(now)}
        /\ p.prior \cap history.wrong = {}

(* What the corner audit calls eligible the goals freeze accepts too: the  *)
(* two readers of the same evidence agree on the day and on its history.   *)
TwoGatesAgree ==
    assess(calendar, history, e1_result_date(now), FALSE) =>
        /\ prepare(calendar, history).forecasts = OnDay(calendar, e1_result_date(now))
        /\ prepare(calendar, history).prior = AuditRows(history, e1_result_date(now), FALSE)

(* A next-day audit knows every result before the observation's London day *)
(* and nothing of that day, whatever has been played of it by then.        *)
NextDayIsBlind ==
    assess(calendar, history, e1_result_date(now) + 1, TRUE) =>
        AuditRows(history, e1_result_date(now) + 1, TRUE)
            = {o \in Played : RowDay(o) < e1_result_date(now)}
=============================================================================
