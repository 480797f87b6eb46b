---------------------------- MODULE MCAcquisition ----------------------------
(*****************************************************************************)
(* Small instances of the guarded acquisition and of the research that       *)
(* consumes it: overlapping invocations, the E0 freeze and the one-shot      *)
(* operator, the calendar and history gates, the Premier League results,     *)
(* quotes and corner captures, and the BTTS research.                        *)
(*****************************************************************************)
EXTENDS GuardedAcquisition, TLC

CONSTANTS
    a1, a2, r1, r2

VARIABLES
    part,  \* the component this behaviour runs
    mixedClock, mixedSchedule, mixedInstalled, mixedControl, mixedLock,
    mixedSessions, mixedForecasts, mixedFiles, mixedReceipts, mixedPc,
    mixedRun, mixedCharges, mixedRequests, mixedSpent, now, kick, off, moves,
    calendar, history, resultsNow, ops, private, intents, results, job, said,
    productNow, productForecasts, responses, attempts, observations,
    certificates, picks, productJob, replayNow, code, replayStore, durable,
    holder, call, cache, created, existing, replay, bttsNow, kickoff,
    bttsForecasts, records, retained, bttsRun, bttsPicks, crashes

\* hours: a window of two hours, calendars and authorizations that age within it, one
\* kickoff that may move by an hour into a new obligation
EarlyKickoff == [f \in {"f1"} |-> 6]
BothKickoffs == [f \in {"f1", "f2"} |-> IF f = "f1" THEN 6 ELSE 7]
LateKickoff == [f \in {"f2"} |-> 7]

\* two rounds of two matches over four days; the second round's first match is on the
\* first round's last day
Rounds == [m \in {"m1", "m2", "m3", "m4"} |-> IF m \in {"m1", "m2"} THEN 1 ELSE 2]
Slates == [m \in {"m1", "m2", "m3", "m4"} |->
              IF m = "m1" THEN 1 ELSE IF m = "m2" THEN 4 ELSE IF m = "m3" THEN 6 ELSE 8]

\* two parts a day: a and d are history, b and c the day to forecast; a calendar
\* from time 4 on reports that b was put back
Moved == [t \in 0 .. 5 |-> [f \in {"a", "b", "c", "d"} |->
    CASE f = "a" -> 1 [] f = "d" -> 2 [] f = "b" -> (IF t >= 4 THEN 5 ELSE 4) [] OTHER -> 5]]
\* three parts a day, to tell two retrievals of one price before a match apart
Longer == [t \in 0 .. 7 |-> [f \in {"a", "b", "d"} |->
    CASE f = "a" -> 1 [] f = "d" -> 4 [] OTHER -> 7]]
\* two observations do not fit b
UnfitB == [n \in 0 .. 4 |-> IF n = 2 THEN {"b"} ELSE {}]
Ask(c, h, t, next) == [calendar |-> c, history |-> h, as_of |-> t, next_day |-> next]
\* the next day; the same with evidence from after the observation; a
\* day on which b starts with the observation; and the same day once b was put back
FourRequests == {Ask(3, 3, 3, TRUE), Ask(4, 4, 3, TRUE), Ask(3, 3, 4, FALSE), Ask(4, 4, 4, FALSE)}
Bodies == [fixture: {"b"}, changed: {5}, kick: {6, 7}, pair: {TRUE}]

-----------------------------------------------------------------------------
\* A Championship and a Premier League fixture in one batch, with the E0
\* freeze.
Mixed == INSTANCE GuardedAcquisition WITH
    Experiments <- {a1}, Opens <- 6, Closes <- 4, CalendarAge <- 2,
    Lifetime <- 2, Floor <- 1, FreezeE0 <- TRUE, Delays <- {1},
    Fixtures <- {"f1", "f2"}, Championship <- {"f1"},
    FirstKickoff <- BothKickoffs, Runs <- {"r1"}, Allowance <- 2,
    MonthEnd <- 2, OneShot <- FALSE, MaxClock <- 2, clock <- mixedClock,
    schedule <- mixedSchedule, installed <- mixedInstalled,
    control <- mixedControl, lock <- mixedLock, sessions <- mixedSessions,
    forecasts <- mixedForecasts, files <- mixedFiles,
    receipts <- mixedReceipts, pc <- mixedPc, run <- mixedRun,
    charges <- mixedCharges, requests <- mixedRequests, spent <- mixedSpent

\* The one-shot operator with authorizations replaced and expiring.
Operator == INSTANCE GuardedAcquisition WITH
    Experiments <- {a1}, Opens <- 6, Closes <- 4, CalendarAge <- 2,
    Lifetime <- 2, Floor <- 1, FreezeE0 <- TRUE, Delays <- {1},
    Fixtures <- {"f2"}, Championship <- {}, FirstKickoff <- LateKickoff,
    Runs <- {"r1"}, Allowance <- 3, MonthEnd <- 2, OneShot <- TRUE,
    MaxClock <- 3, clock <- mixedClock, schedule <- mixedSchedule,
    installed <- mixedInstalled, control <- mixedControl, lock <- mixedLock,
    sessions <- mixedSessions, forecasts <- mixedForecasts,
    files <- mixedFiles, receipts <- mixedReceipts, pc <- mixedPc,
    run <- mixedRun, charges <- mixedCharges, requests <- mixedRequests,
    spent <- mixedSpent

\* Every calendar and history of two rounds with one postponement.
Calendar == INSTANCE CalendarHistory WITH
    Matches <- {"m1", "m2", "m3", "m4"}, Round <- Rounds, Slate <- Slates,
    SlotsPerDay <- 3, MaxAge <- 1, Horizon <- 4, MaxHistoryDays <- 2,
    MinHistory <- 1, Notice <- 2, MaxTime <- 8, MaxMoves <- 1, MaxDefects <- 0

\* Two operations and two receipts of one fixture, corrected up to three
\* links.
Results == INSTANCE PLResults WITH
    Ids <- {"i1", "i2"}, Sources <- {"s1", "s2"}, MaxLinks <- 3, MaxTime <- 1,
    now <- resultsNow

\* Two cohorts, two responses and the picks for a line.
Product == INSTANCE PLProduct WITH
    Lines <- {1}, MaxAge <- 2, Kickoff <- 5, Expiry <- 4, MaxTime <- 5,
    MaxForecasts <- 2, MaxResponses <- 2, now <- productNow,
    forecasts <- productForecasts, job <- productJob

\* Two captures of four requests, and the replay of quotes against a frozen
\* forecast.
Replay == INSTANCE CornerReplay WITH
    Fixtures <- {"a", "b", "c", "d"}, MinHistory <- 1, MaxAge <- 2,
    Unfit <- UnfitB, Clients <- {a1, a2}, PerDay <- 2, MaxTime <- 5,
    KickAt <- Moved, Requests <- FourRequests, MaxDeploys <- 1,
    Payloads <- {}, MaxQuoteAge <- 1, now <- replayNow, store <- replayStore

Quotes == INSTANCE CornerReplay WITH
    Fixtures <- {"a", "b", "d"}, MinHistory <- 1, MaxAge <- 2,
    Unfit <- [n \in 0 .. 3 |-> {}], Clients <- {"c1"}, PerDay <- 3,
    MaxTime <- 7, KickAt <- Longer, Requests <- {Ask(3, 3, 3, TRUE)},
    MaxDeploys <- 0, Payloads <- Bodies, MaxQuoteAge <- 2, now <- replayNow,
    store <- replayStore

\* BTTS with two bookmakers, and with two fixtures and room for one record.
Btts == INSTANCE BttsResearch WITH
    Fixtures <- {"f1"}, Books <- {1, 2}, MinPrice <- 1, MaxPrice <- 1,
    MaxAge <- 1, MaxRecords <- 2, MaxTime <- 4, MaxCrashes <- 1,
    now <- bttsNow, forecasts <- bttsForecasts, run <- bttsRun,
    picks <- bttsPicks

FullBtts == INSTANCE BttsResearch WITH
    Fixtures <- {"b1", "b2"}, Books <- {1}, MinPrice <- 1, MaxPrice <- 1,
    MaxAge <- 1, MaxRecords <- 1, MaxTime <- 2, MaxCrashes <- 1,
    now <- bttsNow, forecasts <- bttsForecasts, run <- bttsRun,
    picks <- bttsPicks

ASSUME PartsAreSound ==
    /\ Calendar!CalendarAssumption
    /\ Results!ResultsAssumption
    /\ Product!ProductAssumption
    /\ Replay!ReplayConstants
    /\ Quotes!ReplayConstants
    /\ Btts!ResearchAssumption
    /\ FullBtts!ResearchAssumption

-----------------------------------------------------------------------------
coreVars ==
    <<clock, schedule, installed, control, lock, sessions, forecasts, files,
      receipts, pc, run, charges, requests, spent>>
mixedVars ==
    <<mixedClock, mixedSchedule, mixedInstalled, mixedControl, mixedLock,
      mixedSessions, mixedForecasts, mixedFiles, mixedReceipts, mixedPc,
      mixedRun, mixedCharges, mixedRequests, mixedSpent>>
calendarVars ==
    <<now, kick, off, moves, calendar, history>>
resultsVars ==
    <<resultsNow, ops, private, intents, results, job, said>>
productVars ==
    <<productNow, productForecasts, responses, attempts, observations,
      certificates, picks, productJob>>
replayVars ==
    <<replayNow, code, replayStore, durable, holder, call, cache, created,
      existing, replay>>
bttsVars ==
    <<bttsNow, kickoff, bttsForecasts, records, retained, bttsRun, bttsPicks,
      crashes>>
suiteVars == <<part, coreVars, mixedVars, calendarVars, resultsVars,
               productVars, replayVars, bttsVars>>

(* Each behaviour runs one component; what the others would hold is 0.      *)
NoMixed ==
    /\ mixedClock = 0 /\ mixedSchedule = 0 /\ mixedInstalled = 0
    /\ mixedControl = 0 /\ mixedLock = 0 /\ mixedSessions = 0
    /\ mixedForecasts = 0 /\ mixedFiles = 0 /\ mixedReceipts = 0
    /\ mixedPc = 0 /\ mixedRun = 0 /\ mixedCharges = 0 /\ mixedRequests = 0
    /\ mixedSpent = 0
NoCalendar ==
    /\ now = 0 /\ kick = 0 /\ off = 0 /\ moves = 0 /\ calendar = 0
    /\ history = 0
NoResults ==
    /\ resultsNow = 0 /\ ops = 0 /\ private = 0 /\ intents = 0 /\ results = 0
    /\ job = 0 /\ said = 0
NoProduct ==
    /\ productNow = 0 /\ productForecasts = 0 /\ responses = 0 /\ attempts = 0
    /\ observations = 0 /\ certificates = 0 /\ picks = 0 /\ productJob = 0
NoReplay ==
    /\ replayNow = 0 /\ code = 0 /\ replayStore = 0 /\ durable = 0
    /\ holder = 0 /\ call = 0 /\ cache = 0 /\ created = 0 /\ existing = 0
    /\ replay = 0
NoBtts ==
    /\ bttsNow = 0 /\ kickoff = 0 /\ bttsForecasts = 0 /\ records = 0
    /\ retained = 0 /\ bttsRun = 0 /\ bttsPicks = 0 /\ crashes = 0

SuiteInit ==
    /\ Init
    /\ \/ /\ part = "acquisition"
          /\ NoMixed /\ NoCalendar /\ NoResults /\ NoProduct /\ NoReplay
          /\ NoBtts
       \/ /\ part = "mixed" /\ Mixed!Init
          /\ NoCalendar /\ NoResults /\ NoProduct /\ NoReplay /\ NoBtts
       \/ /\ part = "operator" /\ Operator!Init
          /\ NoCalendar /\ NoResults /\ NoProduct /\ NoReplay /\ NoBtts
       \/ /\ part = "calendar" /\ Calendar!Init
          /\ NoMixed /\ NoResults /\ NoProduct /\ NoReplay /\ NoBtts
       \/ /\ part = "results" /\ Results!Init
          /\ NoMixed /\ NoCalendar /\ NoProduct /\ NoReplay /\ NoBtts
       \/ /\ part = "product" /\ Product!Init
          /\ NoMixed /\ NoCalendar /\ NoResults /\ NoReplay /\ NoBtts
       \/ /\ part = "replay" /\ Replay!Init
          /\ NoMixed /\ NoCalendar /\ NoResults /\ NoProduct /\ NoBtts
       \/ /\ part = "quotes" /\ Quotes!Init
          /\ NoMixed /\ NoCalendar /\ NoResults /\ NoProduct /\ NoBtts
       \/ /\ part = "btts" /\ Btts!Init
          /\ NoMixed /\ NoCalendar /\ NoResults /\ NoProduct /\ NoReplay
       \/ /\ part = "btts full" /\ FullBtts!Init
          /\ NoMixed /\ NoCalendar /\ NoResults /\ NoProduct /\ NoReplay

SuiteNext ==
    \/ /\ part = "acquisition" /\ Next
       /\ UNCHANGED <<part, mixedVars, calendarVars, resultsVars,
                      productVars, replayVars, bttsVars>>
    \/ /\ part = "mixed" /\ Mixed!Next
       /\ UNCHANGED <<part, coreVars, calendarVars, resultsVars, productVars,
                      replayVars, bttsVars>>
    \/ /\ part = "operator" /\ Operator!Next
       /\ UNCHANGED <<part, coreVars, calendarVars, resultsVars, productVars,
                      replayVars, bttsVars>>
    \/ /\ part = "calendar" /\ Calendar!Next
       /\ UNCHANGED <<part, coreVars, mixedVars, resultsVars, productVars,
                      replayVars, bttsVars>>
    \/ /\ part = "results" /\ Results!Next
       /\ UNCHANGED <<part, coreVars, mixedVars, calendarVars, productVars,
                      replayVars, bttsVars>>
    \/ /\ part = "product" /\ Product!Next
       /\ UNCHANGED <<part, coreVars, mixedVars, calendarVars, resultsVars,
                      replayVars, bttsVars>>
    \/ /\ part = "replay" /\ Replay!Next
       /\ UNCHANGED <<part, coreVars, mixedVars, calendarVars, resultsVars,
                      productVars, bttsVars>>
    \/ /\ part = "quotes" /\ Quotes!Next
       /\ UNCHANGED <<part, coreVars, mixedVars, calendarVars, resultsVars,
                      productVars, bttsVars>>
    \/ /\ part = "btts" /\ Btts!Next
       /\ UNCHANGED <<part, coreVars, mixedVars, calendarVars, resultsVars,
                      productVars, replayVars>>
    \/ /\ part = "btts full" /\ FullBtts!Next
       /\ UNCHANGED <<part, coreVars, mixedVars, calendarVars, resultsVars,
                      productVars, replayVars>>

SuiteSpec == SuiteInit /\ [][SuiteNext]_suiteVars

\* only what a part quantifies over is permuted
Symmetry ==
    Permutations({a1, a2})

-----------------------------------------------------------------------------
\* The other profiles of the acquisition: a request leaves with claim, reservation and
\* Championship forecasts on file, and RECORDED has all its evidence behind it, also
\* when the freeze of E0 is held at any of its checks; a request of the one-shot
\* operator leaves only under an installed, unexpired authorization, in the month it
\* was charged to and above the reserve floor.
ProfilesHold ==
    /\ [](part = "mixed" =>
              /\ Mixed!TypeOK /\ Mixed!NeverAskedTwice
              /\ Mixed!RequestsArePrepared /\ Mixed!ReceiptCommits)
    /\ [][part = "operator" => Operator!OperatorStaysAuthorized]_suiteVars

\* The gates refuse nothing that a run already froze, know nothing of the round they
\* admit, and agree with each other; a BTTS forecast precedes its prices, never
\* changes and is never followed by an older pick; what was published can be replayed
\* from the records, also when there is no room for more.
ResearchGatesHold ==
    /\ [](/\ part = "calendar" =>
                /\ Calendar!TypeOK /\ Calendar!NothingFrozenIsRefused /\ Calendar!BlindToTheRound
                /\ Calendar!VerifiedIsComplete /\ Calendar!PLWholeDay /\ Calendar!TwoGatesAgree
                /\ Calendar!NextDayIsBlind
          /\ part = "btts" =>
                /\ Btts!TypeOK /\ Btts!ForecastBeforePrices /\ Btts!StoreReads
                /\ Btts!PublishedReplays /\ Btts!NoOlderPick /\ Btts!BestIsCurrent
          /\ part = "btts full" => FullBtts!StoreReads /\ FullBtts!NoOlderPick)
    /\ [][/\ part = "btts" => Btts!ForecastNeverChanges
          /\ part = "btts full" => FullBtts!ForecastNeverChanges]_suiteVars

\* The Premier League research: results form one chain that an interrupted operation
\* never blocks and whose past answers stand; picks follow their forecast, use the
\* newest cohort, never an older price, and replay; and a corner capture that was
\* created stays, is only ever repeated exactly, and knows nothing of its own day.
PremierLeagueReplays ==
    /\ part = "results" =>
          /\ Results!TypeOK /\ Results!OneChain /\ Results!ReaderSeesTip /\ Results!AlwaysResumable
          /\ Results!OnePending /\ Results!OneProjection /\ Results!PastIsStable
    /\ part = "product" =>
          /\ Product!TypeOK /\ Product!ForecastFirst /\ Product!NoOlderPrice
          /\ Product!NewestCohort /\ Product!LinkedInWindow /\ Product!PicksReplay
    /\ part = "replay" =>
          /\ Replay!TypeOK /\ Replay!CreatedStays /\ Replay!ExistingIsExact
          /\ Replay!WholeDay /\ Replay!FrozenIsBlind
    /\ part = "quotes" => Quotes!ReplayIsOrdered
=============================================================================
