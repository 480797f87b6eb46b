----------------------------- MODULE MCEvidence -----------------------------
(*****************************************************************************)
(* Small instances of the append-only evidence: the chain of results with    *)
(* one runner and two operators, the evidence directory under runs, operator *)
(* captures, releases and crashes, the analysis store, the two manual        *)
(* ledgers, the forecast runner and the settlement of research forecasts.    *)
(*****************************************************************************)
EXTENDS OutcomeChain, TLC

CONSTANTS
    runner, first, k2, k3, a1, a2, b1, b2, d1, d2

VARIABLES
    part,  \* the component this behaviour runs
    now, release, captures, observed, predictions, targets, opportunities,
    stamps, shadows, decisions, run, storeCrashes, conflict, saved, granted,
    lockGrant, leftover, holder, analysisPc, analysisCall, built, builds,
    analysisCrashes, seen, reads, analysisAnswers, refused, forecasts, picks,
    results, cornerCall, view, settledAtStart, history, forecastForecasts,
    forecastResults, forecastCall, forecastView, told, atStart,
    forecastingNow, kickoff, finished, base, supplement, attempts,
    forecastingPredictions, receipts, forecastingHolder, forecastingPc,
    forecastingRun, forecastingCrashes, fetches, settlementNow,
    settlementKickoff, files, settlementForecasts, outcomes, corrections,
    locked, settlementReceipts, settlementPc, settlementRun, settlementCrashes

\* what a bookmaker lists: nothing, one line, or two of which one has a fair price
Quote(lines, fair) == [lines |-> lines, fair |-> fair]
Few == {Quote({}, {}), Quote({"l1"}, {}), Quote({"l1", "l2"}, {"l2"})}

\* against the line 1.0 (two half corners): a loss and a win for the over, and a push
Corners == {[home |-> 0, away |-> 2], [home |-> 1, away |-> 0]}

\* a win and a draw; the second match is a day later; and in quarters, other
\* probabilities for every number of earlier matches
Goals == {[home |-> 1, away |-> 0], [home |-> 1, away |-> 1]}
DatesOf == [x \in {"early", "late"} |-> IF x = "late" THEN 2 ELSE 1]
Quarters == [n \in 0 .. 2 |->
    [o \in {"home", "draw", "away"} |-> CASE n = 0 -> (IF o = "home" THEN 2 ELSE 1)
                                          [] n = 1 -> (IF o = "away" THEN 2 ELSE 1)
                                          [] OTHER -> (IF o = "draw" THEN 4 ELSE 0)]]

-----------------------------------------------------------------------------
\* Two overlapping runs, an operator capture and a change of release.
Store == INSTANCE EvidenceStore WITH
    Lines <- {"l1", "l2"}, TeamLines <- {"l1", "l2"}, Listings <- Few,
    Runs <- {a1, a2}, Kickoff <- 2, Operator <- TRUE, MaxReleases <- 2,
    MaxCrashes <- 0, crashes <- storeCrashes

\* A run that dies between two of its records, and its successor.
CrashedStore == INSTANCE EvidenceStore WITH
    Lines <- {"l1", "l2"}, TeamLines <- {"l1", "l2"}, Listings <- Few,
    Runs <- {a1}, Kickoff <- 2, Operator <- TRUE, MaxReleases <- 1,
    MaxCrashes <- 1, crashes <- storeCrashes

\* The same without captures by an operator.
DatedStore == INSTANCE EvidenceStore WITH
    Lines <- {"l1", "l2"}, TeamLines <- {"l1", "l2"}, Listings <- Few,
    Runs <- {a1, a2}, Kickoff <- 3, Operator <- FALSE, MaxReleases <- 1,
    MaxCrashes <- 1, crashes <- storeCrashes

\* One key in the evidence directory, and two keys without an evidence
\* reader.
Analysis == INSTANCE AnalysisStore WITH
    Clients <- {"c1", "c2"}, Requests <- {"q1", "q2"}, Readers <- {"api"},
    MaxBuilds <- 3, MaxReads <- 2, Keys <- {"k1"}, Evidence <- TRUE,
    MaxCrashes <- 1, pc <- analysisPc, call <- analysisCall,
    crashes <- analysisCrashes, answers <- analysisAnswers

AnalysisPrivate == INSTANCE AnalysisStore WITH
    Clients <- {"c1", "c2"}, Requests <- {"q1", "q2"}, Readers <- {"api"},
    MaxBuilds <- 2, MaxReads <- 2, Keys <- {"k1", "k2"}, Evidence <- FALSE,
    MaxCrashes <- 1, pc <- analysisPc, call <- analysisCall,
    crashes <- analysisCrashes, answers <- analysisAnswers

\* Two operators and a summary at each ledger: on two matches, and two
\* forecasts of one match.
Corner == INSTANCE CornerLedger WITH
    Clients <- {a1, a2}, Readers <- {"r1"}, Forecasts <- {b1, b2},
    Picks <- {d1, d2}, Fixtures <- {"x1"}, Lines <- {2}, Scores <- Corners,
    call <- cornerCall

Forecast == INSTANCE ForecastLedger WITH
    Clients <- {a1, a2}, Readers <- {"r1"}, Ids <- {b1},
    Fixtures <- {"early", "late"}, Dates <- DatesOf, Scores <- Goals,
    Estimate <- Quarters, Whole <- 4, forecasts <- forecastForecasts,
    results <- forecastResults, call <- forecastCall, view <- forecastView

Rival == INSTANCE ForecastLedger WITH
    Clients <- {a1, a2}, Readers <- {"r1"}, Ids <- {b1, b2},
    Fixtures <- {"late"}, Dates <- [x \in {"late"} |-> 2], Scores <- Goals,
    Estimate <- Quarters, Whole <- 4, forecasts <- forecastForecasts,
    results <- forecastResults, call <- forecastCall, view <- forecastView

\* Two overlapping forecast runs of one fixture, one of which may die.
Forecasting == INSTANCE ForecastRunner WITH
    Runs <- {a1, a2}, Past <- {"m1"}, Values <- {d1, d2}, Fixtures <- {"x1"},
    Kickoffs <- {2, 3}, Early <- 1, Late <- 2, Delay <- 2, Horizon <- 2,
    MaxCrashes <- 1, now <- forecastingNow,
    predictions <- forecastingPredictions, holder <- forecastingHolder,
    pc <- forecastingPc, run <- forecastingRun, crashes <- forecastingCrashes

\* The timer over a match that may move; the timer beside a reviewer; two
\* reviewers of one outcome; and the two sweeps.
Settlement == INSTANCE ResearchSettlement WITH
    Matches <- {"m1"}, Scores <- {d1, d2}, Kickoffs <- {1, 2},
    Timer <- {"t1"}, Sweeps <- {}, Reviewers <- {}, Horizon <- 3,
    MaxFiles <- 3, MaxCrashes <- 0, now <- settlementNow,
    kickoff <- settlementKickoff, forecasts <- settlementForecasts,
    receipts <- settlementReceipts, pc <- settlementPc, run <- settlementRun,
    crashes <- settlementCrashes

Correction == INSTANCE ResearchSettlement WITH
    Matches <- {"m1"}, Scores <- {d1, d2}, Kickoffs <- {1}, Timer <- {"t1"},
    Sweeps <- {}, Reviewers <- {"o1"}, Horizon <- 2, MaxFiles <- 3,
    MaxCrashes <- 0, now <- settlementNow, kickoff <- settlementKickoff,
    forecasts <- settlementForecasts, receipts <- settlementReceipts,
    pc <- settlementPc, run <- settlementRun, crashes <- settlementCrashes

Reviews == INSTANCE ResearchSettlement WITH
    Matches <- {"m1"}, Scores <- {d1, d2}, Kickoffs <- {1}, Timer <- {},
    Sweeps <- {}, Reviewers <- {a1, a2}, Horizon <- 2, MaxFiles <- 4,
    MaxCrashes <- 0, now <- settlementNow, kickoff <- settlementKickoff,
    forecasts <- settlementForecasts, receipts <- settlementReceipts,
    pc <- settlementPc, run <- settlementRun, crashes <- settlementCrashes

TwoSweeps == INSTANCE ResearchSettlement WITH
    Matches <- {"m1"}, Scores <- {d1, d2}, Kickoffs <- {1}, Timer <- {"t1"},
    Sweeps <- {"w1"}, Reviewers <- {}, Horizon <- 2, MaxFiles <- 2,
    MaxCrashes <- 1, now <- settlementNow, kickoff <- settlementKickoff,
    forecasts <- settlementForecasts, receipts <- settlementReceipts,
    pc <- settlementPc, run <- settlementRun, crashes <- settlementCrashes

ASSUME PartsAreSound ==
    /\ Store!EvidenceConstants
    /\ CrashedStore!EvidenceConstants
    /\ DatedStore!EvidenceConstants
    /\ Analysis!StoreConstants
    /\ AnalysisPrivate!StoreConstants
    /\ Corner!LedgerConstants
    /\ Forecast!ForecastConstants
    /\ Rival!ForecastConstants
    /\ Forecasting!RunnerConstants
    /\ Settlement!SettlementConstants
    /\ Correction!SettlementConstants
    /\ Reviews!SettlementConstants
    /\ TwoSweeps!SettlementConstants

-----------------------------------------------------------------------------
coreVars ==
    <<row, records, pc, call, evidence, refreshes, crashes, appended, answers>>
storeVars ==
    <<now, release, captures, observed, predictions, targets, opportunities,
      stamps, shadows, decisions, run, storeCrashes, conflict>>
analysisVars ==
    <<saved, granted, lockGrant, leftover, holder, analysisPc, analysisCall,
      built, builds, analysisCrashes, seen, reads, analysisAnswers, refused>>
cornerVars ==
    <<forecasts, picks, results, cornerCall, view, settledAtStart>>
forecastVars ==
    <<history, forecastForecasts, forecastResults, forecastCall, forecastView,
      told, atStart>>
forecastingVars ==
    <<forecastingNow, kickoff, finished, base, supplement, attempts,
      forecastingPredictions, receipts, forecastingHolder, forecastingPc,
      forecastingRun, forecastingCrashes, fetches>>
settlementVars ==
    <<settlementNow, settlementKickoff, files, settlementForecasts, outcomes,
      corrections, locked, settlementReceipts, settlementPc, settlementRun,
      settlementCrashes>>
suiteVars == <<part, coreVars, storeVars, analysisVars, cornerVars,
               forecastVars, forecastingVars, settlementVars>>

(* Each behaviour runs one component; what the others would hold is 0.      *)
NoStore ==
    /\ now = 0 /\ release = 0 /\ captures = 0 /\ observed = 0
    /\ predictions = 0 /\ targets = 0 /\ opportunities = 0 /\ stamps = 0
    /\ shadows = 0 /\ decisions = 0 /\ run = 0 /\ storeCrashes = 0
    /\ conflict = 0
NoAnalysis ==
    /\ saved = 0 /\ granted = 0 /\ lockGrant = 0 /\ leftover = 0 /\ holder = 0
    /\ analysisPc = 0 /\ analysisCall = 0 /\ built = 0 /\ builds = 0
    /\ analysisCrashes = 0 /\ seen = 0 /\ reads = 0 /\ analysisAnswers = 0
    /\ refused = 0
NoCorner ==
    /\ forecasts = 0 /\ picks = 0 /\ results = 0 /\ cornerCall = 0 /\ view = 0
    /\ settledAtStart = 0
NoForecast ==
    /\ history = 0 /\ forecastForecasts = 0 /\ forecastResults = 0
    /\ forecastCall = 0 /\ forecastView = 0 /\ told = 0 /\ atStart = 0
NoForecasting ==
    /\ forecastingNow = 0 /\ kickoff = 0 /\ finished = 0 /\ base = 0
    /\ supplement = 0 /\ attempts = 0 /\ forecastingPredictions = 0
    /\ receipts = 0 /\ forecastingHolder = 0 /\ forecastingPc = 0
    /\ forecastingRun = 0 /\ forecastingCrashes = 0 /\ fetches = 0
NoSettlement ==
    /\ settlementNow = 0 /\ settlementKickoff = 0 /\ files = 0
    /\ settlementForecasts = 0 /\ outcomes = 0 /\ corrections = 0
    /\ locked = 0 /\ settlementReceipts = 0 /\ settlementPc = 0
    /\ settlementRun = 0 /\ settlementCrashes = 0

SuiteInit ==
    /\ Init
    /\ \/ /\ part = "outcomes"
          /\ NoStore /\ NoAnalysis /\ NoCorner /\ NoForecast
          /\ NoForecasting /\ NoSettlement
       \/ /\ part = "evidence" /\ Store!Init
          /\ NoAnalysis /\ NoCorner /\ NoForecast /\ NoForecasting
          /\ NoSettlement
       \/ /\ part = "evidence crash" /\ CrashedStore!Init
          /\ NoAnalysis /\ NoCorner /\ NoForecast /\ NoForecasting
          /\ NoSettlement
       \/ /\ part = "evidence dated" /\ DatedStore!Init
          /\ NoAnalysis /\ NoCorner /\ NoForecast /\ NoForecasting
          /\ NoSettlement
       \/ /\ part = "analysis" /\ Analysis!Init
          /\ NoStore /\ NoCorner /\ NoForecast /\ NoForecasting
          /\ NoSettlement
       \/ /\ part = "analysis private" /\ AnalysisPrivate!Init
          /\ NoStore /\ NoCorner /\ NoForecast /\ NoForecasting
          /\ NoSettlement
       \/ /\ part = "corner ledger" /\ Corner!Init
          /\ NoStore /\ NoAnalysis /\ NoForecast /\ NoForecasting
          /\ NoSettlement
       \/ /\ part = "forecast ledger" /\ Forecast!Init
          /\ NoStore /\ NoAnalysis /\ NoCorner /\ NoForecasting
          /\ NoSettlement
       \/ /\ part = "rival forecasts" /\ Rival!Init
          /\ NoStore /\ NoAnalysis /\ NoCorner /\ NoForecasting
          /\ NoSettlement
       \/ /\ part = "runner" /\ Forecasting!Init
          /\ NoStore /\ NoAnalysis /\ NoCorner /\ NoForecast /\ NoSettlement
       \/ /\ part = "settlement" /\ Settlement!Init
          /\ NoStore /\ NoAnalysis /\ NoCorner /\ NoForecast
          /\ NoForecasting
       \/ /\ part = "correction" /\ Correction!Init
          /\ NoStore /\ NoAnalysis /\ NoCorner /\ NoForecast
          /\ NoForecasting
       \/ /\ part = "reviews" /\ Reviews!Init
          /\ NoStore /\ NoAnalysis /\ NoCorner /\ NoForecast
          /\ NoForecasting
       \/ /\ part = "sweeps" /\ TwoSweeps!Init
          /\ NoStore /\ NoAnalysis /\ NoCorner /\ NoForecast
          /\ NoForecasting

SuiteNext ==
    \/ /\ part = "outcomes" /\ Next
       /\ UNCHANGED <<part, storeVars, analysisVars, cornerVars,
                      forecastVars, forecastingVars, settlementVars>>
    \/ /\ part = "evidence" /\ Store!Next
       /\ UNCHANGED <<part, coreVars, analysisVars, cornerVars, forecastVars,
                      forecastingVars, settlementVars>>
    \/ /\ part = "evidence crash" /\ CrashedStore!Next
       /\ UNCHANGED <<part, coreVars, analysisVars, cornerVars, forecastVars,
                      forecastingVars, settlementVars>>
    \/ /\ part = "evidence dated" /\ DatedStore!Next
       /\ UNCHANGED <<part, coreVars, analysisVars, cornerVars, forecastVars,
                      forecastingVars, settlementVars>>
    \/ /\ part = "analysis" /\ Analysis!Next
       /\ UNCHANGED <<part, coreVars, storeVars, cornerVars, forecastVars,
                      forecastingVars, settlementVars>>
    \/ /\ part = "analysis private" /\ AnalysisPrivate!Next
       /\ UNCHANGED <<part, coreVars, storeVars, cornerVars, forecastVars,
                      forecastingVars, settlementVars>>
    \/ /\ part = "corner ledger" /\ Corner!Next
       /\ UNCHANGED <<part, coreVars, storeVars, analysisVars, forecastVars,
                      forecastingVars, settlementVars>>
    \/ /\ part = "forecast ledger" /\ Forecast!Next
       /\ UNCHANGED <<part, coreVars, storeVars, analysisVars, cornerVars,
                      forecastingVars, settlementVars>>
    \/ /\ part = "rival forecasts" /\ Rival!Next
       /\ UNCHANGED <<part, coreVars, storeVars, analysisVars, cornerVars,
                      forecastingVars, settlementVars>>
    \/ /\ part = "runner" /\ Forecasting!Next
       /\ UNCHANGED <<part, coreVars, storeVars, analysisVars, cornerVars,
                      forecastVars, settlementVars>>
    \/ /\ part = "settlement" /\ Settlement!Next
       /\ UNCHANGED <<part, coreVars, storeVars, analysisVars, cornerVars,
                      forecastVars, forecastingVars>>
    \/ /\ part = "correction" /\ Correction!Next
       /\ UNCHANGED <<part, coreVars, storeVars, analysisVars, cornerVars,
                      forecastVars, forecastingVars>>
    \/ /\ part = "reviews" /\ Reviews!Next
       /\ UNCHANGED <<part, coreVars, storeVars, analysisVars, cornerVars,
                      forecastVars, forecastingVars>>
    \/ /\ part = "sweeps" /\ TwoSweeps!Next
       /\ UNCHANGED <<part, coreVars, storeVars, analysisVars, cornerVars,
                      forecastVars, forecastingVars>>

SuiteSpec == SuiteInit /\ [][SuiteNext]_suiteVars

\* only what a part quantifies over is permuted
Symmetry ==
    Permutations({a1, a2}) \cup Permutations({b1, b2}) \cup
    Permutations({d1, d2})

-----------------------------------------------------------------------------
\* The evidence directory always reads: whatever run died where, every record names
\* records on file, a line has one target per prediction whoever published it, the
\* cohort a shadow froze stays its cohort, and every recorded decision is what would
\* be decided from the same evidence now.  "Materialization time is evidence of when a
\* later line first appeared": without captures by an operator no line was listed
\* before the time its target carries.
EvidenceReads ==
    /\ part = "evidence" =>
          /\ Store!TypeOK /\ Store!ReferencesResolve /\ Store!PublicationsAgree
          /\ Store!CohortsStayFrozen /\ Store!DecisionsReplay
    /\ part = "evidence crash" =>
          /\ CrashedStore!ReferencesResolve /\ CrashedStore!PublicationsAgree
          /\ CrashedStore!CohortsStayFrozen /\ CrashedStore!DecisionsReplay
    /\ part = "evidence dated" => DatedStore!DatedAtFirstAppearance

\* A duplicate request is answered with the one saved analysis and never refused; what
\* a reader of the API can list it can open, in one state of the directory; and only
\* a dead writer leaves a temporary file behind.
AnalysesAreReplayed ==
    /\ [](part = "analysis" =>
              Analysis!TypeOK /\ Analysis!VisibleIsReadable /\ Analysis!DuplicatesAreReplayed)
    /\ [](part = "analysis private" =>
              AnalysisPrivate!DuplicatesAreReplayed /\ AnalysisPrivate!TemporariesAreCleaned)
    /\ [][part = "analysis" => Analysis!ReadersSeeOneState]_suiteVars

\* Two operators and a summary at once, at each ledger: it always loads; the result of
\* a fixture closes its book of picks; a forecast uses strictly earlier matches, which
\* its hashed files hold; of two results recorded at once one is refused; records are
\* final; and a summary counts what was settled when it began and nothing that is not.
LedgersHold ==
    /\ [](/\ part = "corner ledger" =>
                Corner!TypeOK /\ Corner!LedgerLoads /\ Corner!SummaryIsBracketed
          /\ part = "forecast ledger" =>
                /\ Forecast!TypeOK /\ Forecast!NoLookahead /\ Forecast!SummaryNeverFails
                /\ Forecast!OneResult /\ Forecast!SummaryAgrees
          /\ part = "rival forecasts" =>
                /\ Rival!TypeOK /\ Rival!NoLookahead /\ Rival!SummaryNeverFails
                /\ Rival!OneResult /\ Rival!SummaryAgrees)
    /\ [][/\ part = "corner ledger" => Corner!SettlementsAreFinal
          /\ part = "forecast ledger" => Forecast!RecordsAreFinal
          /\ part = "rival forecasts" => Rival!RecordsAreFinal]_suiteVars

\* Overlapping forecast runs, one of which dies: a fixture has one forecast, which its
\* recorded inputs reproduce, and requests to the provider keep their distance.  A
\* forecast is settled with a result of its own match and kickoff, the one frozen first
\* where two sweeps froze two; what receipts tell is on file; and the corrections of two
\* reviewers form one chain that a reader accepts.
ForecastsAreSettledOnce ==
    /\ part = "runner" =>
          /\ Forecasting!TypeOK /\ Forecasting!OneForecast /\ Forecasting!RequestsAreSpaced
          /\ Forecasting!ForecastsAreReproducible /\ Forecasting!ReceiptsAreTrue
    /\ part = "settlement" =>
          Settlement!TypeOK /\ Settlement!ResultsBelong /\ Settlement!ReceiptsAreTrue
    /\ part = "correction" =>
          /\ Correction!ResultsBelong /\ Correction!ReceiptsAreTrue
          /\ Correction!ChainsStayReadable
    /\ part = "reviews" => Reviews!ChainsStayReadable
    /\ part = "sweeps" => TwoSweeps!FirstForecastSettles
=============================================================================
