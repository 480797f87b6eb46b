------------------------------ MODULE MCServing ------------------------------
(*****************************************************************************)
(* Small instances of what a reader is shown and of what it is computed      *)
(* from: the receipts of the runs, the normalised market and the board, the  *)
(* published picks, the prospective views, the research snapshots, the walk- *)
(* forward validation and the refresh of the data.                           *)
(*****************************************************************************)
EXTENDS RunReceipts, TLC

VARIABLES
    part,  \* the component this behaviour runs
    client, normalisedNow, phase, metadata, payload, promised, sent,
    retrieved, quotes, published, opportunities, marketHistoryNow, captures,
    observed, predicted, picksNow, picksCaptures, picksObserved,
    picksPredicted, runner, manual, inHand, effective, batch, prepared,
    publications, results, calendars, voids, served, viewsNow, targets,
    viewsOpportunities, prices, outcomes, history, day, totals, lists, rows,
    snapshotsObserved, stamped, snapshotsPredicted, snapshotsTargets,
    snapshotsOpportunities, shadows, decisions, snapshotsOutcomes,
    snapshotsRun, reader, snapshots, crashes, refreshNow, calendar, copy,
    file, evidence, attempts, status, waiting, job, refreshReader, gets,
    missed, refreshRuns

\* implied probabilities in hundredths; an inconsistent price and one beyond the limit
QuotedPrices == {"long", "short", "steep", "odd"}
ImpliedBy == [p \in QuotedPrices |-> CASE p = "long" -> 45 [] p = "short" -> 60
                                       [] p = "steep" -> 75 [] OTHER -> 50]
ConsistentPrices == QuotedPrices \ {"odd"}
PlayablePrices == QuotedPrices \ {"steep"}

\* every shape of a first bookmaker's two markets, next to a plain second bookmaker
Priced(usable, over, under, other) ==
    [usable |-> usable,
     prices |-> [o \in {"Over", "Under", "Other"} |->
                   CASE o = "Over" -> over [] o = "Under" -> under [] OTHER -> other]]
Open(m) == [status |-> "open", markets |-> m]
Empty(s) == [status |-> s, markets |-> <<>>]
Both(m, n) == [x \in {"m1", "m2"} |-> IF x = "m1" THEN m ELSE n]
Seen == {"absent", "inactive", "unusable"} \cup QuotedPrices
FirstMarkets == {Priced(u, o, d, x) : u \in BOOLEAN, o \in Seen, d \in Seen, x \in {"absent", "long"}}
Plain == Priced(TRUE, "long", "short", "absent")
SecondMarkets == {Plain, Priced(FALSE, "long", "short", "absent")}
FirstBook == {Empty("absent"), Empty("closed"), Open(<<>>)}
               \cup {Open([x \in {"m1"} |-> a]) : a \in FirstMarkets}
               \cup {Open(Both(a, b)) : a \in FirstMarkets, b \in SecondMarkets}
Payload(x, y) == [b \in {"draftkings", "fanduel"} |-> IF b = "draftkings" THEN x ELSE y]
FullPayloads == {Payload(x, y) : x \in FirstBook, y \in {Empty("absent"), Open(Both(Plain, Plain))}}
FewPayloads == {Payload(Open(Both(Plain, x)), Open(Both(Plain, x))) : x \in SecondMarkets}
FullDictionaries ==
    {[m \in {"m1", "m2"} |-> IF m = "m1" THEN a ELSE b] :
       a \in {"HOME", "MATCH", "missing"}, b \in {"HOME", "AWAY", "other", "malformed"}}

\* what a capture tells of a bookmaker's price
OneBook == [{<<1, 1>>} -> {"none", "issue", "review", "high"}]
TwoBooks == [{<<1, 1>>, <<1, 2>>} -> {"none", "low", "high"}]
              \cup {[b \in {<<1, 1>>, <<1, 2>>} |-> IF b = <<1, 1>> THEN "lone" ELSE "high"]}
TwoTargets == {[b \in {<<1, 1>>, <<2, 1>>} |-> IF b = <<1, 1>> THEN x[1] ELSE x[2]] :
                 x \in {<<"high", "low">>, <<"none", "high">>}}

\* lines of two predictions: a sure one and an unlikely one, or one that is unsupported
Target(line, direction, probability, supported) ==
    [line |-> line, direction |-> direction, probability |-> probability, supported |-> supported]
Sure == Target(2, "OVER", 10, TRUE)
LineChoices == {{Sure, Target(2, "UNDER", 4, TRUE)}, {Target(3, "OVER", 6, TRUE), Target(1, "OVER", 8, FALSE)}}
Kickoffs == [p \in {"q1", "q2"} |-> IF p = "q1" THEN 1 ELSE 2]

\* days without a match, with one, with an incomplete one and with two
Match(home, away, hc, ac, complete) ==
    [home |-> home, away |-> away, hc |-> hc, ac |-> ac, complete |-> complete]
SomeDays == {{}, {Match("a", "b", 1, 0, TRUE)}, {Match("a", "c", 2, 1, TRUE)},
             {Match("a", "b", 0, 2, FALSE)}, {Match("a", "b", 2, 1, TRUE), Match("c", "d", 3, 0, TRUE)}}

-----------------------------------------------------------------------------
\* Every payload of two bookmakers and two markets; and the requests for two
\* fixtures.
Normalised == INSTANCE MarketNormalisation WITH
    Markets <- {"m1", "m2"}, Books <- {"draftkings", "fanduel"},
    Prices <- QuotedPrices, Implied <- ImpliedBy, Playable <- PlayablePrices,
    Consistent <- ConsistentPrices, Dictionaries <- FullDictionaries,
    MaxAge <- 1, Payloads <- FullPayloads, Fixtures <- {"f1"},
    Probabilities <- {30, 50, 60}, Kickoff <- 1, MaxTime <- 0,
    now <- normalisedNow

MarketRun == INSTANCE MarketNormalisation WITH
    Markets <- {"m1", "m2"}, Books <- {"draftkings", "fanduel"},
    Prices <- QuotedPrices, Implied <- ImpliedBy, Playable <- PlayablePrices,
    Consistent <- ConsistentPrices, Dictionaries <- FullDictionaries,
    MaxAge <- 1, Payloads <- FewPayloads, Fixtures <- {"f1", "f2"},
    Probabilities <- {50}, Kickoff <- 4, MaxTime <- 4, now <- normalisedNow

\* Captures that arrive late and out of order; the board and the shortlist of
\* two bookmakers.
MarketHistory == INSTANCE MarketIntelligence WITH
    Targets <- {1}, Books <- {1}, Answers <- OneBook, Needs <- {2},
    Kickoff <- 4, MaxAge <- 1, Captures <- {1, 2}, MaxTime <- 4,
    now <- marketHistoryNow

Board == INSTANCE MarketIntelligence WITH
    Targets <- {1}, Books <- {1, 2}, Answers <- TwoBooks, Needs <- {1, 2},
    Kickoff <- 3, MaxAge <- 1, Captures <- {1, 2}, MaxTime <- 4,
    now <- marketHistoryNow

\* Picks of two captures, and of one with a void.
Picks == INSTANCE PublishedRecommendations WITH
    Targets <- {1, 2}, Books <- {1}, Answers <- TwoTargets, Needs <- {1},
    Kickoff <- 3, MaxAge <- 1, MaxTime <- 4,
    Strategies <- {"best_value", "higher_probability"}, Likely <- {2},
    Actuals <- {1, 2}, MaxManual <- 0, MaxResults <- 1, Captures <- {1, 2},
    MaxVoids <- 0, now <- picksNow, captures <- picksCaptures,
    observed <- picksObserved, predicted <- picksPredicted

Voids == INSTANCE PublishedRecommendations WITH
    Targets <- {1, 2}, Books <- {1}, Answers <- TwoTargets, Needs <- {1},
    Kickoff <- 3, MaxAge <- 1, MaxTime <- 4,
    Strategies <- {"best_value", "higher_probability"}, Likely <- {2},
    Actuals <- {1, 2}, MaxManual <- 0, MaxResults <- 1, Captures <- {1},
    MaxVoids <- 1, now <- picksNow, captures <- picksCaptures,
    observed <- picksObserved, predicted <- picksPredicted

\* Two predictions whose results are corrected; and one with more markets
\* than are shown.
Views == INSTANCE ProspectiveViews WITH
    Predictions <- {"q1", "q2"}, TargetChoices <- LineChoices,
    Research <- {"q2"}, Kickoff <- Kickoffs, Actuals <- {2, 3},
    Markets <- {5}, Shown <- 4, MaxQuotes <- 1, MaxResults <- 2, MaxTime <- 2,
    now <- viewsNow, opportunities <- viewsOpportunities

Detail == INSTANCE ProspectiveViews WITH
    Predictions <- {"q1"}, TargetChoices <- {{Sure}}, Research <- {},
    Kickoff <- [p \in {"q1"} |-> 1], Actuals <- {2}, Markets <- {4, 5},
    Shown <- 4, MaxQuotes <- 6, MaxResults <- 1, MaxTime <- 2,
    now <- viewsNow, opportunities <- viewsOpportunities

\* Three days of matches, the last of them held out.
Walk == INSTANCE WalkForward WITH
    Days <- 3, DayChoices <- SomeDays, Teams <- {"a", "b", "c", "d"},
    Holdout <- 3, Start <- 2, End <- 3, MinHistory <- 2, MinVenue <- 1,
    Windows <- {1, 2}

\* A snapshot while records are written and a writer dies.
Snapshots == INSTANCE ResearchSnapshots WITH
    Predictions <- {"p1"}, Lines <- {"h", "a"},
    SideOf <- [l \in {"h", "a"} |-> IF l = "h" THEN "home" ELSE "away"],
    Listings <- {{"h"}, {"h", "a"}}, Champion <- {"h", "a"}, Shadow <- {"h"},
    Actuals <- {{}, {"h"}}, MaxObservations <- 2, MaxResults <- 1,
    MaxSnapshots <- 1, MaxCrashes <- 1, observed <- snapshotsObserved,
    predicted <- snapshotsPredicted, targets <- snapshotsTargets,
    opportunities <- snapshotsOpportunities, outcomes <- snapshotsOutcomes,
    run <- snapshotsRun

\* The morning job and the baseline of two leagues; and one league with a
\* second fixture, of which a file may have only the score, in one day and by
\* hand.
Refresh == INSTANCE DataRefresh WITH
    Leagues <- <<"E1", "E0">>, Morning <- "E1", Fixtures <- {"m1"},
    DayLength <- 2, MaxTime <- 2, MaxRuns <- 2, Capped <- TRUE,
    now <- refreshNow, reader <- refreshReader, runs <- refreshRuns

ScoreOnly == INSTANCE DataRefresh WITH
    Leagues <- <<"E1">>, Morning <- "E1", Fixtures <- {"m1", "m2"},
    DayLength <- 2, MaxTime <- 1, MaxRuns <- 2, Capped <- TRUE,
    now <- refreshNow, reader <- refreshReader, runs <- refreshRuns

ByHand == INSTANCE DataRefresh WITH
    Leagues <- <<"E1">>, Morning <- "E1", Fixtures <- {"m1", "m2"},
    DayLength <- 2, MaxTime <- 2, MaxRuns <- 2, Capped <- FALSE,
    now <- refreshNow, reader <- refreshReader, runs <- refreshRuns

ASSUME PartsAreSound ==
    /\ Normalised!ConstantsAssumption
    /\ MarketRun!ConstantsAssumption
    /\ MarketHistory!ConstantsAssumption
    /\ Board!ConstantsAssumption
    /\ Views!ConstantsAssumption
    /\ Detail!ConstantsAssumption
    /\ Walk!ConstantsAssumption
    /\ Snapshots!ConstantsAssumption
    /\ Refresh!RefreshAssumption
    /\ ScoreOnly!RefreshAssumption
    /\ ByHand!RefreshAssumption

-----------------------------------------------------------------------------
coreVars ==
    <<now, root, days, files, durable, damaged, control, run, completed,
      rejected, runs, kills, losses, damages>>
normalisedVars ==
    <<client, normalisedNow, phase, metadata, payload, promised, sent,
      retrieved, quotes, published, opportunities>>
marketHistoryVars ==
    <<marketHistoryNow, captures, observed, predicted>>
picksVars ==
    <<picksNow, picksCaptures, picksObserved, picksPredicted, runner, manual,
      inHand, effective, batch, prepared, publications, results, calendars,
      voids, served>>
viewsVars ==
    <<viewsNow, targets, viewsOpportunities, prices, outcomes>>
walkVars ==
    <<history, day, totals, lists, rows>>
snapshotsVars ==
    <<snapshotsObserved, stamped, snapshotsPredicted, snapshotsTargets,
      snapshotsOpportunities, shadows, decisions, snapshotsOutcomes,
      snapshotsRun, reader, snapshots, crashes>>
refreshVars ==
    <<refreshNow, calendar, copy, file, evidence, attempts, status, waiting,
      job, refreshReader, gets, missed, refreshRuns>>
suiteVars == <<part, coreVars, normalisedVars, marketHistoryVars, picksVars,
               viewsVars, walkVars, snapshotsVars, refreshVars>>

(* Each behaviour runs one component; what the others would hold is 0.      *)
NoNormalised ==
    /\ client = 0 /\ normalisedNow = 0 /\ phase = 0 /\ metadata = 0
    /\ payload = 0 /\ promised = 0 /\ sent = 0 /\ retrieved = 0 /\ quotes = 0
    /\ published = 0 /\ opportunities = 0
NoMarketHistory ==
    /\ marketHistoryNow = 0 /\ captures = 0 /\ observed = 0 /\ predicted = 0
NoPicks ==
    /\ picksNow = 0 /\ picksCaptures = 0 /\ picksObserved = 0
    /\ picksPredicted = 0 /\ runner = 0 /\ manual = 0 /\ inHand = 0
    /\ effective = 0 /\ batch = 0 /\ prepared = 0 /\ publications = 0
    /\ results = 0 /\ calendars = 0 /\ voids = 0 /\ served = 0
NoViews ==
    /\ viewsNow = 0 /\ targets = 0 /\ viewsOpportunities = 0 /\ prices = 0
    /\ outcomes = 0
NoWalk ==
    /\ history = 0 /\ day = 0 /\ totals = 0 /\ lists = 0 /\ rows = 0
NoSnapshots ==
    /\ snapshotsObserved = 0 /\ stamped = 0 /\ snapshotsPredicted = 0
    /\ snapshotsTargets = 0 /\ snapshotsOpportunities = 0 /\ shadows = 0
    /\ decisions = 0 /\ snapshotsOutcomes = 0 /\ snapshotsRun = 0
    /\ reader = 0 /\ snapshots = 0 /\ crashes = 0
NoRefresh ==
    /\ refreshNow = 0 /\ calendar = 0 /\ copy = 0 /\ file = 0 /\ evidence = 0
    /\ attempts = 0 /\ status = 0 /\ waiting = 0 /\ job = 0
    /\ refreshReader = 0 /\ gets = 0 /\ missed = 0 /\ refreshRuns = 0

SuiteInit ==
    /\ Init
    /\ \/ /\ part = "receipts"
          /\ NoNormalised /\ NoMarketHistory /\ NoPicks /\ NoViews /\ NoWalk
          /\ NoSnapshots /\ NoRefresh
       \/ /\ part = "normalised" /\ Normalised!Init
          /\ NoMarketHistory /\ NoPicks /\ NoViews /\ NoWalk /\ NoSnapshots
          /\ NoRefresh
       \/ /\ part = "market run" /\ MarketRun!Init
          /\ NoMarketHistory /\ NoPicks /\ NoViews /\ NoWalk /\ NoSnapshots
          /\ NoRefresh
       \/ /\ part = "history" /\ MarketHistory!Init
          /\ NoNormalised /\ NoPicks /\ NoViews /\ NoWalk /\ NoSnapshots
          /\ NoRefresh
       \/ /\ part = "board" /\ Board!Init
          /\ NoNormalised /\ NoPicks /\ NoViews /\ NoWalk /\ NoSnapshots
          /\ NoRefresh
       \/ /\ part = "picks" /\ Picks!PubInit
          /\ NoNormalised /\ NoMarketHistory /\ NoViews /\ NoWalk
          /\ NoSnapshots /\ NoRefresh
       \/ /\ part = "voids" /\ Voids!PubInit
          /\ NoNormalised /\ NoMarketHistory /\ NoViews /\ NoWalk
          /\ NoSnapshots /\ NoRefresh
       \/ /\ part = "performance" /\ Views!Init
          /\ NoNormalised /\ NoMarketHistory /\ NoPicks /\ NoWalk
          /\ NoSnapshots /\ NoRefresh
       \/ /\ part = "detail" /\ Detail!Init
          /\ NoNormalised /\ NoMarketHistory /\ NoPicks /\ NoWalk
          /\ NoSnapshots /\ NoRefresh
       \/ /\ part = "walk" /\ Walk!Init
          /\ NoNormalised /\ NoMarketHistory /\ NoPicks /\ NoViews
          /\ NoSnapshots /\ NoRefresh
       \/ /\ part = "snapshots" /\ Snapshots!Init
          /\ NoNormalised /\ NoMarketHistory /\ NoPicks /\ NoViews /\ NoWalk
          /\ NoRefresh
       \/ /\ part = "refresh" /\ Refresh!Init
          /\ NoNormalised /\ NoMarketHistory /\ NoPicks /\ NoViews /\ NoWalk
          /\ NoSnapshots
       \/ /\ part = "score only" /\ ScoreOnly!Init
          /\ NoNormalised /\ NoMarketHistory /\ NoPicks /\ NoViews /\ NoWalk
          /\ NoSnapshots
       \/ /\ part = "manual" /\ ByHand!Init
          /\ NoNormalised /\ NoMarketHistory /\ NoPicks /\ NoViews /\ NoWalk
          /\ NoSnapshots

SuiteNext ==
    \/ /\ part = "receipts" /\ Next
       /\ UNCHANGED <<part, normalisedVars, marketHistoryVars, picksVars,
                      viewsVars, walkVars, snapshotsVars, refreshVars>>
    \/ /\ part = "normalised" /\ Normalised!Next
       /\ UNCHANGED <<part, coreVars, marketHistoryVars, picksVars,
                      viewsVars, walkVars, snapshotsVars, refreshVars>>
    \/ /\ part = "market run" /\ MarketRun!Next
       /\ UNCHANGED <<part, coreVars, marketHistoryVars, picksVars,
                      viewsVars, walkVars, snapshotsVars, refreshVars>>
    \/ /\ part = "history" /\ MarketHistory!Next
       /\ UNCHANGED <<part, coreVars, normalisedVars, picksVars, viewsVars,
                      walkVars, snapshotsVars, refreshVars>>
    \/ /\ part = "board" /\ Board!Next
       /\ UNCHANGED <<part, coreVars, normalisedVars, picksVars, viewsVars,
                      walkVars, snapshotsVars, refreshVars>>
    \/ /\ part = "picks" /\ Picks!PubNext
       /\ UNCHANGED <<part, coreVars, normalisedVars, marketHistoryVars,
                      viewsVars, walkVars, snapshotsVars, refreshVars>>
    \/ /\ part = "voids" /\ Voids!PubNext
       /\ UNCHANGED <<part, coreVars, normalisedVars, marketHistoryVars,
                      viewsVars, walkVars, snapshotsVars, refreshVars>>
    \/ /\ part = "performance" /\ Views!Next
       /\ UNCHANGED <<part, coreVars, normalisedVars, marketHistoryVars,
                      picksVars, walkVars, snapshotsVars, refreshVars>>
    \/ /\ part = "detail" /\ Detail!Next
       /\ UNCHANGED <<part, coreVars, normalisedVars, marketHistoryVars,
                      picksVars, walkVars, snapshotsVars, refreshVars>>
    \/ /\ part = "walk" /\ Walk!Next
       /\ UNCHANGED <<part, coreVars, normalisedVars, marketHistoryVars,
                      picksVars, viewsVars, snapshotsVars, refreshVars>>
    \/ /\ part = "snapshots" /\ Snapshots!Next
       /\ UNCHANGED <<part, coreVars, normalisedVars, marketHistoryVars,
                      picksVars, viewsVars, walkVars, refreshVars>>
    \/ /\ part = "refresh" /\ Refresh!Next
       /\ UNCHANGED <<part, coreVars, normalisedVars, marketHistoryVars,
                      picksVars, viewsVars, walkVars, snapshotsVars>>
    \/ /\ part = "score only" /\ ScoreOnly!Next
       /\ UNCHANGED <<part, coreVars, normalisedVars, marketHistoryVars,
                      picksVars, viewsVars, walkVars, snapshotsVars>>
    \/ /\ part = "manual" /\ ByHand!Next
       /\ UNCHANGED <<part, coreVars, normalisedVars, marketHistoryVars,
                      picksVars, viewsVars, walkVars, snapshotsVars>>

SuiteSpec == SuiteInit /\ [][SuiteNext]_suiteVars

-----------------------------------------------------------------------------
\* Every outcome of a market is an opportunity, justified by consistent prices of both
\* sides, or an issue with its reason, published while fresh after the requests promised;
\* the board shows the last word known then, agrees with the shortlist, and forgives only
\* age; a slot has one pick per day and strategy, every served report stands, replays
\* and was published in time, and a void has its reason.
MarketIsReplayable ==
    /\ [](/\ part = "normalised" =>
                /\ Normalised!TypeOK /\ Normalised!MatchesReference
                /\ Normalised!EveryOutcomeAccounted /\ Normalised!OpportunitiesJustified
          /\ part = "market run" =>
                /\ MarketRun!RequestsAsPromised /\ MarketRun!ReusedMetadataValid
                /\ MarketRun!FreshWhenPublished
          /\ part = "history" =>
                /\ MarketHistory!TypeOK /\ MarketHistory!CurrentIsLastWord
                /\ MarketHistory!ShortlistForgivesOnlyAge
          /\ part = "board" => Board!BoardAndShortlistAgree
          /\ part = "picks" =>
                /\ Picks!PubTypeOK /\ Picks!OnePickPerSlot /\ Picks!PublicationsReplay
                /\ Picks!ServedReportsStand
          /\ part = "voids" => Voids!ServedReportsStand /\ Voids!VoidsJustified)
    /\ [][/\ part = "history" => MarketHistory!NoLookAhead
          /\ part = "picks" => Picks!PublishedInTime]_suiteVars

\* Each graded target is counted once, also after a correction, and the summary is of
\* what is shown; a model is fitted on strictly earlier days, evaluated as it would have
\* been used, and chosen blind of the days held out; a snapshot is one moment of
\* coherent evidence that never changes and compares on the targets that were frozen.
ResearchIsHonest ==
    /\ [](/\ part = "performance" => Views!TypeOK /\ Views!PerformanceAddsUp
          /\ part = "detail" => Detail!SummaryIsShown
          /\ part = "walk" =>
                /\ Walk!TypeOK /\ Walk!StrictlyEarlier /\ Walk!BacktestIsLive
                /\ Walk!EligibleIsPaired /\ Walk!HoldoutIsBlind /\ Walk!NextDayKnowsLess
          /\ part = "snapshots" =>
                /\ Snapshots!TypeOK /\ Snapshots!SnapshotsStand /\ Snapshots!EvidenceCoheres
                /\ Snapshots!SegmentsAddUp /\ Snapshots!PairedOnFrozenTargets)
    /\ [][/\ part = "performance" => Views!CorrectionsKeepPopulation
          /\ part = "snapshots" => Snapshots!SnapshotIsOneMoment]_suiteVars

\* A source is asked once a day, a baseline covers every league, a reader sees one whole
\* file that was published with its evidence, the fixtures with corners only grow, the
\* proposal names what the morning job would ask for, and a block ends only by an
\* assessment.
RefreshIsAccounted ==
    /\ [](/\ part = "refresh" =>
                /\ Refresh!TypeOK /\ Refresh!OneGetPerDay /\ Refresh!BaselineCoversAll
                /\ Refresh!ReadersSeeOneFile /\ Refresh!EvidenceWasPublished
          /\ part = "score only" => ScoreOnly!PlanIsSelected
          /\ part = "manual" => ByHand!EvidenceWasPublished)
    /\ [][/\ part = "refresh" => Refresh!HistoryAdvances /\ Refresh!BlockNeedsAssessment
          /\ part = "manual" => ByHand!NoFixtureLost]_suiteVars
=============================================================================
