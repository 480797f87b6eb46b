# Model FC in TLA+

Model FC collects football odds under a hard request budget, freezes forecasts
before it looks at prices, settles them against results, publishes picks, and runs
on one host where a deployment controller replaces the release that collector and
API run from. Much of it is computation over one snapshot. What is hard to get right,
and hard to test, is the rest: one-shot processes started by timers, operators and
workflows, which share a few JSON files and lock files, may die between any two
durable writes, and must never spend a request twice, lose a reservation, fork
evidence, show an older status or publish an untested release.

The modules here model those parts from the Python source. TLC checks them on
small instances; TLAPS proves the most important properties for all values of
the constants. Paths below are relative to the repository; `src/modelfc` is
abbreviated to the file name.

## 1. Inventory

| Part | State | Operations | Interacts through |
|---|---|---|---|
| Request accounting (`corner_prospective.py`, `corner_prospective_budget.py`) | `control.json`, `budget-events/*.json`, `runner.lock` | initialise, enroll, rollover, reserve, before/after request | runner lock and control, shared with collection and guarded acquisition |
| Prospective collection (`corner_prospective.py`, `friday_collection.py`, `early_collection.py`), its operator projection (`collector_freshness.py`) | discovery, attempts, weekend allocation in the control | `run_once` hourly, `collect-early`, the projection | the control; the evidence, which manual captures also write |
| Run receipts (`prospective_run_receipts.py`, `production_status.py`) | `run-receipts/<day>/*.json` | publish, latest, status | files, synchronised directory by directory |
| Prospective evidence (`corner_opportunities.py`, `corner_shadow*.py`, `corner_analysis_store.py`) | captures, observations, predictions, targets, opportunities, shadows, analyses | publish once, replay, repair | ledger lock |
| Outcome evidence (`corner_analysis_outcomes.py`) | `analysis-outcomes/<analysis>/*.json` | settle, correct, replay | ledger lock; season files that the refresh replaces |
| Ledgers (`corner_ledger.py`, `live_forecasts.py`, `predict.py`) | forecasts, picks, results | append, summarise | ledger lock, CSV files |
| Forecast-only runner, settlement (`forecast_only_runner.py`, `research_settlement.py`, `research_outcomes.py`) | forecasts, outcomes, corrections, receipts | run, sweep, review | files of their own and of the BTTS branch |
| Guarded acquisition (`guarded_acquisition.py`, `acquisition_storage.py`, `acquisition_planner.py`) | private store of sessions, forecasts, reservations, payloads, receipts | `run_once` for one authorization | runner lock and shared control; an authorization file |
| Calendar and history gates (`pl_calendar*.py`, `history_completeness.py`, `btts_model.py`) | none | accept or refuse a day | calendars and results that age |
| BTTS research (`btts_prospective.py`, `btts_research.py`, `published_btts.py`) | forecasts, observations, picks | freeze, observe, publish, review | the collector's run |
| Premier League operations (`pl_saved_orchestration.py`, `pl_product_source.py`, `pl_regular_delivery.py`, `pl_corner_capture.py`) | intents, results, cohorts, certificates, picks | saved operations, delivery, replay | private store and public evidence |
| Data refresh (`corner_refresh.py`, `morning_refresh.py`, `refresh_*.py`) | season files, claims, attempts, status | download, validate, replace, retain | data lock; settlement reads the files |
| Read models (`corner_market_intelligence.py`, `published_recommendations.py`, `corner_prospective_read.py`, `corner_research.py`) | none, or snapshots | board, feed, views, reports | everything above |
| Deployment controller (`ops/vps/deploy_main.py`, `api_handoff.py`, `acquisition_mount.py`) | `current`, `releases/`, `deploy.lock`, marker, tmpfs | `deploy <sha>`, units, API restarts | systemd, GitHub main, the API process |
| Deployment status, trusted offline validation (`ops/github`, `ops/vps/github_*_validation.py`) | statuses, comments, markers | observe, dispatch, answer | workflow runs of GitHub, SSH |
| Release validator (`ops/vps/validate_capture.py`, `validate_pr.py`, `release_evidence.py`) | lock, containers, run directories, cache | validate, clean, install | systemd, podman, relay to the provider |
| Bounded worker (`ops/bounded_worker`) | receipts, task evidence, storage image, `/etc/fstab` | dispatch, execute, publish, prepare storage | GitHub, systemd, mounts |
| Zen53 operations (`docs/zen53/**`, executable operator tooling) | approvals, claims, stages, captures | approve, launch, supervise, capture | locks of controller and validator |
| HTTP layer, frontend, statistics, CI | none that is shared | compute, render, build | - |

What makes them correct:

- **Accounting and collection.** Reservations cover requests, nothing is refunded, a
  saved control loads, an interrupted rollover is completed; a fixture is bought at
  most twice and never without a record; quotas are shared by all runs and
  Friday leaves Saturday its share; no run leaves a control or evidence that blocks
  the next; the operator is told what will be bought.
- **Evidence.** Files are one chain whatever interleaves; a key stands for one outcome;
  no record names one that is missing; cohorts stay frozen; duplicates are replayed;
  a forecast settles once and from what it froze.
- **Acquisition and research.** A request that may have been sent is never repeated;
  accounting is shared with the collector; a receipt has its evidence; an operation
  that was interrupted is resumed once; a gate does not refuse what it let
  freeze, nor let a day into its own history.
- **Deployment.** `current` is tested and on disk, what the API runs in is not removed, no
  unit is left alone, reports, statuses and verdicts are true.
- **Host.** Effects follow recorded intents, observations hold, work is recorded and
  published once, an operation starts only under its approval and locks.
- **Serving.** No reader sees an older status; what was published replays from the files;
  no later information enters an evaluation; one claim asks a source once.

`PROJECT.json` lists the hazards at their lines with the properties that
address them.

## 2. Modules

One module per component; `<=` is a refinement (the left module says what the right one
promises, the right one instantiates it under a refinement mapping). A module in brackets holds the
theorems about the first component of its suite, which it EXTENDS, and, in a section for each, about
the components marked `*`, which it INSTANCEs with constants of its own. RunReceipts, DataRefresh and
ResearchSettlement hold their own theorems.

```
MCCollection    ProspectiveBudget* [ProspectiveBudgetProofs]
                ProspectiveCollector* <- CollectorFreshness
MCEvidence      OutcomeHistory <= OutcomeChain* [OutcomeChainProofs]
                EvidenceStore  AnalysisStore*  CornerLedger*  ForecastLedger*
                ForecastRunner*  ResearchSettlement
MCAcquisition   AtMostOnceAcquisition <= GuardedAcquisition* [GuardedAcquisitionProofs]
                CalendarHistory  BttsResearch  PLResults*  PLProduct*  CornerReplay*
MCDeployment    DeployController* [DeployControllerProofs]
                DeploymentStatus*  TrustedOffline*  ValidationReport*  ValidatorRuns*
MCHost          StoragePreparation* [HostProofs]
                WorkerBridge*  BoundedTask*  NativeDiagnostic*  RunApproval*  OwnerCapture*
MCServing       RunReceipts  MarketIntelligence  MarketNormalisation
                PublishedRecommendations  ProspectiveViews  ResearchSnapshots
                WalkForward  DataRefresh
MCEnds          liveness of ProspectiveBudget, DeployController, EvidenceStore,
                AnalysisStore, ResearchSettlement, OwnerCapture, ValidatorRuns
```

**Suites.** A suite EXTENDS its first component and INSTANCEs the others with
constants of its own. Its variable `part` is chosen in the initial state and never
changes; only the chosen part runs, the variables of all others stay at their first
value. The state graph of a suite is therefore the disjoint union of the graphs of
its parts, and a property `part = "x" => X!Inv` says exactly that Inv holds of X. Parts
do not interact in a suite: where components interact in the code, one module
contains both sides (the collector inside GuardedAcquisition's accounting, the runner
inside OutcomeChain, the unit and the API inside DeployController, the collector
inside CollectorFreshness, writers beside the readers in every read model).

**Steps.** Each action is one step of the code between two points at which another
process, a crash or the clock can intervene: a lock region without durable writes in
between is one action, and each durable write that a crash can separate from the next is
an action of its own. Variables under "observations of the environment" (requests sent,
outcomes in order of publication, releases whose tests passed, answers given) are written by the
actions and read by none; they only let the properties say what happened. Operators
named `Mutant...`, `...Ignored`, `RefundingControl` and the like stand beside the definition
they change; they are faults a test of the model injects and belong to no specification.

### Collection

**ProspectiveBudget.** `control` is `control.json` (version 0 when missing), `events` the event
files with a flag for content that is not written yet, `mem` each invocation's loaded
copy. `StartRun`/`StartEnrollment` are the lock and `_load`; `RolloverRejected`,
`RolloverNotNeeded` and `RolloverBegins` are the outcomes of `rollover_if_needed`;
`CreateEvent`, `WriteEvent`, `WriteFails`, `ExistingEvent*` the steps of `_publish_event`;
`SaveEnrollment`/`SaveRollover` the save that follows; `Reserve` and `SendRequest` are
`_RequestBudgetGuard`. `Crash` may happen at each of them. `_save` replaces a file
atomically and is one step. Days are numbers, a month is `DaysPerMonth` of them.

**ProspectiveCollector.** One `run` record, since the runner lock (above) serialises runs, and
`Crash` which ends it anywhere. `EnterCohort` is the head of `_provider_cohort`; then come
discovery (`ReserveDiscovery`, `RecordDiscovery`, `DiscoveryAnswered`, `DiscoveryFailed`), the
loop over fixtures (`TakeFixture`, `SkipFixture`, `StopCohort`), the recheck of the ledger
(`Recheck`), and the acquisition (`ReserveQuote`, `RecordAttempt`, `Quote*`, `Assess*`,
`StoreCapture`). The clock stops at instants chosen inside and outside each window the code
distinguishes. Prices and assessments are one flag: whether the observation reaches the
watchlist. **CollectorFreshness** takes the projection just before a run and compares it with
what the run does; it assumes, as its document does, no manual override and no repair.

### Evidence

**OutcomeChain, OutcomeHistory.** `Begin` is the first lock region, `ReadEvidence` the source,
`Publish`, `Replay` and `Reject` the second lock region. `SettleFirst` is the runner's
settlement from `_inventory`, guarded by the absence of a chain that it read before; operators
settle and correct with any key and any outcome. OutcomeHistory is a sequence
that begins with a settlement and grows by corrections that differ from their predecessor.

**EvidenceStore.** A run is a queue of jobs, each of which publishes at most one file under the
ledger lock; operators capture with that lock only. **AnalysisStore** is the publication
protocol of `ledger_storage.py`: lookup, build outside the lock, lookup, write, grant, link.
**CornerLedger** and **ForecastLedger** are the commands of the two manual ledgers, with
summaries that read file by file. **ForecastRunner** claims, fetches, freezes and receipts;
**ResearchSettlement** settles both markets by timer, sweep and review.

### Acquisition

**GuardedAcquisition, AtMostOnceAcquisition.** Reading the authorization and the calendar
(`Start`) happens before the lock (`Enter`). From there: `Prepare` one Championship forecast at a
time, `Claim`, `Freeze` and `Recheck` for the Premier League part, `Reserve`,
`StoreReservation`, `Send`, `Answer`, `StoreEvidence` in the order of the code, `Complete` and the
three ways to fail. `Stop` is every refusal, exception without receipt and death. `Authorize`
installs any authorization, for an experiment that was used before too; `Collect` is the ordinary
collector on the same control; `Postpone` moves a kickoff, which makes a new obligation. An
authorization pins calendar and expiry by hash; in the model it carries their content.
AtMostOnceAcquisition has the three steps the operator pays for: claim, charge, ask.

**CalendarHistory** enumerates calendars and histories that lag, and compares the two gates. **BttsResearch**
freezes before it asks and rebuilds every pick from records. **PLResults** is the private chain with
its public intent and projection; **PLProduct** the way from forecast to certified pick;
**CornerReplay** the capture whose write may have an unknown outcome, and the replay against quotes.

### Deployment

**DeployController.** One `pc` and one `job` per controller. `StartUnit` writes the marker and starts a
unit; the unit ends with a result (`UnitEnds`) independently of its controller, which takes it
(`Fetched`, `WheelsInstalled`, `TestsPassed`, `Refused`), is interrupted (`Interrupt`), or dies
(`Crash`). `Stop`/`Stopped` are `finish_service`, `Recover` is `recover_service`. `Publish` replaces
the symlink, `Verify*` rereads it, `Handoff*` are the API handoff, `Rollback`/`Readopt` the way
back. `Unlock` and `Cleanup` are two steps, because the cleanup runs after the `with` block has
released the lock. Administrator, systemd and GitHub are environment actions and marked external.

**DeploymentStatus** delivers workflow runs in any order and number and turns reports into statuses;
**TrustedOffline** marks a request (head, CI attempt, orchestration commit and configured host) before it asks the host
over SSH; **ValidationReport** lets an arbitrary
candidate answer the harness; **ValidatorRuns** has worker, service, parent and installer die separately. A cleaner
lists what it finds and removes container and directory one by one (`Remove`); it fails when another was faster or is
at the same item (`Disputed`), or by itself, and then leaves the rest (`GivesUp`). The parent's check that the
installation is still the one it began with comes last and may replace any report, CLEANUP_FAILED too (`Concludes`).

### Host

**StoragePreparation.** Every mutation lies between two records; the tool that timed out may act later
(`surviving`), another attempt finds the directory, `/etc/fstab` is edited meanwhile. **WorkerBridge** has
the three one-shot modes over `receipts.sqlite`, **BoundedTask** the attempt itself; **RunApproval** keeps what
was synchronised apart from what was written; **NativeDiagnostic** and **OwnerCapture** order leases, locks and
deadlines against production timers.

### Serving

**RunReceipts** keeps, per directory, what a loss of power would leave. **MarketNormalisation** enumerates
payloads and compares with a reference; **MarketIntelligence** lets captures arrive in any order;
**PublishedRecommendations** replays each publication from the files; **ProspectiveViews** and
**ResearchSnapshots** read while records are appended; **WalkForward** walks two histories side by side that agree
before the holdout; **DataRefresh** runs morning job, baseline and refresh by hand over files in which a row has a
score (`has`) and possibly corners (`corners`): a download is refused when it loses corners, a row with a score only
may go.

## 3. What is checked

| Run | Properties |
|---|---|
| `collection` | `ReservationsCoverRequests`, `ControlStaysSound`, `MonthlyOvershootBounded`, `NeverRefunded`; `WeekendPolicies` (both quotas, Saturday's reserve, requests inside their slot); `StateStaysReadable` (control loads, evidence readable, each acquisition on record before it is sent); `ProjectionIsHonest` (nothing is bought unannounced, what is announced as eligible is taken) |
| `evidence` | `ChainStaysValid`, `TipIsLatest`, `KeysAreIdempotent`, `ImplementsHistory`; `EvidenceReads` (references resolve, publications agree, cohorts stay frozen, decisions replay, dating); `AnalysesAreReplayed`; `LedgersHold` (both ledgers); `ForecastsAreSettledOnce` (runner, settlement, reviews, two sweeps) |
| `acquisition` | `NeverAskedTwice`, `SharedAccounting`, `RequestsArePrepared`, `ImplementsAtMostOnce`; `ProfilesHold` (mixed batch with `ReceiptCommits`, one-shot operator); `ResearchGatesHold` (calendar, BTTS, BTTS with a full store); `PremierLeagueReplays` (results, product, replay, quotes) |
| `deployment` | `CurrentIsTested`, `PinnedReleaseStays`, `UnitsAreAccountedFor`, `ReportsAreTrue`, `NeverBackwards`; `StatusesAreTrue` (observer, every reply, offline checks, release check); `ValidationIsEarned` (verdicts, relay, validator under death, installation, replacement) |
| `host` | `EffectsAreIntended`, `ObservationsAreTrue`, `HostStaysIntact`; `WorkIsAccountedFor` (bridge, task); `OperationsAreAdmitted` (diagnostic, approval, capture) |
| `serving` | `StatusIsTrue`; `MarketIsReplayable` (normalisation, history, board, picks, voids); `ResearchIsHonest` (views, walk-forward, snapshots); `RefreshIsAccounted` |
| `ends` | `RolloverRecovers`; `WorkIsFinished` (deployment, evidence, analyses, settlement, capture, validators) |
| `budget_interrupted` | counterexample to `InterruptedRolloverCompletes` (section 5) |
| `receipts_first` | counterexample to `PublishedSurvive` (section 5) |

A property of a suite is a conjunction over its parts, and each of the conjuncts is stated and
explained in its component module; the type invariants are among them. Each property of a
run is broken by an injected fault of a mapped definition.

**Bounds.** They are in the suite modules, beside the INSTANCE they belong to, and in the .cfg
files for the first component. Two processes are enough for every lock-protected file: a third
could only be excluded by the same lock. Two failures (one where a part has many steps) let a crash hit the recovery from
a crash. Two months (three in `ends` and `budget_interrupted`, where one is skipped)
let a rollover find an older period; an allowance of 3 with batches of 2 leaves the remainder of one at which an
unchecked reservation overshoots. In the collector, times are
one per window that the code distinguishes: both New York slots, the hours after them, the last ninety
minutes and the last fifteen; quotas and limits are scaled so that each binds. Three keys give a
settlement and two corrections, the shortest chain that can fork below its root. In the acquisition a window
of two hours, calendars and authorizations that age within it and one month end make every recheck both pass and
fail. Two controllers and two commits let one attempt overtake or clean up after another. In the calendar gates two
rounds of two matches share a day and one match is put back. In the receipts the clock crosses midnight and a day
holds two files. Settlement is split into parts, each with the processes that can meet in it: timer and a moving kickoff,
timer and reviewer, two reviewers, timer and sweep. `CHECK_DEADLOCK FALSE`: the clocks and counters of the suites end, and one-shot
operations are over when they are over.

**Symmetry** is used for invocations, controllers, experiments, attempts, operators and results, which no
definition distinguishes, and never in `ends` or a run with another liveness property.

**Fairness** is stated in the component modules and taken over in `MCEnds` (`FairSpec`), each
condition for the part it belongs to. `ProspectiveBudget` assumes that the timer keeps starting runs
(`deploy/modelfc-corner-prospective.timer`, hourly) and that a started run goes on to its end; crashes and failed
writes are not prevented, only bounded. `DeployController` assumes that a controller keeps executing, its waits
having deadlines, and that a unit told to stop stops; nothing is assumed of units, of main or of the API. If systemd
cannot stop a unit the code waits on purpose ("deliberately retain the host lock and files"), which the
fairness leaves out. `EvidenceStore` and `ResearchSettlement` assume their timers, `AnalysisStore` that a live call
goes on, `OwnerCapture` that systemd kills the scope at its deadline, `ValidatorRuns` that systemd brings started services
to their end, ExecStopPost included, that parents which are alive go on, and that podman answers or fails; one
condition covers all runs, since no step of a run can be repeated for ever.

**Scope.** `SaturdayReserveSuffices` is claimed for runs that do not crash: a crash after a reservation wastes it.
`EvidenceStaysReadable` is claimed for weekend attempts and without manual captures: an ordinary attempt does not
keep its kickoff, and a watchlisted fixture that is postponed is quoted again under the new one. The feed of
recommendations is checked without manual captures, the dating of targets too (section 5). `NoFixtureLost` and
`EvidenceWasPublished` speak of fixtures with corners, which is what the code keeps. `OneRunPerRequest` is claimed for
one orchestration commit and configuration: the code asks again, on purpose, under another. `RunsAreRemoved` allows
for a run whose ExecStopPost failed after two deaths or failures: what is left of it waits for the sweep of a later
request.

## 4. What is proved

TLAPS checks the theorems below for every value of the constants that the named assumptions
of the modules allow; their bounds on time, failures and attempts are arbitrary naturals there. The assumptions say that
counts are naturals (positive where the code divides by them or needs one), sets that stand for different things
differ, and `None` is no value of the sets it is added to.
OperatorAuthorized has the hypothesis `OneShot`, the profile it is about; SuccessSelected has `Raw = {}`, reports that the
controller wrote, and StatusSafety takes replies of any other origin whose run is a number, which the code requires too.

| Theorems | Property of a run | Argument |
|---|---|---|
| `ProspectiveBudgetProofs`: `AccountingInvariant`, `TypeCorrect`, `ConservativeReservations` | `ReservationsCoverRequests` | The lock has one holder, whose memory is the saved control, and a transition about to be saved keeps or restarts the count. |
| `OriginInvariant`, `SoundControl` | `ControlStaysSound` | Adds to it that events are well formed, that a plan has its event on file by the place its run is at, and that the saved period has exactly one event behind it. |
| `NoRefund` | `NeverRefunded` | By action, from both. |
| `BoundedOvershoot` | `MonthlyOvershootBounded` | `MonthInv`: what a month sends beyond its own charges is at most the one batch that was on its way when it began; it needs the arithmetic of months (`MonthBounds`). |
| `OutcomeChainProofs`: `ChainInvariant`, `TypesCorrect`, `TipCorrect` | `TipIsLatest` | The files are exactly the outcomes published, each superseding the one before. |
| `ChainValid` | `ChainStaysValid` | The walk of `_validated_chain` is a recursive function; its only solution meets the first n + 1 outcomes at revision n, else there were a least revision at which it did not (`LeastMember`). |
| `KeysIdempotent`, `Immutable` | `KeysAreIdempotent` | Every answer holds a record that is still on file, and a file is never replaced. |
| `Refinement` | `ImplementsHistory` | Initial states and each step map to OutcomeHistory or stutter. |
| `GuardedAcquisitionProofs`: `ClaimInvariant`, `AskedOnce` | `NeverAskedTwice` | The sessions read under the lock stay complete until the claim; from there the place of an invocation tells what its experiment was charged and sent. |
| `AccountInvariant`, `OneAccount` | `SharedAccounting` | The control in memory is the saved one, and nothing is spent in a month to come. |
| `OperatorAuthorized` | (part of `ProfilesHold`) | `FloorInv`: what the operator charged left the reserve floor. |
| `EvidenceInvariant`, `PreparedRequests`, `ReceiptsCommit` | `RequestsArePrepared`, (part of `ProfilesHold`) | The place of an invocation tells which records it has put on file. |
| `Refinement` | `ImplementsAtMostOnce` | Each step maps to claim, charge, ask or a stutter. |
| `DeployControllerProofs`: `DeployInvariant`, `TypeCorrect`, `CurrentStaysTested`, `PinnedStays`, `UnitsAccounted`, `ReportsTrue`, `ForwardOrBack` | `CurrentIsTested`, `PinnedReleaseStays`, `UnitsAreAccountedFor`, `ReportsAreTrue`, `NeverBackwards` | One owner of `deploy.lock`, what each of its steps has established, and candidates known to their own attempt alone until they are published. |
| `HostProofs`: `PreparationInvariant`, `EffectsIntended`, `TrueObservations`, `IntactHost`, `NothingIsTakenBack` | `EffectsAreIntended`, `ObservationsAreTrue`, `HostStaysIntact` | One preparation runs, and its phase tells what it has: an intent on record before it acts, the marker from the allocation on, its entry in `/etc/fstab` from the exchange on; a late child is of the attempt the marker names. |
| `RunReceipts`: `ReceiptsInvariant`, `StatusTrue` | `StatusIsTrue` | The lock makes the receipts' ids and completion times grow together, so the one newest receipt of the newest day has the largest id; a run's own receipt is on file only while it publishes it, which is what a failed sync takes back. Needs that a bounded set has a maximum (`GreatestMember`). |
| `DataRefresh`: `RefreshInvariant`, `TypeCorrect`, `RefreshIsSafe`, `RefreshForgetsNothing`, `PlanAgrees` | each part of `RefreshIsAccounted` | A job has one row per league it has passed; a receipt or reservation of the day lies behind each attempt and continues the row before it, which a later job's row continues in turn. Needs that leagues are listed once, which `corner_data.py:63-65` checks. |
| `ResearchSettlement`: `SettlementInvariant`, `TypeCorrect`, `SettlementIsSound`, `NothingRewritten`, `FirstIsSettled` | the parts of `ForecastsAreSettledOnce` about the settlement | What an actor read without the lock stays true because nothing is rewritten; a revision names the file it was reviewed with, so the one of the latest file is a tip, and only a correction of that tip is accepted. `FirstIsSettled` has the hypothesis `Reviewers = {}`: an operator may name a later forecast. |
| `ProspectiveBudgetProofs`: `CollectorSafety`, `ControlAlwaysLoads`, `EveryAcquisitionRecorded`, `EvidenceAlwaysReadable`, `SlotAlwaysHonoured` | all of `StateStaysReadable`; `SlotHonoured` of `WeekendPolicies` | `CInv`: what is on disk loads, an acquisition is on file before its request, the listing a run works from is the current one, and a fixture keeps one kickoff. |
| `PhaseQuotasHold` | `PhaseQuotas` of `WeekendPolicies` | `QInv`: the cache is of the day, cohorts have their shape, slots are entered in order, and each quota counts what was captured under it. |
| `OutcomeChainProofs`: `RunnerSafety`, `OneForecastEver`, `RequestsKeepDistance`, `ForecastsReproduce` | the `runner` part of `ForecastsAreSettledOnce` | `FInv`: one live run under the lock, what it holds at each place, never fewer claims than fetches, and forecasts whose inputs stay on file. |
| `StoreSafety`, `ListedAnalysesReadable`, `ConcurrentDuplicatesReplayed`, `AnswersAreSaved`, `LiveWritersCleanUp`, `OneStatePerReader` | all of `AnalysesAreReplayed` | `AInv`: a lookup under the lock stays true until the link, grants come before the name, a temporary belongs to a writer, and an answer is what is saved. |
| `CornerLedgerHolds`, `ForecastLedgerHolds` | all of `LedgersHold` | `LedgerInv`: a command repeats its checks under the lock, records stay, and a summary has read what is on file. `ForecastInv`: files only grow, and a record is of the forecast it names. |
| `GuardedAcquisitionProofs`: `ResultsHold` | the `results` part of `PremierLeagueReplays` | `RInv`: intent, record and projection come in this order, and the projection, the tip and what readers were told agree with the chain by how far the one pending operation is. |
| `ProductHolds` | its `product` part | `PInv`: times are ordered from forecast to certificate, every attempt left its observations, a choice stays the one that would be made again, and a certificate is unique. |
| `CornerReplayHolds` | its `replay` and `quotes` parts | `CornerInv`: what a preparation returns, what the holder of the lock found, that a file was synchronised before it is reported, and that normalising gives the cache its own bytes. |
| `DeployControllerProofs`: `OfflineSafety` | the `offline` and `release` parts of `StatusesAreTrue` | `OfflineInv`: what a job has established by its step (the commit it is at was the head, the marker precedes every automatic request), that a PASS the host answers was proved, and which job answers a pending status. |
| `StatusSafety`, `CommentsOnlyAdvance`, `SuccessSelected` | its `status` and `replies` parts | `StampInv`: attempts and their replies are well formed, at most one observer runs and one waits, and there is one comment, of an attempt that happened. `PromotionsHold`: a report of a promotion is of one. |
| `ValidatorSafety`, `InstallExcludes` | the `validators`, `install` and `replace` parts of `ValidationIsEarned` | `ValidatorInv`: a worker at work holds the lock; by the place of its processes, what a run is bound to, what its container proved and what is still there; the list of a cleaning parent covers what remains of its run, and no other cleaner adds to it; the installer holds the lock while files are mixed. |
| `ValidationSafety`, `RelayStaysFrugal` | its `validation` part | `HarnessInv`: by the stage of the harness, what is established and what the report may say of it, and how far the transport is. |
| `HostProofs`: `ApprovalSafety`, `ApprovalHolds` | the `approval` part of `OperationsAreAdmitted` | `ApprovalInv`: by its place, what a run has claimed (durable from the synchronisation on) and recorded in the audit; at most one run may yet start the scope of a nonce; how far a retirement is. |
| `DiagnosticSafety`, `DiagnosticEvidence` | its `diagnostic` part | `DiagnosticInv`: phase, locks and lease by the place of the supervisor; a stage is empty until it begins; the lease ends before the margin; launcher and native command agree. |
| `CaptureSafety` | its `capture` part | `CaptureInv`: a collector that found nothing wrong has seen the pinned release; the place of the capture tells which collectors exist, how often it looked and what it accepted; a collector is inside the scope, under the locks and clear of the timer; only a replaced lock file lets a worker in; what is durable after each write. |
| `TaskSafety`, `TaskReportsStay` | the task parts of `WorkIsAccountedFor` | `TaskInv`: one owner per task, what an invocation has established by its step, and what the records of a task say of its unit and of its end. |
| `BridgeSafety`, `BridgeFailsClosed` | its `bridge` part | `BridgeInv`: a receipt agrees with the launcher's evidence; the pending write of a job tells which requests left, each once; an edit that found no receipt is seen before the launch, one that found no commit before the draft; a poll reserves the next one. |

None of the properties is inductive alone. `ReservationsCoverRequests`, for instance, holds of states in which two invocations hold
the lock with different copies of the control, and the next save breaks it; `ObservationsAreTrue` needs that no
evidence is dated in a later boot and that a process about to observe has acted. What an inductive invariant adds is told by the
place of a process: what it has read that is still true, what it has made durable, what it may still send.

The theorems about a component that a suite INSTANCEs are about the component's own specification with
arbitrary constants; the suite's property says the same of its named instances, so that a row whose second
column names a part is at once more general than that part and not a statement of the suite's definition.
The proofs of WorkerBridge take the first of several rows by index instead of selecting a subsequence, which is
how the module now states the queries `ORDER BY rowid`.

**Only model-checked.**

- Liveness (`RolloverRecovers`, `WorkIsFinished`), which the prover cannot do.
- `SaturdayReserveSuffices`: whether the reserve suffices depends on the very limits and schedules of the code.
- `EvidenceReads` (EvidenceStore): decisions are replayed over observations sorted by time, and what sorting returns for every
  input is proved by an induction over data that the prover does not have. `ProjectionIsHonest` (CollectorFreshness) compares the
  state before a run with what the whole run does.
- `ResearchGatesHold`, `MarketIsReplayable`, `ResearchIsHonest`: gates, boards and read models are functions of enumerated inputs, for which the run compares the code's definition with a reference.

## 5. Where code and documents differ

Two runs expect a violation.

- `budget_interrupted`: `ops/vps/PROSPECTIVE.md:83-84` says an interrupted rollover is "completed idempotently". A process that
  dies between creating an event file and writing it leaves an empty file that every later run rejects
  (`corner_prospective_budget.py:138`).
- `receipts_first`: a directory that was made by a run which died before synchronising the parent is taken for established by
  later runs (`prospective_run_receipts.py:151`), so receipts reported as published may be lost with the power. The
  comment at line 167 states the intent, and `odds_calendar.py:36` handles this case.

The modules describe six more differences, which the code's own statements and the actions show; no run is kept for them:

- `corner_opportunities.py:561` dates a line when it "first appeared"; a line from a manual capture stored between the recheck
  and the second look of a run gets the later time (DatedStore is therefore checked without operators).
- `docs/RESEARCH_OUTCOME_LOOP.md:10` calls the markets independent; a BTTS identity conflict inside `sweep` also holds back the corner
  outcomes of that run (`research_outcomes.py:177`).
- `ops/bounded_worker/BRIDGE.md:125` keeps completed jobs "eligible for publication"; `publish` takes the oldest one again and
  again when it is blocked (`bridge_publisher.py:39`).
- `ops/vps/validate_pr.py:690` says the lock is "held for service lifetime"; it ends with the worker, before ExecStopPost.
- `ops/vps/deploy_main.py:1409` says that no release can satisfy the SUPERSEDED contract without a previous release; two other
  checks of the tip return it, and the job reports INVALID_DEPLOYMENT_REPORT.
- `docs/INDEPENDENT_PICK_STRATEGIES.md:20` keeps a published pick frozen; `read()` replays it from observations now on disk, and a
  manual capture retrieved before and stored after the publication makes the feed answer INVALID_PUBLISHED_RECOMMENDATION.

Observed while modelling, without a statement in the repository that says otherwise:

- An operator run stopped between audit creation and claim leaves an approval that neither kind of retirement
  can retire (RunApproval).
- At the fourth cached metered request of a live candidate the verdict is INVALID_REPORT (ValidationReport); a crashed
  installer leaves a mixed installation that only `validator-transition.json` guards (ValidatorRuns).
- The global concurrency group may skip the middle one of three pull requests, and a re-run after promotion is
  UNVERIFIED (DeploymentStatus).
- With more than twelve observations a snapshot answers RESEARCH_LIMIT_EXCEEDED (ResearchSnapshots); at `MAX_RECORDS` BTTS runs
  stop publishing (BttsResearch).
- A refused stage leaves a pending intent that blocks later saved operations until a review (PLResults).
- A baseline that stops between receipt and `status.json` beside the morning job hides the other league's receipt (DataRefresh).
- After a failed final clean-up a changed installation replaces CLEANUP_FAILED by INVALID_CONFIGURATION, so that the report no
  longer says that something was left; and what a failed ExecStopPost leaves stays until the next request (ValidatorRuns).
- Of two equal results recorded at once the second is refused with "refusing to overwrite" (ForecastLedger).
- EXISTING after WRITE_UNCERTAIN may name a capture that a power loss takes (CornerReplay).

## 6. Not modelled

The HTTP layer, the frontend and the remaining summaries (stateless); statistical estimates (floating point); build and CI
tooling (linear). Of modelled parts: the bootstrap of the first BTTS history, the scheduled and one-shot callers of the
Premier League operations (linear, around the guarded acquisition), the retention of odds calendars, the readiness
consumer, the mount namespace of the Zen53 launcher, pacing of requests, the first installation of a host without a release. A file published by
hard link is one step, except where a module is about its directories (RunReceipts, AnalysisStore). Clocks are never set
back, except where the code defends against it. `PROJECT.json` says so per component.

## 7. Next

1. An abstract specification of the append-only evidence of EvidenceStore, of which OutcomeHistory is the pattern.
2. The read models of MCServing as theorems about the writers they replay.
