------------------------------- MODULE MCEnds -------------------------------
(*****************************************************************************)
(* What must happen in the end, on small instances: a stale budget is rolled *)
(* over, deployment attempts and calls of the analysis store end, evidence   *)
(* is completed, forecasts are settled, the capture gives its locks back and *)
(* what a validator run created is removed.                                  *)
(*****************************************************************************)
EXTENDS ProspectiveBudget, Sequences, TLC

CONSTANTS
    None, r1, r2, m1, s1, s2

VARIABLES
    part,  \* the component this behaviour runs
    tip, current, releases, mounted, deploymentLock, marker, running, output,
    api, young, deploymentPc, job, attempts, crashes, tested, replaced, now,
    release, captures, observed, predictions, targets, opportunities, stamps,
    shadows, decisions, run, storeCrashes, conflict, saved, granted,
    lockGrant, leftover, holder, analysisPc, call, built, builds,
    analysisCrashes, seen, reads, answers, refused, settlementNow, kickoff,
    files, forecasts, outcomes, corrections, locked, receipts, settlementPc,
    settlementRun, settlementCrashes, oneCaptureRelease, broken,
    oneCaptureLock, oneCaptureReplaced, worker, changes, oneCaptureNow, timer,
    scope, parent, host, inner, told, finish, wrote, disk, step, overlap, sha,
    validatorsTip, validatorsLock, validatorsParent, validatorsWorker, podman,
    post, dirs, validatorsRunning, exited, listed, code, bound, asked,
    verdict, validatorsFiles, harness, installer, cache, proved, deaths

\* no line, or two of which one has a fair price
Quote(lines, fair) == [lines |-> lines, fair |-> fair]
Few == {Quote({}, {}), Quote({"l1", "l2"}, {"l2"})}

-----------------------------------------------------------------------------
Deployment == INSTANCE DeployController WITH
    Controllers <- {r1, r2}, Commits <- {1, 2}, MaxAttempts <- 1,
    MaxCrashes <- 1, lock <- deploymentLock, pc <- deploymentPc

Store == INSTANCE EvidenceStore WITH
    Lines <- {"l1", "l2"}, TeamLines <- {"l1", "l2"}, Listings <- Few,
    Runs <- {r1}, Kickoff <- 2, Operator <- TRUE, MaxReleases <- 1,
    MaxCrashes <- 1, crashes <- storeCrashes

Analysis == INSTANCE AnalysisStore WITH
    Clients <- {r1, r2}, Keys <- {"k1"}, Requests <- {s1, s2},
    Readers <- {m1}, Evidence <- TRUE, MaxBuilds <- 2, MaxCrashes <- 1,
    MaxReads <- 1, pc <- analysisPc, crashes <- analysisCrashes

Settlement == INSTANCE ResearchSettlement WITH
    Matches <- {m1}, Kickoffs <- {1}, Scores <- {s1, s2}, Timer <- {r1},
    Sweeps <- {}, Reviewers <- {}, Horizon <- 2, MaxFiles <- 2,
    MaxCrashes <- 1, now <- settlementNow, pc <- settlementPc,
    run <- settlementRun, crashes <- settlementCrashes

OneCapture == INSTANCE OwnerCapture WITH
    Workers <- {"deploy"}, Wall <- 2, Margin <- 1, Timers <- {4},
    Drifting <- {}, MaxChanges <- 0, release <- oneCaptureRelease,
    lock <- oneCaptureLock, replaced <- oneCaptureReplaced,
    now <- oneCaptureNow

Validators == INSTANCE ValidatorRuns WITH
    Runs <- {r1, r2}, Releases <- {r1}, Files <- {"pr"}, MaxMoves <- 0,
    MaxDeaths <- 2, Maintained <- FALSE, tip <- validatorsTip,
    lock <- validatorsLock, parent <- validatorsParent,
    worker <- validatorsWorker, running <- validatorsRunning,
    files <- validatorsFiles

ASSUME PartsAreSound ==
    /\ Store!EvidenceConstants
    /\ Analysis!StoreConstants
    /\ Settlement!SettlementConstants
    /\ OneCapture!CaptureConstants
    /\ Validators!ConstantsAssumption

-----------------------------------------------------------------------------
coreVars ==
    <<today, control, events, lock, pc, mem, plan, guard, rolls, failures,
      spent, monthSent, wholeMonth>>
deploymentVars ==
    <<tip, current, releases, mounted, deploymentLock, marker, running,
      output, api, young, deploymentPc, job, attempts, crashes, tested,
      replaced>>
storeVars ==
    <<now, release, captures, observed, predictions, targets, opportunities,
      stamps, shadows, decisions, run, storeCrashes, conflict>>
analysisVars ==
    <<saved, granted, lockGrant, leftover, holder, analysisPc, call, built,
      builds, analysisCrashes, seen, reads, answers, refused>>
settlementVars ==
    <<settlementNow, kickoff, files, forecasts, outcomes, corrections, locked,
      receipts, settlementPc, settlementRun, settlementCrashes>>
oneCaptureVars ==
    <<oneCaptureRelease, broken, oneCaptureLock, oneCaptureReplaced, worker,
      changes, oneCaptureNow, timer, scope, parent, host, inner, told, finish,
      wrote, disk, step, overlap>>
validatorsVars ==
    <<sha, validatorsTip, validatorsLock, validatorsParent, validatorsWorker,
      podman, post, dirs, validatorsRunning, exited, listed, code, bound,
      asked, verdict, validatorsFiles, harness, installer, cache, proved,
      deaths>>
suiteVars == <<part, coreVars, deploymentVars, storeVars, analysisVars,
               settlementVars, oneCaptureVars, validatorsVars>>

(* Each behaviour runs one component; what the others would hold is 0.      *)
NoDeployment ==
    /\ tip = 0 /\ current = 0 /\ releases = 0 /\ mounted = 0
    /\ deploymentLock = 0 /\ marker = 0 /\ running = 0 /\ output = 0
    /\ api = 0 /\ young = 0 /\ deploymentPc = 0 /\ job = 0 /\ attempts = 0
    /\ crashes = 0 /\ tested = 0 /\ replaced = 0
NoStore ==
    /\ now = 0 /\ release = 0 /\ captures = 0 /\ observed = 0
    /\ predictions = 0 /\ targets = 0 /\ opportunities = 0 /\ stamps = 0
    /\ shadows = 0 /\ decisions = 0 /\ run = 0 /\ storeCrashes = 0
    /\ conflict = 0
NoAnalysis ==
    /\ saved = 0 /\ granted = 0 /\ lockGrant = 0 /\ leftover = 0 /\ holder = 0
    /\ analysisPc = 0 /\ call = 0 /\ built = 0 /\ builds = 0
    /\ analysisCrashes = 0 /\ seen = 0 /\ reads = 0 /\ answers = 0
    /\ refused = 0
NoSettlement ==
    /\ settlementNow = 0 /\ kickoff = 0 /\ files = 0 /\ forecasts = 0
    /\ outcomes = 0 /\ corrections = 0 /\ locked = 0 /\ receipts = 0
    /\ settlementPc = 0 /\ settlementRun = 0 /\ settlementCrashes = 0
NoOneCapture ==
    /\ oneCaptureRelease = 0 /\ broken = 0 /\ oneCaptureLock = 0
    /\ oneCaptureReplaced = 0 /\ worker = 0 /\ changes = 0
    /\ oneCaptureNow = 0 /\ timer = 0 /\ scope = 0 /\ parent = 0 /\ host = 0
    /\ inner = 0 /\ told = 0 /\ finish = 0 /\ wrote = 0 /\ disk = 0
    /\ step = 0 /\ overlap = 0
NoValidators ==
    /\ sha = 0 /\ validatorsTip = 0 /\ validatorsLock = 0
    /\ validatorsParent = 0 /\ validatorsWorker = 0 /\ podman = 0 /\ post = 0
    /\ dirs = 0 /\ validatorsRunning = 0 /\ exited = 0 /\ listed = 0
    /\ code = 0 /\ bound = 0 /\ asked = 0 /\ verdict = 0
    /\ validatorsFiles = 0 /\ harness = 0 /\ installer = 0 /\ cache = 0
    /\ proved = 0 /\ deaths = 0

SuiteInit ==
    /\ Init
    /\ \/ /\ part = "budget"
          /\ NoDeployment /\ NoStore /\ NoAnalysis /\ NoSettlement
          /\ NoOneCapture /\ NoValidators
       \/ /\ part = "deployment" /\ Deployment!Init
          /\ NoStore /\ NoAnalysis /\ NoSettlement /\ NoOneCapture
          /\ NoValidators
       \/ /\ part = "evidence" /\ Store!Init
          /\ NoDeployment /\ NoAnalysis /\ NoSettlement /\ NoOneCapture
          /\ NoValidators
       \/ /\ part = "analysis" /\ Analysis!Init
          /\ NoDeployment /\ NoStore /\ NoSettlement /\ NoOneCapture
          /\ NoValidators
       \/ /\ part = "settlement" /\ Settlement!Init
          /\ NoDeployment /\ NoStore /\ NoAnalysis /\ NoOneCapture
          /\ NoValidators
       \/ /\ part = "capture" /\ OneCapture!Init
          /\ NoDeployment /\ NoStore /\ NoAnalysis /\ NoSettlement
          /\ NoValidators
       \/ /\ part = "validators" /\ Validators!Init
          /\ NoDeployment /\ NoStore /\ NoAnalysis /\ NoSettlement
          /\ NoOneCapture

SuiteNext ==
    \/ /\ part = "budget" /\ Next
       /\ UNCHANGED <<part, deploymentVars, storeVars, analysisVars,
                      settlementVars, oneCaptureVars, validatorsVars>>
    \/ /\ part = "deployment" /\ Deployment!Next
       /\ UNCHANGED <<part, coreVars, storeVars, analysisVars,
                      settlementVars, oneCaptureVars, validatorsVars>>
    \/ /\ part = "evidence" /\ Store!Next
       /\ UNCHANGED <<part, coreVars, deploymentVars, analysisVars,
                      settlementVars, oneCaptureVars, validatorsVars>>
    \/ /\ part = "analysis" /\ Analysis!Next
       /\ UNCHANGED <<part, coreVars, deploymentVars, storeVars,
                      settlementVars, oneCaptureVars, validatorsVars>>
    \/ /\ part = "settlement" /\ Settlement!Next
       /\ UNCHANGED <<part, coreVars, deploymentVars, storeVars,
                      analysisVars, oneCaptureVars, validatorsVars>>
    \/ /\ part = "capture" /\ OneCapture!Next
       /\ UNCHANGED <<part, coreVars, deploymentVars, storeVars,
                      analysisVars, settlementVars, validatorsVars>>
    \/ /\ part = "validators" /\ Validators!Next
       /\ UNCHANGED <<part, coreVars, deploymentVars, storeVars,
                      analysisVars, settlementVars, oneCaptureVars>>

SuiteSpec == SuiteInit /\ [][SuiteNext]_suiteVars

-----------------------------------------------------------------------------
\* A started attempt, call, deadline or service goes on, and the timers start runs;
\* each assumption is about the component that the behaviour runs.
FairSpec ==
    /\ SuiteSpec
    /\ WF_coreVars(part = "budget" /\ \E p \in Runners : StartRun(p))
    /\ \A p \in Runners : WF_coreVars(part = "budget" /\ Progress(p))
    /\ \A d \in {r1, r2} : WF_deploymentVars(part = "deployment" /\ Deployment!Step(d))
    /\ WF_storeVars(part = "evidence" /\ Store!Start(r1))
    /\ WF_storeVars(part = "evidence" /\ Store!Step(r1))
    /\ \A c \in {r1, r2} : WF_analysisVars(part = "analysis" /\ Analysis!Step(c))
    /\ WF_analysisVars(part = "analysis" /\ Analysis!ReadUnlock(m1))
    /\ WF_settlementVars(part = "settlement" /\ Settlement!Start(r1))
    /\ SF_settlementVars(part = "settlement" /\ Settlement!Evidence(r1))
    /\ WF_settlementVars(part = "settlement" /\ Settlement!Sweeping(r1))
    /\ WF_oneCaptureVars(part = "capture" /\ OneCapture!Tick)
    /\ WF_oneCaptureVars(part = "capture" /\ OneCapture!ScopeKill)
    /\ WF_validatorsVars(part = "validators" /\ \E r \in {r1, r2} : Validators!GoesOn(r))

\* What was started is finished: a deployment attempt and a call of the analysis store
\* (one of two that are interchangeable) have ended, each capture of odds is assessed,
\* each forecast whose match has a result is settled, the locks are back and what a
\* validator run created is removed, unless two processes died or failed.
Finished ==
    /\ part = "deployment" => deploymentPc[r1] = "idle"
    /\ part = "analysis" => analysisPc[r1] = "idle"
    /\ part = "evidence" =>
          \A by \in {"collector", "operator"} :
             (\E c \in captures : c.by = by) => \E c \in captures : c.by = by /\ Store!Assessed(c)
    /\ part = "settlement" =>
          \A market \in Settlement!Markets, fixture \in Settlement!Fixture :
             Settlement!Of(Settlement!Inventory(market), fixture) # {} /\ Settlement!Stated(Len(files), fixture)
                => outcomes[<<market, fixture>>] # None
    /\ part = "capture" => \A w \in {"deploy"} : oneCaptureLock[w] # "capture"
    /\ part = "validators" => \A r \in {r1, r2} : Validators!Removed(r)

\* Whatever dies where, the work of each component is finished again and again.
WorkIsFinished == []<>Finished
=============================================================================
