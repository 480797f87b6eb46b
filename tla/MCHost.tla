------------------------------- MODULE MCHost -------------------------------
(*****************************************************************************)
(* Small instances of the work on the host: the storage preparation, the     *)
(* bridge from a conversation to a worker, the bounded task, the supervised  *)
(* native diagnostic, the approval of one run and the capture under all      *)
(* locks.                                                                    *)
(*****************************************************************************)
EXTENDS StoragePreparation, TLC

CONSTANTS
    a1, a2, a3, a4, l1, l2

VARIABLES
    part,  \* the component this behaviour runs
    now, main, mirror, thread, comments, receipts, poll, publications, posts,
    bridgeEvidence, at, sent, lastRead, withdrawn, faults, storage, binary,
    files, unit, checkout, call, starts, ranOn, ranWith, taskFaults,
    diagnosticNow, sup, held, busy, prod, timer, logs, sealed, links, child,
    diagnosticUnit, diagnosticStep, native, mem, disk, expired, attempts,
    root, op, audit, output, scope, losses, release, broken, lock, replaced,
    worker, changes, oneCaptureNow, oneCaptureTimer, oneCaptureScope, parent,
    host, inner, told, finish, wrote, oneCaptureDisk, oneCaptureStep, overlap

\* two comments name the same job
SharedJob == [c \in {"c1", "c2"} |-> "j1"]
Lasting == [c \in {"c1", "c2"} |-> IF c = "c2" THEN 4 ELSE 3]

-----------------------------------------------------------------------------
\* Two comments of one job, an edit, a fault and every status of a job.
Bridge == INSTANCE WorkerBridge WITH
    Comments <- {"c1", "c2"}, Jobs <- {"j1"}, JobOf <- SharedJob,
    Expires <- Lasting, Day <- 2, Horizon <- 3, MaxMoves <- 1, MaxFaults <- 1,
    evidence <- bridgeEvidence

\* Three calls of one task, before and after it was stored.
Task == INSTANCE BoundedTask WITH
    Callers <- {a1, a2, a3}, Tasks <- {"t1"}, Edits <- {l1, l2},
    Stored <- FALSE, MaxFaults <- 2, faults <- taskFaults

StoredTask == INSTANCE BoundedTask WITH
    Callers <- {a1, a2, a3}, Tasks <- {"t1"}, Edits <- {l1, l2},
    Stored <- TRUE, MaxFaults <- 3, faults <- taskFaults

\* A supervised run with a production timer six steps away.
Diagnostic == INSTANCE NativeDiagnostic WITH
    Lease <- 1, Wait <- 2, Limit <- 4, Native <- 2, Margin <- 3,
    Timers <- {6}, MaxTime <- 7, now <- diagnosticNow, unit <- diagnosticUnit,
    step <- diagnosticStep

\* Two operators, two attempts and a loss of power.
Approval == INSTANCE RunApproval WITH
    Nonces <- {"n1"}, Operators <- {a1, a2}, MaxAttempts <- 2, MaxLosses <- 1

\* A capture under the locks of two workers, with drifts and one change.
OneCapture == INSTANCE OwnerCapture WITH
    Workers <- {l1, l2}, Wall <- 2, Margin <- 1, Timers <- {3, 4},
    Drifting <- {"units"}, MaxChanges <- 1, now <- oneCaptureNow,
    timer <- oneCaptureTimer, scope <- oneCaptureScope,
    disk <- oneCaptureDisk, step <- oneCaptureStep

ASSUME PartsAreSound ==
    /\ Bridge!BridgeConstants
    /\ Task!TaskConstants
    /\ StoredTask!TaskConstants
    /\ Diagnostic!DiagnosticConstants
    /\ Approval!ApprovalConstants
    /\ OneCapture!CaptureConstants

-----------------------------------------------------------------------------
coreVars ==
    <<boot, holder, effects, unresolved, fstab, evidence, step, surviving,
      stops, edits>>
bridgeVars ==
    <<now, main, mirror, thread, comments, receipts, poll, publications,
      posts, bridgeEvidence, at, sent, lastRead, withdrawn, faults>>
taskVars ==
    <<storage, binary, files, unit, checkout, call, starts, ranOn, ranWith,
      taskFaults>>
diagnosticVars ==
    <<diagnosticNow, sup, held, busy, prod, timer, logs, sealed, links, child,
      diagnosticUnit, diagnosticStep, native>>
approvalVars ==
    <<mem, disk, expired, attempts, root, op, audit, output, scope, losses>>
oneCaptureVars ==
    <<release, broken, lock, replaced, worker, changes, oneCaptureNow,
      oneCaptureTimer, oneCaptureScope, parent, host, inner, told, finish,
      wrote, oneCaptureDisk, oneCaptureStep, overlap>>
suiteVars == <<part, coreVars, bridgeVars, taskVars, diagnosticVars,
               approvalVars, oneCaptureVars>>

(* Each behaviour runs one component; what the others would hold is 0.      *)
NoBridge ==
    /\ now = 0 /\ main = 0 /\ mirror = 0 /\ thread = 0 /\ comments = 0
    /\ receipts = 0 /\ poll = 0 /\ publications = 0 /\ posts = 0
    /\ bridgeEvidence = 0 /\ at = 0 /\ sent = 0 /\ lastRead = 0
    /\ withdrawn = 0 /\ faults = 0
NoTask ==
    /\ storage = 0 /\ binary = 0 /\ files = 0 /\ unit = 0 /\ checkout = 0
    /\ call = 0 /\ starts = 0 /\ ranOn = 0 /\ ranWith = 0 /\ taskFaults = 0
NoDiagnostic ==
    /\ diagnosticNow = 0 /\ sup = 0 /\ held = 0 /\ busy = 0 /\ prod = 0
    /\ timer = 0 /\ logs = 0 /\ sealed = 0 /\ links = 0 /\ child = 0
    /\ diagnosticUnit = 0 /\ diagnosticStep = 0 /\ native = 0
NoApproval ==
    /\ mem = 0 /\ disk = 0 /\ expired = 0 /\ attempts = 0 /\ root = 0
    /\ op = 0 /\ audit = 0 /\ output = 0 /\ scope = 0 /\ losses = 0
NoOneCapture ==
    /\ release = 0 /\ broken = 0 /\ lock = 0 /\ replaced = 0 /\ worker = 0
    /\ changes = 0 /\ oneCaptureNow = 0 /\ oneCaptureTimer = 0
    /\ oneCaptureScope = 0 /\ parent = 0 /\ host = 0 /\ inner = 0 /\ told = 0
    /\ finish = 0 /\ wrote = 0 /\ oneCaptureDisk = 0 /\ oneCaptureStep = 0
    /\ overlap = 0

SuiteInit ==
    /\ Init
    /\ \/ /\ part = "storage"
          /\ NoBridge /\ NoTask /\ NoDiagnostic /\ NoApproval
          /\ NoOneCapture
       \/ /\ part = "bridge" /\ Bridge!Init
          /\ NoTask /\ NoDiagnostic /\ NoApproval /\ NoOneCapture
       \/ /\ part = "task" /\ Task!Init
          /\ NoBridge /\ NoDiagnostic /\ NoApproval /\ NoOneCapture
       \/ /\ part = "stored task" /\ StoredTask!Init
          /\ NoBridge /\ NoDiagnostic /\ NoApproval /\ NoOneCapture
       \/ /\ part = "diagnostic" /\ Diagnostic!Init
          /\ NoBridge /\ NoTask /\ NoApproval /\ NoOneCapture
       \/ /\ part = "approval" /\ Approval!Init
          /\ NoBridge /\ NoTask /\ NoDiagnostic /\ NoOneCapture
       \/ /\ part = "capture" /\ OneCapture!Init
          /\ NoBridge /\ NoTask /\ NoDiagnostic /\ NoApproval

SuiteNext ==
    \/ /\ part = "storage" /\ Next
       /\ UNCHANGED <<part, bridgeVars, taskVars, diagnosticVars,
                      approvalVars, oneCaptureVars>>
    \/ /\ part = "bridge" /\ Bridge!Next
       /\ UNCHANGED <<part, coreVars, taskVars, diagnosticVars, approvalVars,
                      oneCaptureVars>>
    \/ /\ part = "task" /\ Task!Next
       /\ UNCHANGED <<part, coreVars, bridgeVars, diagnosticVars,
                      approvalVars, oneCaptureVars>>
    \/ /\ part = "stored task" /\ StoredTask!Next
       /\ UNCHANGED <<part, coreVars, bridgeVars, diagnosticVars,
                      approvalVars, oneCaptureVars>>
    \/ /\ part = "diagnostic" /\ Diagnostic!Next
       /\ UNCHANGED <<part, coreVars, bridgeVars, taskVars, approvalVars,
                      oneCaptureVars>>
    \/ /\ part = "approval" /\ Approval!Next
       /\ UNCHANGED <<part, coreVars, bridgeVars, taskVars, diagnosticVars,
                      oneCaptureVars>>
    \/ /\ part = "capture" /\ OneCapture!Next
       /\ UNCHANGED <<part, coreVars, bridgeVars, taskVars, diagnosticVars,
                      approvalVars>>

SuiteSpec == SuiteInit /\ [][SuiteNext]_suiteVars

\* only what a part quantifies over is permuted
Symmetry ==
    Permutations({a1, a2}) \cup Permutations({a3, a4}) \cup
    Permutations({l1, l2})

-----------------------------------------------------------------------------
\* A worker never runs without a receipt, a draft or a commit is never requested twice,
\* an edited command is not carried out, what the conversation is told is true, and an
\* uncertain control stops everything.  A task is started once, its unit recorded, and
\* what was reported of it once is what is always reported.
WorkIsAccountedFor ==
    /\ [](/\ part = "bridge" =>
                /\ Bridge!TypeOK /\ Bridge!ReceiptsAreTrue /\ Bridge!EditsAreHonoured
                /\ Bridge!WritesAreNeverRepeated /\ Bridge!StatusesAreTrue
          /\ part = "task" =>
                /\ Task!TypeOK /\ Task!StartedOnce /\ Task!UnitsAreRecorded
                /\ Task!ResultsAreFinal /\ Task!ResultsAreBound
          /\ part = "stored task" => StoredTask!ResultsAreFinal /\ StoredTask!ResultsAreBound)
    /\ [][/\ part = "bridge" => Bridge!FailClosed /\ Bridge!PollsAreSpaced
          /\ part = "task" => Task!ResultsStay]_suiteVars

\* The diagnostic runs under both locks, clear of every timer, released in time, and its
\* pass is earned; a scope runs only for a claimed, unretired approval whose intent is in
\* the audit, once, and the approval outlives a loss of power; a capture that ends well
\* excluded every worker, kept clear of the timers and left what it read on the disk.
OperationsAreAdmitted ==
    /\ [](/\ part = "diagnostic" =>
                /\ Diagnostic!TypeOK /\ Diagnostic!UnitUnderLocks /\ Diagnostic!NativeClearOfTimers
                /\ Diagnostic!NativeIsReleased /\ Diagnostic!ReleaseAdmitted /\ Diagnostic!PassIsEarned
          /\ part = "approval" =>
                /\ Approval!TypeOK /\ Approval!ScopeIsClaimed /\ Approval!TombstoneExcludesScope
                /\ Approval!RetiredIsOver /\ Approval!AuditPrecedesScope
          /\ part = "capture" =>
                /\ OneCapture!TypeOK /\ OneCapture!BracketIsTight /\ OneCapture!ResultIsExclusive
                /\ OneCapture!LocksCoverCollectors /\ OneCapture!ProductionClear
                /\ OneCapture!MarkerIsDurable)
    /\ [][/\ part = "diagnostic" => Diagnostic!StageIsEvidence
          /\ part = "approval" => Approval!ApprovalSurvives /\ Approval!ApprovedOnce]_suiteVars
=============================================================================
