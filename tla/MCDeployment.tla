---------------------------- MODULE MCDeployment ----------------------------
(*****************************************************************************)
(* Small instances of what leads a commit to production: two overlapping     *)
(* deployments and a crash, the deployment statuses on GitHub, the trusted   *)
(* offline checks, the report of one validation and the validator on its     *)
(* host.                                                                     *)
(*****************************************************************************)
EXTENDS DeployController, TLC

CONSTANTS
    a1, a2, r1, r2

VARIABLES
    part,  \* the component this behaviour runs
    selected, stampAttempts, promoted, stampRunning, pending, deliveries,
    comments, offlineTip, green, jobs, queued, started, markers, status,
    unfinished, installed, host, reports, proved, invoked, posted, accepted,
    mode, stage, calls, answered, scenario, opens, upstream, failure, cached,
    listed, held, report, sha, validatorsTip, validatorsLock, parent, worker,
    podman, post, dirs, validatorsRunning, exited, validatorsListed, code,
    bound, asked, verdict, files, harness, installer, cache, validatorsProved,
    deaths

\* one commit run twice, or every reply that differs in the fields read
AllRaw ==
    {[status |-> s, requested |-> 1, previous |-> 0, final |-> f, fetched |-> fe, created |-> c,
      deps |-> d, tests |-> t, run |-> n, promotion |-> p, boundary |-> b, reason |-> r] :
       s \in {"PASS", "FAIL", "SUPERSEDED"}, f \in {0, 1, 2}, fe \in BOOLEAN, c \in BOOLEAN,
       d \in {"NOT_ATTEMPTED", "INSTALLED"}, t \in {"NOT_RUN", "PASS", "FAIL"}, n \in {0, 1},
       p \in {"NOT_ATTEMPTED", "PROMOTED", "ALREADY_CURRENT", "SUPERSEDED"}, b \in BOOLEAN,
       r \in {"OK", "ALREADY_CURRENT", "SUPERSEDED", "TESTS_FAILED", "ADMISSION_TARGET_SUPERSEDED"}}

\* commits with the same validators in their trees, with different ones, and
\* one alone
Same == [s \in {1, 2} |-> 1]
Own == [s \in {1, 2} |-> s]
Single == [s \in {1} |-> 1]

-----------------------------------------------------------------------------
\* Two attempts of one commit, three deliveries of their outcome; and every
\* reply.
Stamp == INSTANCE DeploymentStatus WITH
    Shas <- {1}, MaxAttempts <- 2, Raw <- {}, Comments <- TRUE,
    Deliveries <- 3, attempts <- stampAttempts, running <- stampRunning

Replies == INSTANCE DeploymentStatus WITH
    Shas <- {1}, MaxAttempts <- 1, Raw <- AllRaw, Comments <- FALSE,
    Deliveries <- 1, attempts <- stampAttempts, running <- stampRunning

\* The check of a pull request under two commits, of one while the workflow is
\* configured anew, and of a release.
Offline == INSTANCE TrustedOffline WITH
    Shas <- {1, 2}, Revision <- Same, Kinds <- {"auto", "comment"},
    Settings <- {"old"}, MaxAttempts <- 1, MaxJobs <- 2, tip <- offlineTip

Reconfigured == INSTANCE TrustedOffline WITH
    Shas <- {1}, Revision <- Single, Kinds <- {"auto"},
    Settings <- {"old", "new"}, MaxAttempts <- 1, MaxJobs <- 3,
    tip <- offlineTip

ReleaseCheck == INSTANCE TrustedOffline WITH
    Shas <- {1, 2}, Revision <- Own, Kinds <- {"release"}, Settings <- {},
    MaxAttempts <- 1, MaxJobs <- 2, tip <- offlineTip

\* One candidate in both modes.
Validation == INSTANCE ValidationReport WITH
    MaxCalls <- 3, MaxOpens <- 3

\* Two requests with a death and a moving branch; two while root installs;
\* one while root replaces two files.
Validators == INSTANCE ValidatorRuns WITH
    Runs <- {r1, r2}, Releases <- {r1}, Files <- {"pr", "evidence"},
    MaxMoves <- 1, MaxDeaths <- 1, Maintained <- FALSE, tip <- validatorsTip,
    lock <- validatorsLock, running <- validatorsRunning,
    listed <- validatorsListed, proved <- validatorsProved

Install == INSTANCE ValidatorRuns WITH
    MaxMoves <- 0, MaxDeaths <- 0, Maintained <- TRUE, Runs <- {a1, a2},
    Releases <- {a1, a2}, Files <- {"pr"}, tip <- validatorsTip,
    lock <- validatorsLock, running <- validatorsRunning,
    listed <- validatorsListed, proved <- validatorsProved

Replacing == INSTANCE ValidatorRuns WITH
    MaxMoves <- 0, MaxDeaths <- 0, Maintained <- TRUE, Runs <- {r1},
    Releases <- {r1}, Files <- {"pr", "evidence"}, tip <- validatorsTip,
    lock <- validatorsLock, running <- validatorsRunning,
    listed <- validatorsListed, proved <- validatorsProved

ASSUME PartsAreSound ==
    /\ Stamp!ConstantsAssumption
    /\ Replies!ConstantsAssumption
    /\ Offline!ConstantsAssumption
    /\ Reconfigured!ConstantsAssumption
    /\ ReleaseCheck!ConstantsAssumption
    /\ Validation!BoundsAssumption
    /\ Validators!ConstantsAssumption
    /\ Install!ConstantsAssumption
    /\ Replacing!ConstantsAssumption

-----------------------------------------------------------------------------
coreVars ==
    <<tip, current, releases, mounted, lock, marker, running, output, api,
      young, pc, job, attempts, crashes, tested, replaced>>
stampVars ==
    <<selected, stampAttempts, promoted, stampRunning, pending, deliveries,
      comments>>
offlineVars ==
    <<offlineTip, green, jobs, queued, started, markers, status, unfinished,
      installed, host, reports, proved, invoked, posted, accepted>>
validationVars ==
    <<mode, stage, calls, answered, scenario, opens, upstream, failure,
      cached, listed, held, report>>
validatorsVars ==
    <<sha, validatorsTip, validatorsLock, parent, worker, podman, post, dirs,
      validatorsRunning, exited, validatorsListed, code, bound, asked,
      verdict, files, harness, installer, cache, validatorsProved, deaths>>
suiteVars == <<part, coreVars, stampVars, offlineVars, validationVars,
               validatorsVars>>

(* Each behaviour runs one component; what the others would hold is 0.      *)
NoStamp ==
    /\ selected = 0 /\ stampAttempts = 0 /\ promoted = 0 /\ stampRunning = 0
    /\ pending = 0 /\ deliveries = 0 /\ comments = 0
NoOffline ==
    /\ offlineTip = 0 /\ green = 0 /\ jobs = 0 /\ queued = 0 /\ started = 0
    /\ markers = 0 /\ status = 0 /\ unfinished = 0 /\ installed = 0
    /\ host = 0 /\ reports = 0 /\ proved = 0 /\ invoked = 0 /\ posted = 0
    /\ accepted = 0
NoValidation ==
    /\ mode = 0 /\ stage = 0 /\ calls = 0 /\ answered = 0 /\ scenario = 0
    /\ opens = 0 /\ upstream = 0 /\ failure = 0 /\ cached = 0 /\ listed = 0
    /\ held = 0 /\ report = 0
NoValidators ==
    /\ sha = 0 /\ validatorsTip = 0 /\ validatorsLock = 0 /\ parent = 0
    /\ worker = 0 /\ podman = 0 /\ post = 0 /\ dirs = 0
    /\ validatorsRunning = 0 /\ exited = 0 /\ validatorsListed = 0 /\ code = 0
    /\ bound = 0 /\ asked = 0 /\ verdict = 0 /\ files = 0 /\ harness = 0
    /\ installer = 0 /\ cache = 0 /\ validatorsProved = 0 /\ deaths = 0

SuiteInit ==
    /\ Init
    /\ \/ /\ part = "deployment"
          /\ NoStamp /\ NoOffline /\ NoValidation /\ NoValidators
       \/ /\ part = "status" /\ Stamp!Init
          /\ NoOffline /\ NoValidation /\ NoValidators
       \/ /\ part = "replies" /\ Replies!Init
          /\ NoOffline /\ NoValidation /\ NoValidators
       \/ /\ part = "offline" /\ Offline!Init
          /\ NoStamp /\ NoValidation /\ NoValidators
       \/ /\ part = "reconfigured" /\ Reconfigured!Init
          /\ NoStamp /\ NoValidation /\ NoValidators
       \/ /\ part = "release" /\ ReleaseCheck!Init
          /\ NoStamp /\ NoValidation /\ NoValidators
       \/ /\ part = "validation" /\ Validation!Init
          /\ NoStamp /\ NoOffline /\ NoValidators
       \/ /\ part = "validators" /\ Validators!Init
          /\ NoStamp /\ NoOffline /\ NoValidation
       \/ /\ part = "install" /\ Install!Init
          /\ NoStamp /\ NoOffline /\ NoValidation
       \/ /\ part = "replace" /\ Replacing!Init
          /\ NoStamp /\ NoOffline /\ NoValidation

SuiteNext ==
    \/ /\ part = "deployment" /\ Next
       /\ UNCHANGED <<part, stampVars, offlineVars, validationVars,
                      validatorsVars>>
    \/ /\ part = "status" /\ Stamp!Next
       /\ UNCHANGED <<part, coreVars, offlineVars, validationVars,
                      validatorsVars>>
    \/ /\ part = "replies" /\ Replies!Next
       /\ UNCHANGED <<part, coreVars, offlineVars, validationVars,
                      validatorsVars>>
    \/ /\ part = "offline" /\ Offline!Next
       /\ UNCHANGED <<part, coreVars, stampVars, validationVars,
                      validatorsVars>>
    \/ /\ part = "reconfigured" /\ Reconfigured!Next
       /\ UNCHANGED <<part, coreVars, stampVars, validationVars,
                      validatorsVars>>
    \/ /\ part = "release" /\ ReleaseCheck!Next
       /\ UNCHANGED <<part, coreVars, stampVars, validationVars,
                      validatorsVars>>
    \/ /\ part = "validation" /\ Validation!Next
       /\ UNCHANGED <<part, coreVars, stampVars, offlineVars, validatorsVars>>
    \/ /\ part = "validators" /\ Validators!Next
       /\ UNCHANGED <<part, coreVars, stampVars, offlineVars, validationVars>>
    \/ /\ part = "install" /\ Install!Next
       /\ UNCHANGED <<part, coreVars, stampVars, offlineVars, validationVars>>
    \/ /\ part = "replace" /\ Replacing!Next
       /\ UNCHANGED <<part, coreVars, stampVars, offlineVars, validationVars>>

SuiteSpec == SuiteInit /\ [][SuiteNext]_suiteVars

\* only what a part quantifies over is permuted
Symmetry ==
    Permutations({a1, a2})

-----------------------------------------------------------------------------
\* SUCCESS is said only of an attempt that itself selected the commit; the job and the
\* observer apply one policy; a pull request has one stamped comment, which only
\* advances and says what its attempt says.  A CI attempt reaches the host at most
\* once under one revision and configuration; a status stands on a commit that was the head and passed; what is pending will
\* be answered; and a release passes only under the validator it carries.
StatusesAreTrue ==
    /\ [](/\ part = "status" =>
                /\ Stamp!TypeOK /\ Stamp!SuccessMeansSelected /\ Stamp!OneComment /\ Stamp!CommentsTrue
          /\ part = "replies" => Replies!SanitizedReadable
          /\ part = "offline" =>
                /\ Offline!TypeOK /\ Offline!OneRunPerRequest /\ Offline!SuccessEarned
                /\ Offline!StatusOnHead /\ Offline!PendingAnswered
          /\ part = "reconfigured" => Reconfigured!OneRunPerRequest
          /\ part = "release" => ReleaseCheck!ReleaseProved)
    /\ [][part = "status" => Stamp!CommentsAdvance]_suiteVars

\* A PASS of the validator is earned by a container that ran this commit under an
\* unmixed installation, and so is the evidence kept for reuse; the harness, the worker
\* and the two later readers accept each other's reports; a failed relay tells and never
\* sends more than its budget; nothing of a run is left once its parent has
\* printed and told no failed clean-up or changed installation, and files change while
\* no worker is at work.
ValidationIsEarned ==
    /\ [](/\ part = "validation" =>
                /\ Validation!TypeOK /\ Validation!HarnessReportsAccepted
                /\ Validation!WorkerReportsAccepted /\ Validation!PassIsEarned
                /\ Validation!PoliciesAgree /\ Validation!RelayFailureTells
          /\ part = "validators" =>
                Validators!PassIsReal /\ Validators!CacheIsReal /\ Validators!NothingLeft
          /\ part = "install" =>
                Install!TypeOK /\ Install!PassIsReal /\ Install!CacheIsReal /\ Install!NothingLeft
          /\ part = "replace" => Replacing!PassIsReal /\ Replacing!MixedNeverPasses)
    /\ [][/\ part = "validation" => Validation!RelayFrugal
          /\ part = "install" => Install!InstallExcludesWorkers]_suiteVars
=============================================================================
