--------------------------- MODULE DeployController ---------------------------
(***************************************************************************)
(* The installed deployment controller (ops/vps/deploy_main.py) and what   *)
(* it shares with systemd, the acquisition mount and the read-only API: a  *)
(* requested commit of main is fetched, installed and tested in units of   *)
(* its own, published by replacing one symlink, and adopted by the API or  *)
(* taken back.  Controllers may overlap and die at any step.               *)
(***************************************************************************)
EXTENDS Naturals

CONSTANTS
    Controllers,   \* invocations of deploy
    Commits,       \* the commits of main are 1 .. tip; the others are not merged yet
    MaxAttempts,   \* bound: candidates (the nonce of release_id)
    MaxCrashes,    \* bound
    None

ASSUME DeployConstants ==
    /\ Commits \subseteq Nat /\ 1 \in Commits
    /\ MaxAttempts \in Nat /\ MaxCrashes \in Nat

\* <sha>-<nonce>
Release == [sha: Commits, attempt: 0 .. MaxAttempts]
Kinds == {"fetch", "install", "test"}
Unit == [kind: Kinds, release: Release]
Result == [release: Release, ok: BOOLEAN]
Installed == [sha |-> 1, attempt |-> 0]

ASSUME DeployNone == None \notin Controllers \cup Release \cup Unit \cup Result

VARIABLES
    tip,        \* refs/heads/main
    current,    \* the target of /srv/modelfc/current
    releases,   \* the directories under /srv/modelfc/releases
    mounted,    \* the release_id of the acquisition tmpfs
    lock,       \* deploy.lock
    marker,     \* service-pending.json
    running,    \* the unit that systemd executes
    output,     \* the result file of the last unit
    api,        \* the release the API process is pinned to, None while it restarts
    young,      \* the API is not older than ADMISSION_MAX_AGE_NS
    pc, job,    \* per controller
    attempts, crashes,
    \* observations of the environment, read by no action
    tested,     \* releases whose complete test run succeeded
    replaced    \* the release that the last publication replaced

disk == <<current, releases, mounted>>
unit == <<marker, running, output>>
serving == <<api, young>>
observed == <<tested, replaced>>
vars == <<tip, disk, lock, unit, serving, pc, job, attempts, crashes, observed>>

NoJob == [sha |-> 1, active |-> None, candidate |-> None, replaced |-> None,
          published |-> FALSE, recovery |-> "NOT_ATTEMPTED", status |-> "FAIL"]

Init ==
    /\ tip = 1
    /\ current = Installed
    /\ releases = {Installed}
    /\ mounted = None
    /\ lock = None
    /\ marker = None /\ running = None /\ output = None
    /\ api = Installed /\ young = TRUE
    /\ pc = [d \in Controllers |-> "idle"]
    /\ job = [d \in Controllers |-> NoJob]
    /\ attempts = 0 /\ crashes = 0
    /\ tested = {Installed} /\ replaced = None

-----------------------------------------------------------------------------
(* Environment                                                             *)

Merge ==
    /\ tip + 1 \in Commits
    /\ tip' = tip + 1
    /\ UNCHANGED <<disk, lock, unit, serving, pc, job, attempts, crashes, observed>>

\* staged_acquisition: the commit is on main and not behind the active one
Acquirable(r) == r.sha <= tip /\ current.sha < r.sha

\* a unit runs to its end, or to its deadline, and leaves its result
Ends(kind, ok) ==
    /\ running # None /\ running.kind = kind
    /\ output' = [release |-> running.release, ok |-> ok]
    /\ running' = None
    /\ UNCHANGED <<tip, disk, lock, marker, serving, pc, job, attempts, crashes, replaced>>

FetchEnds ==
    \E ok \in BOOLEAN :
       /\ Ends("fetch", ok) /\ (ok => Acquirable(running.release))
       /\ UNCHANGED tested
InstallEnds == \E ok \in BOOLEAN : Ends("install", ok) /\ UNCHANGED tested
TestsEnd ==
    \E ok \in BOOLEAN :
       /\ Ends("test", ok)
       /\ tested' = IF ok THEN tested \cup {running.release} ELSE tested

UnitEnds == FetchEnds \/ InstallEnds \/ TestsEnd

\* RuntimeMaxSec, Restart=always; the working directory is resolved at the start
Rotate(release, fresh) ==
    /\ api' = release /\ young' = fresh
    /\ UNCHANGED <<tip, disk, lock, unit, pc, job, attempts, crashes, observed>>

ApiExits == api # None /\ Rotate(None, young)
ApiStarts == api = None /\ Rotate(current, TRUE)
ApiAges == api # None /\ young /\ Rotate(api, FALSE)

\* an administrator unmounts what a crash left, once nothing acquires
AdminUnmounts ==
    /\ mounted # None /\ lock = None /\ running = None
    /\ mounted' = None
    /\ UNCHANGED <<tip, current, releases, lock, unit, serving, pc, job, attempts, crashes,
                   observed>>

-----------------------------------------------------------------------------
(* One invocation of deploy                                                *)

Goto(d, step) == pc' = [pc EXCEPT ![d] = step]

\* the with statement ends: the lock is released before the cleanup
End(d, status) ==
    /\ Goto(d, "unlock")
    /\ job' = [job EXCEPT ![d].status = status]

Return(d) ==
    /\ Goto(d, "idle")
    /\ job' = [job EXCEPT ![d] = NoJob]

\* the branch may have moved since the request
IsTip(d) == tip = job[d].sha
Continue(d, step) ==
    IF IsTip(d) THEN Goto(d, step) /\ UNCHANGED job ELSE End(d, "SUPERSEDED")

Request(d) ==
    /\ pc[d] = "idle"
    /\ \E sha \in Commits : job' = [job EXCEPT ![d].sha = sha]
    /\ Goto(d, "lock")
    /\ UNCHANGED <<tip, disk, lock, unit, serving, attempts, crashes, observed>>

MutantLockFree == TRUE
LockFree == lock = None

\* DEPLOYMENT_BUSY
Busy(d) ==
    /\ pc[d] = "lock" /\ ~LockFree
    /\ Return(d)
    /\ UNCHANGED <<tip, disk, lock, unit, serving, attempts, crashes, observed>>

Lock(d) ==
    /\ pc[d] = "lock" /\ LockFree
    /\ lock' = d
    /\ Goto(d, IF marker = None THEN "compare" ELSE "recover")
    /\ UNCHANGED <<tip, disk, unit, serving, job, attempts, crashes, observed>>

AlreadyCurrent(d) ==
    /\ pc[d] = "compare" /\ current.sha = job[d].sha
    /\ IF IsTip(d)
       THEN /\ job' = [job EXCEPT ![d].active = current, ![d].candidate = current]
            /\ Goto(d, "handoff")
       ELSE End(d, "SUPERSEDED")
    /\ UNCHANGED <<tip, disk, lock, unit, serving, attempts, crashes, observed>>

\* stale staging is never adopted
Mount(d) ==
    /\ pc[d] = "compare" /\ current.sha # job[d].sha
    /\ mounted = None /\ attempts < MaxAttempts
    /\ attempts' = attempts + 1
    /\ mounted' = [sha |-> job[d].sha, attempt |-> attempts']
    /\ job' = [job EXCEPT ![d].active = current, ![d].candidate = mounted']
    /\ Goto(d, "fetch")
    /\ UNCHANGED <<tip, current, releases, lock, unit, serving, crashes, observed>>

\* a check refuses, a command fails or a deadline expires
Fail(d) ==
    /\ pc[d] \in {"compare", "fetch", "install", "admit", "await", "test", "publish"}
    /\ IF pc[d] = "fetch" THEN Goto(d, "abandon") /\ UNCHANGED job ELSE End(d, "FAIL")
    /\ UNCHANGED <<tip, disk, lock, unit, serving, attempts, crashes, observed>>

-----------------------------------------------------------------------------
(* Units                                                                   *)

Waits == [fetch |-> "fetching", install |-> "installing", test |-> "testing"]

\* run_service: the marker precedes the unit, and older results are gone
StartUnit(d) ==
    /\ pc[d] \in Kinds
    /\ marker = None /\ running = None
    /\ marker' = [kind |-> pc[d], release |-> job[d].candidate]
    /\ running' = marker'
    /\ output' = None
    /\ Goto(d, Waits[pc[d]])
    /\ UNCHANGED <<tip, disk, lock, serving, job, attempts, crashes, observed>>

Accepted(d) == output = [release |-> job[d].candidate, ok |-> TRUE]

\* the unit of this kind is over and its marker removed
Finished(d, kind) ==
    /\ pc[d] = Waits[kind] /\ running = None
    /\ marker' = None
    /\ UNCHANGED <<tip, current, lock, running, output, serving, attempts, crashes, observed>>

\* the repository is exported and the staging unmounted
Fetched(d) ==
    /\ Finished(d, "fetch") /\ Accepted(d)
    /\ releases' = releases \cup {job[d].candidate}
    /\ mounted' = None
    /\ Continue(d, "install")

\* revalidate_admission
Eligible(d, step) ==
    IF current = job[d].active THEN Continue(d, step) ELSE End(d, "FAIL")

WheelsInstalled(d) ==
    /\ Finished(d, "install") /\ Accepted(d)
    /\ Eligible(d, "admit")
    /\ UNCHANGED <<releases, mounted>>

TestsPassed(d) ==
    /\ Finished(d, "test") /\ Accepted(d)
    /\ Continue(d, "publish")
    /\ UNCHANGED <<releases, mounted>>

Refused(d) ==
    /\ \E kind \in Kinds : Finished(d, kind)
    /\ ~Accepted(d)
    /\ Goto(d, "abandon")
    /\ UNCHANGED <<releases, mounted, job>>

\* the unit succeeded, but what it made is not what the commit says: a tracked file
\* differs, the wheels are too large, the interpreter was changed
SourceInvalid(d) ==
    /\ \E kind \in Kinds : Finished(d, kind)
    /\ Accepted(d)
    /\ Goto(d, "abandon")
    /\ UNCHANGED <<releases, mounted, job>>

\* a signal, or systemctl outlives its budget
MutantInterrupt(d) ==
    /\ \E kind \in Kinds : pc[d] = Waits[kind]
    /\ marker' = None
    /\ Goto(d, "abandon")
    /\ UNCHANGED <<tip, disk, lock, running, output, serving, job, attempts, crashes, observed>>
Interrupt(d) ==
    /\ \E kind \in Kinds : pc[d] = Waits[kind]
    /\ Goto(d, "stop")
    /\ UNCHANGED <<tip, disk, lock, unit, serving, job, attempts, crashes, observed>>

\* finish_service stops the unit and does not go on before it is gone
MutantStop(d) == FALSE
Stop(d) ==
    /\ pc[d] \in {"stop", "recover"} /\ running # None
    /\ running' = None
    /\ UNCHANGED <<tip, disk, lock, marker, output, serving, pc, job, attempts, crashes, observed>>

MutantQuiescent == TRUE
Quiescent == running = None

Stopped(d) ==
    /\ pc[d] = "stop" /\ Quiescent
    /\ marker' = None
    /\ Goto(d, "abandon")
    /\ UNCHANGED <<tip, disk, lock, running, output, serving, job, attempts, crashes, observed>>

\* recover_service: the crashed attempt is not resumed, and this one fails too
Recover(d) ==
    /\ pc[d] = "recover" /\ Quiescent
    /\ marker' = None
    /\ End(d, "FAIL")
    /\ UNCHANGED <<tip, disk, lock, running, output, serving, attempts, crashes, observed>>

\* create_release unmounts its own staging, if it can
Abandon(d) ==
    /\ pc[d] = "abandon"
    /\ mounted' \in {mounted} \cup (IF mounted = job[d].candidate THEN {None} ELSE {})
    /\ End(d, "FAIL")
    /\ UNCHANGED <<tip, current, releases, lock, unit, serving, attempts, crashes, observed>>

-----------------------------------------------------------------------------
(* Admission                                                               *)

\* tests start beside an API that is not about to rotate
Admit(d) ==
    /\ pc[d] = "admit" /\ api # None
    /\ Goto(d, IF young THEN "test" ELSE "await")
    /\ UNCHANGED <<tip, disk, lock, unit, serving, job, attempts, crashes, observed>>

Readmit(d) ==
    /\ pc[d] = "await" /\ api # None /\ young
    /\ Eligible(d, "test")
    /\ UNCHANGED <<tip, disk, lock, unit, serving, attempts, crashes, observed>>

-----------------------------------------------------------------------------
(* Publication and handoff                                                 *)

\* promote: the attempt is marked, then the symlink replaced
Publish(d) ==
    /\ pc[d] = "publish"
    /\ job' = [job EXCEPT ![d].published = TRUE, ![d].replaced = current]
    /\ current' = job[d].candidate
    /\ replaced' = current
    /\ Goto(d, "verify")
    /\ UNCHANGED <<tip, releases, mounted, lock, unit, serving, attempts, crashes, tested>>

Verify(d) ==
    /\ pc[d] = "verify" /\ current = job[d].candidate
    /\ Goto(d, "handoff")
    /\ UNCHANGED <<tip, disk, lock, unit, serving, job, attempts, crashes, observed>>

\* the replaced release is restored, if that does not fail as well
VerifyFails(d) ==
    /\ pc[d] = "verify"
    /\ current' \in {current} \cup
          (IF current = job[d].candidate THEN {job[d].replaced} ELSE {})
    /\ End(d, "FAIL")
    /\ UNCHANGED <<tip, releases, mounted, lock, unit, serving, attempts, crashes, observed>>

\* api_handoff: the process runs in the selected release, restarted if need be
MutantAdopted(release) == current = release /\ api # None /\ UNCHANGED serving
Adopted(release) ==
    /\ current = release
    /\ api' = release
    /\ young' = (api = release => young)

HandoffPasses(d) ==
    /\ pc[d] = "handoff" /\ Adopted(job[d].candidate)
    /\ End(d, "PASS")
    /\ UNCHANGED <<tip, disk, lock, unit, attempts, crashes, observed>>

\* the restart that did not lead to adoption may still be under way
HandoffFails(d) ==
    /\ pc[d] = "handoff"
    /\ api' \in {api, None} /\ UNCHANGED young
    /\ IF job[d].active # job[d].candidate THEN Goto(d, "rollback") /\ UNCHANGED job
       ELSE End(d, "FAIL")
    /\ UNCHANGED <<tip, disk, lock, unit, attempts, crashes, observed>>

\* adopt_api publishes the previous release again
Rollback(d) ==
    /\ pc[d] = "rollback" /\ current = job[d].candidate
    /\ current' = job[d].active
    /\ Goto(d, "readopt")
    /\ UNCHANGED <<tip, releases, mounted, lock, unit, serving, job, attempts, crashes, observed>>

EndRecovery(d, recovery) ==
    /\ job' = [job EXCEPT ![d].recovery = recovery, ![d].status = "FAIL"]
    /\ Goto(d, "unlock")
    /\ UNCHANGED <<tip, disk, lock, unit, attempts, crashes, observed>>

Readopt(d) ==
    /\ pc[d] = "readopt" /\ Adopted(job[d].active)
    /\ EndRecovery(d, "PASS")

RecoveryFails(d) ==
    /\ pc[d] \in {"rollback", "readopt"}
    /\ api' \in {api, None} /\ UNCHANGED young
    /\ EndRecovery(d, "FAIL")

-----------------------------------------------------------------------------
(* Leaving                                                                 *)

Unlock(d) ==
    /\ pc[d] = "unlock"
    /\ lock' = None
    /\ Goto(d, "cleanup")
    /\ UNCHANGED <<tip, disk, unit, serving, job, attempts, crashes, observed>>

\* Only what this attempt created and never published: a launcher may have pinned
\* what was selectable for a moment.
MutantRemoveUnselected(d) == job[d].status # "PASS" /\ job[d].candidate # current
MutantRemoveActive(d) ==
    job[d].status # "PASS" /\ ~job[d].published /\ job[d].candidate # current
Removable(d) ==
    /\ job[d].status # "PASS" /\ ~job[d].published
    /\ job[d].candidate \notin {job[d].active, current}

Cleanup(d) ==
    /\ pc[d] = "cleanup"
    /\ releases' = IF Removable(d) THEN releases \ {job[d].candidate} ELSE releases
    /\ Return(d)
    /\ UNCHANGED <<tip, current, mounted, lock, unit, serving, attempts, crashes, observed>>

\* SIGKILL or a host failure of the controller: units, mount and marker survive
Crash(d) ==
    /\ pc[d] # "idle" /\ crashes < MaxCrashes
    /\ crashes' = crashes + 1
    /\ lock' = IF lock = d THEN None ELSE lock
    /\ Return(d)
    /\ UNCHANGED <<tip, disk, unit, serving, attempts, observed>>

Step(d) ==
    \/ Busy(d) \/ Lock(d) \/ AlreadyCurrent(d) \/ Mount(d) \/ Fail(d)
    \/ StartUnit(d) \/ Fetched(d) \/ WheelsInstalled(d) \/ TestsPassed(d)
    \/ Refused(d) \/ SourceInvalid(d)
    \/ Interrupt(d) \/ Stop(d) \/ Stopped(d) \/ Recover(d) \/ Abandon(d)
    \/ Admit(d) \/ Readmit(d)
    \/ Publish(d) \/ Verify(d) \/ VerifyFails(d)
    \/ HandoffPasses(d) \/ HandoffFails(d) \/ Rollback(d) \/ Readopt(d) \/ RecoveryFails(d)
    \/ Unlock(d) \/ Cleanup(d)

Next ==
    \/ Merge \/ UnitEnds \/ ApiExits \/ ApiStarts \/ ApiAges \/ AdminUnmounts
    \/ \E d \in Controllers : Request(d) \/ Step(d) \/ Crash(d)

Spec == Init /\ [][Next]_vars

\* The controller is a sequential process, its waits end by a deadline, and a unit
\* that is told to stop does stop; nothing else is assumed to happen.
FairSpec == Spec /\ \A d \in Controllers : WF_vars(Step(d))

-----------------------------------------------------------------------------
(* Properties                                                              *)

Steps == {"idle", "lock", "recover", "compare", "fetch", "fetching", "install", "installing",
          "admit", "await", "test", "testing", "publish", "verify", "handoff", "rollback",
          "readopt", "stop", "abandon", "unlock", "cleanup"}
Job == [sha: Commits, active: Release \cup {None}, candidate: Release \cup {None},
        replaced: Release \cup {None}, published: BOOLEAN,
        recovery: {"NOT_ATTEMPTED", "PASS", "FAIL"}, status: {"PASS", "FAIL", "SUPERSEDED"}]

FilesOK ==
    /\ tip \in Commits
    /\ current \in Release /\ releases \subseteq Release
    /\ mounted \in Release \cup {None}
    /\ marker \in Unit \cup {None} /\ running \in Unit \cup {None}
    /\ output \in Result \cup {None}
    /\ api \in Release \cup {None} /\ young \in BOOLEAN
    /\ tested \subseteq Release /\ replaced \in Release \cup {None}
    /\ attempts \in 0 .. MaxAttempts /\ crashes \in 0 .. MaxCrashes

\* Files, units and memory hold what deploy writes, and deploy.lock belongs to
\* exactly the controller that is past it.
TypeOK ==
    /\ FilesOK
    /\ pc \in [Controllers -> Steps] /\ job \in [Controllers -> Job]
    /\ \A d \in Controllers : pc[d] \notin {"idle", "lock", "cleanup"} <=> lock = d

\* "Only a passing release is pointed to by current" (DEPLOY.md), whatever was
\* interrupted, and it is still on disk.
CurrentIsTested == current \in tested \cap releases

\* A release that the API process is pinned to is never removed, not even one
\* that was selected for a moment and taken back.
PinnedReleaseStays == api # None => api \in releases

\* No unit is left to itself: while one runs, from a live or a crashed attempt, the
\* marker names it and the directory or mount it works in is still there.
UnitsAreAccountedFor ==
    running # None =>
       /\ marker = running
       /\ IF running.kind = "fetch" THEN mounted = running.release
          ELSE running.release \in releases

\* A PASS is only reported of a release that is selected and that no API process
\* deviates from; so is a recovery.
ReportsAreTrue ==
    \A d \in Controllers : pc[d] = "unlock" =>
       /\ job[d].status = "PASS" =>
             /\ current = job[d].candidate /\ current.sha = job[d].sha
             /\ api \in {current, None}
       /\ job[d].recovery = "PASS" => current = job[d].active /\ api \in {current, None}

\* The selected commit never goes back in main, except to the release that the
\* last publication replaced.
NeverBackwards ==
    [][current' # current => current'.sha > current.sha \/ current' = replaced]_vars

\* Every attempt ends, so deploy.lock is not held for ever: neither a hanging unit,
\* nor one that a crashed attempt left, nor an API that never rotates prevents it.
AttemptsEnd == \A d \in Controllers : pc[d] = "lock" ~> pc[d] = "idle"
=============================================================================
