--------------------------- MODULE NativeDiagnostic ---------------------------
(***************************************************************************)
(* docs/zen53/native-compatibility/candidate: supervisor.py starts one     *)
(* temporary unit while it holds the locks of the deployment controller    *)
(* and of the validator; launch.py, the unit's process, may run the one    *)
(* native command only under a lease of a second that the supervisor       *)
(* publishes after it has looked at the pinned process, at production and  *)
(* at the next production timer.  Records appear in the stage by an        *)
(* exclusive link; any look, on either side, may fail; the process may die *)
(* at any time, the supervisor may be killed.                              *)
(*                                                                         *)
(* Time is counted in ticks that keep the order of the code's intervals:   *)
(* Lease (1 s), Wait (5 s), Limit (20 s), Native (35 s), Margin (90 s).    *)
(***************************************************************************)
EXTENDS Integers, FiniteSets

CONSTANTS Lease, Wait, Limit, Native, Margin,
          Timers,       \* ticks at which the next production timer may be due
          MaxTime,      \* bound on the clock
          None

\* A lease takes time, the margin covers the native command (75 or 90 s against 35 s), and the absent value
\* is none of the values that are recorded.
DiagnosticConstants ==
    /\ {Lease, Wait, Limit, Native, Margin, MaxTime} \subseteq Nat /\ Timers \subseteq Nat
    /\ Lease > 0 /\ Native <= Margin
    /\ None \notin Nat /\ None \notin BOOLEAN
    /\ \A r \in [issued: 0..MaxTime, until: 0..(MaxTime + Wait + Lease)] : r # None

VARIABLES
    now,
    sup,       \* the supervisor: its step, its transaction, what it recorded
    held,      \* locks it holds, of deploy.lock and validation.lock
    busy,      \* locks the deployment controller or the validator holds
    prod,      \* what production() reads: changed or not since the start
    timer,     \* the tick the next production timer is due
    logs,      \* whether a supervisor has created the logs of the unit
    sealed,    \* records written under their temporary name
    links,     \* records of the stage: name -> [issued, until, nonce] or None
    child,     \* codex-daemon-<uid> in daemon-tmp: "none", "root", "worker"
    unit,      \* the temporary unit: "none", "starting", "alive", "ended"
    step,      \* what launch.py is doing
    native     \* the native command: "no", "running", "done"

vars == <<now, sup, held, busy, prod, timer, logs, sealed, links, child, unit, step, native>>
stage == <<logs, sealed, links, child>>
world == <<busy, prod, timer>>
worker == <<unit, step, native>>

Locks == {"deploy", "validation"}
Records == {"attempt", "provision", "release"}
Earlier(a, b) == IF a < b THEN a ELSE b

Checking == {"admit", "first", "second", "preflight", "snapshot", "begin", "attempt"}
Started == {"start", "effective", "pin", "create", "chown", "provision", "loop", "guard",
            "issue", "release", "committed", "report"}
Ending == {"stop", "verify", "close", "final", "done", "hold", "killed"}

TypeOK ==
    /\ now \in 0..MaxTime
    /\ sup.at \in Checking \cup Started \cup Ending
    /\ sup.phase \in {"new", "opening", "waiting_process", "preparing", "waiting_release", "guarding",
                      "publishing_release", "released", "closed"}
    /\ {sup.eligible, sup.issued} \subseteq Nat \cup {None} /\ (sup.issued # None => sup.issued < sup.eligible)
    /\ sup.started \in BOOLEAN /\ sup.may \in BOOLEAN \cup {None}
    /\ sup.cleanup \in {"none", "PASS", "BLOCKED"} /\ sup.status \in {"BLOCKED", "PASS"}
    /\ held \in SUBSET Locks /\ busy \in SUBSET Locks /\ prod \in BOOLEAN /\ timer \in Timers
    /\ logs \in BOOLEAN /\ sealed \in SUBSET Records
    /\ \A r \in Records : links[r] # None => r \in sealed /\ links[r].issued <= links[r].until
    /\ child \in {"none", "root", "worker"} /\ unit \in {"none", "starting", "alive", "ended"}
    /\ step \in {"start", "wait", "tree", "admission", "ask", "asked", "fork", "native", "complete", "stopped"}
    /\ native \in {"no", "running", "done"}

NewRun == [at |-> "admit", phase |-> "new", eligible |-> None, issued |-> None, started |-> FALSE,
          may |-> None, cleanup |-> "none", status |-> "BLOCKED"]

Init ==
    /\ now = 0 /\ prod = FALSE /\ timer \in Timers /\ busy = {} /\ held = {} /\ sup = NewRun
    /\ logs = FALSE /\ sealed = {} /\ links = [r \in Records |-> None] /\ child = "none"
    /\ unit = "none" /\ step = "start" /\ native = "no"

----------------------------------------------------------------------------
(* What the supervisor looks at.                                           *)

\* idle(): no pending request, no busy worker, and no timer within the margin.
Idle == busy = {} /\ timer - now > Margin

\* check(): the pinned process is alive and is still the unit's.
Live == unit = "alive"

Goto(place) == sup' = [sup EXCEPT !.at = place]

\* An exception: what was started is cleaned up before the last inspection.
Raise(phase) == sup' = [sup EXCEPT !.at = IF sup.started THEN "stop" ELSE "close", !.phase = phase]

\* Anything the supervisor does may raise instead (a query that times out, a drifted file, a bound).
Fails(from) == sup.at \in from /\ Raise(sup.phase) /\ UNCHANGED <<now, held, world, stage, worker>>

\* Approval, an unused stage, the manifest, headroom, and a first look at the host.
Admit == sup.at = "admit" /\ Idle /\ Goto("first") /\ UNCHANGED <<now, held, world, stage, worker>>

\* flock(LOCK_EX | LOCK_NB) on one of the two files.
Lock(lock, from, to) ==
    /\ sup.at = from /\ lock \notin busy
    /\ held' = held \cup {lock} /\ Goto(to)
    /\ UNCHANGED <<now, world, stage, worker>>

\* idle() again under both locks.
Preflight == sup.at = "preflight" /\ Idle /\ Goto("snapshot") /\ UNCHANGED <<now, held, world, stage, worker>>

\* before = production(): what later snapshots are compared with.
Snapshot ==
    /\ sup.at = "snapshot" /\ prod' = FALSE /\ Goto("begin")
    /\ UNCHANGED <<now, held, busy, timer, stage, worker>>

----------------------------------------------------------------------------
(* The transaction: attempt, provision and release.                        *)

\* publish(), first half: the record is complete under its temporary name.
Seal(r) == r \notin sealed /\ sealed' = sealed \cup {r}

\* publish(), second half: the link that commits, never over another record.
Link(r, record) == links[r] = None /\ links' = [links EXCEPT ![r] = record]

MutantBegin ==
    /\ sup.at = "begin" /\ unit \in {"none", "ended"}
    /\ sup' = [sup EXCEPT !.at = "attempt", !.phase = "opening"]
    /\ logs' = TRUE /\ sealed' = {} /\ links' = [r \in Records |-> None] /\ child' = "none"
    /\ UNCHANGED <<now, held, world, worker>>
\* New logs, no unit of that name, and open_stage(): both directories must be empty, so a stage is used once.
Begin ==
    /\ sup.at = "begin" /\ ~logs /\ logs' = TRUE /\ unit \in {"none", "ended"}
    /\ child = "none" /\ sealed = {}
    /\ sup' = [sup EXCEPT !.at = "attempt", !.phase = "opening"]
    /\ UNCHANGED <<now, held, world, sealed, links, child, worker>>

\* From the first record on, the supervisor counts as having started something.
PublishAttempt ==
    /\ sup.at = "attempt" /\ Seal("attempt")
    /\ Link("attempt", [issued |-> now, until |-> now + Wait])
    /\ sup' = [sup EXCEPT !.at = "start", !.phase = "waiting_process", !.started = TRUE]
    /\ UNCHANGED <<now, held, world, logs, child, worker>>

\* systemd-run: it returns when the unit runs, or times out with the start still queued.
StartUnit ==
    /\ sup.at = "start" /\ unit \in {"none", "ended"}
    /\ \/ unit' = "alive" /\ Goto("effective")
       \/ unit' = "starting" /\ Raise(sup.phase)
    /\ UNCHANGED <<now, held, world, stage, step, native>>

EffectiveUnit == sup.at = "effective" /\ Goto("pin") /\ UNCHANGED <<now, held, world, stage, worker>>

\* pin(): a pidfd of the unit's main process, whose identity every later look compares.
Pin ==
    /\ sup.at = "pin" /\ Live /\ now < links["attempt"].until
    /\ sup' = [sup EXCEPT !.at = "create", !.phase = "preparing"]
    /\ UNCHANGED <<now, held, world, stage, worker>>

CreateChild ==
    /\ sup.at = "create" /\ Live /\ child = "none" /\ child' = "root" /\ Goto("chown")
    /\ UNCHANGED <<now, held, world, logs, sealed, links, worker>>

GiveChild ==
    /\ sup.at = "chown" /\ Live /\ child' = "worker" /\ Seal("provision")
    /\ now < links["attempt"].until /\ Goto("provision")
    /\ UNCHANGED <<now, held, world, logs, links, worker>>

PublishProvision ==
    /\ sup.at = "provision" /\ Live
    /\ Link("provision", [issued |-> now, until |-> now])
    /\ sup' = [sup EXCEPT !.at = "loop", !.phase = "waiting_release"]
    /\ UNCHANGED <<now, held, world, logs, sealed, child, worker>>

\* The request is a line of the launcher's output; it starts the guard once.
Request ==
    /\ sup.at = "loop" /\ sup.phase = "waiting_release" /\ step = "asked" /\ Live
    /\ sup' = [sup EXCEPT !.at = "guard", !.phase = "guarding"]
    /\ UNCHANGED <<now, held, world, stage, worker>>

MutantGuard ==
    /\ sup.at = "guard" /\ Idle
    /\ sup' = [sup EXCEPT !.at = "issue", !.eligible = timer]
    /\ UNCHANGED <<now, held, world, stage, worker>>
\* provision_guard(): idle, production unchanged; what it returns ends before the margin.
Guard ==
    /\ sup.at = "guard" /\ Idle /\ ~prod
    /\ sup' = [sup EXCEPT !.at = "issue", !.eligible = timer - Margin]
    /\ UNCHANGED <<now, held, world, stage, worker>>

MutantIssue ==
    /\ sup.at = "issue" /\ Live /\ Seal("release")
    /\ sup' = [sup EXCEPT !.at = "release", !.phase = "publishing_release", !.issued = now,
                          !.eligible = Earlier(now + Lease, sup.eligible)]
    /\ UNCHANGED <<now, held, world, logs, links, child, worker>>
\* The lease is fixed here, before the record is sealed.
Issue ==
    /\ sup.at = "issue" /\ Live
    /\ now < sup.eligible /\ now < links["attempt"].issued + Limit
    /\ Seal("release")
    /\ sup' = [sup EXCEPT !.at = "release", !.phase = "publishing_release", !.issued = now,
                          !.eligible = Earlier(now + Lease, sup.eligible)]
    /\ UNCHANGED <<now, held, world, logs, links, child, worker>>

MutantPublishRelease ==
    /\ sup.at = "release" /\ Live
    /\ Link("release", [issued |-> now, until |-> now + Lease])
    /\ Goto("committed")
    /\ UNCHANGED <<now, held, world, logs, sealed, child, worker>>
\* The process and the lease are looked at again between the seal and the link.
PublishRelease ==
    /\ sup.at = "release" /\ Live /\ now < sup.eligible
    /\ Link("release", [issued |-> sup.issued, until |-> sup.eligible])
    /\ Goto("committed")
    /\ UNCHANGED <<now, held, world, logs, sealed, child, worker>>

\* live() after the link: only now is the phase "released".
Released ==
    /\ sup.at = "committed" /\ Live
    /\ sup' = [sup EXCEPT !.at = "loop", !.phase = "released"]
    /\ UNCHANGED <<now, held, world, stage, worker>>

\* The loop ends when the unit does; its report decides the status.
Leave ==
    /\ sup.at = "loop" /\ unit = "ended" /\ Goto("report")
    /\ UNCHANGED <<now, held, world, stage, worker>>

MutantReport ==
    /\ sup.at = "report" /\ sup' = [sup EXCEPT !.at = "stop", !.status = "PASS"]
    /\ UNCHANGED <<now, held, world, stage, worker>>
Report ==
    /\ sup.at = "report" /\ step = "complete"
    /\ sup' = [sup EXCEPT !.at = "stop", !.status = "PASS"]
    /\ UNCHANGED <<now, held, world, stage, worker>>

Looks == {"admit", "first", "second", "preflight", "snapshot", "begin", "attempt", "start", "effective",
          "pin", "create", "chown", "provision", "loop", "guard", "issue", "release", "committed", "report"}

----------------------------------------------------------------------------
(* The end of the supervisor.                                              *)

\* Whether stop_provision_unit() may stop the unit: it must know the invocation as its own.
Pinned == sup.phase \notin {"new", "opening", "waiting_process"}

\* An ended unit needs no stop; a unit of another or unknown invocation is never stopped.
Stop ==
    /\ sup.at = "stop"
    /\ \/ unit \in {"none", "ended"} /\ Goto("verify") /\ UNCHANGED worker
       \/ unit = "alive" /\ Pinned /\ Goto("verify")
          /\ unit' = "ended" /\ step' = "stopped" /\ native' = IF native = "running" THEN "done" ELSE native
       \/ sup' = [sup EXCEPT !.at = "close", !.cleanup = "BLOCKED", !.status = "BLOCKED"] /\ UNCHANGED worker
    /\ UNCHANGED <<now, held, world, stage>>

\* The unit, its control group, its user and its mounts are gone, or the cleanup is blocked.
Verify ==
    /\ sup.at = "verify"
    /\ \/ unit \in {"none", "ended"} /\ sup' = [sup EXCEPT !.at = "close", !.cleanup = "PASS"]
       \/ sup' = [sup EXCEPT !.at = "close", !.cleanup = "BLOCKED", !.status = "BLOCKED"]
    /\ UNCHANGED <<now, held, world, stage, worker>>

MutantClose ==
    /\ sup.at = "close"
    /\ sup' = [sup EXCEPT !.at = "final", !.may = IF sup.phase = "new" THEN None ELSE sup.phase = "released"]
    /\ UNCHANGED <<now, held, world, stage, worker>>
\* What the result says of the release, when there was a transaction; a descriptor that does not close blocks the cleanup.
Close ==
    /\ sup.at = "close"
    /\ \E closed \in BOOLEAN :
        sup' = [sup EXCEPT !.at = "final",
                           !.may = IF sup.phase = "new" THEN None
                                   ELSE sup.phase \in {"publishing_release", "released"},
                           !.phase = IF closed THEN "closed" ELSE @,
                           !.cleanup = IF closed THEN @ ELSE "BLOCKED",
                           !.status = IF closed THEN @ ELSE "BLOCKED"]
    /\ UNCHANGED <<now, held, world, stage, worker>>

\* retain: the locks are kept when something was started and is not known to be gone.
Retain == sup.started /\ sup.cleanup # "PASS"

MutantFinal ==
    /\ sup.at = "final" /\ held' = {} /\ Goto("done")
    /\ UNCHANGED <<now, world, stage, worker>>
\* production() and the locks' metadata once more; then the locks, result.json, and the dormant hold.
Final ==
    /\ sup.at = "final"
    /\ \E drift \in BOOLEAN :
        sup' = [sup EXCEPT !.at = IF Retain THEN "hold" ELSE "done",
                           !.status = IF prod \/ drift THEN "BLOCKED" ELSE @]
    /\ held' = IF Retain THEN held ELSE {}
    /\ UNCHANGED <<now, world, stage, worker>>

\* A killed supervisor loses its locks; nobody stops the unit for it.
Killed ==
    /\ sup.at \notin {"done", "killed"}
    /\ held' = {} /\ Goto("killed") /\ UNCHANGED <<now, world, stage, worker>>
\* Without a result.json the supervisor may be approved and run once more on the same stage.
Again == sup.at = "killed" /\ sup' = NewRun /\ UNCHANGED <<now, held, world, stage, worker>>

----------------------------------------------------------------------------
(* launch.py.  Each step is one look at the stage; any of them may stop it.*)

Launcher(from, to) ==
    /\ unit = "alive" /\ step = from /\ step' = to
    /\ UNCHANGED <<now, sup, held, world, stage, unit, native>>

Initialize == links["attempt"] # None /\ now < links["attempt"].until /\ Launcher("start", "wait")
Provisioned == links["provision"] # None /\ now < links["attempt"].until /\ Launcher("wait", "tree")
CheckTree == child = "worker" /\ Launcher("tree", "admission")
Admission == child = "worker" /\ Launcher("admission", "ask")
Ask == child = "worker" /\ Launcher("ask", "asked")

\* wait_record: the release within its wait and the limit, and check_release.
LeaseHolds == /\ links["release"] # None
              /\ links["release"].issued <= now /\ now < links["release"].until
Granted == LeaseHolds /\ now < links["attempt"].issued + Limit /\ Launcher("asked", "fork")

MutantFork ==
    /\ unit = "alive" /\ step = "fork"
    /\ step' = "native" /\ native' = "running"
    /\ UNCHANGED <<now, sup, held, world, stage, unit>>
\* before_native(): the tree and the lease are the last thing looked at before the fork.
Fork ==
    /\ unit = "alive" /\ step = "fork" /\ child = "worker" /\ LeaseHolds
    /\ step' = "native" /\ native' = "running"
    /\ UNCHANGED <<now, sup, held, world, stage, unit>>

\* The command ends by itself, its output is accepted, and the launcher completes.
Complete ==
    /\ unit = "alive" /\ step = "native"
    /\ native' = "done" /\ step' = "complete" /\ unit' = "ended"
    /\ UNCHANGED <<now, sup, held, world, stage>>

\* The launcher stops: a failed look, a timeout, death.  Its control group ends with it.
Dies ==
    /\ unit = "alive" /\ unit' = "ended" /\ step' = "stopped"
    /\ native' = IF native = "running" THEN "done" ELSE native
    /\ UNCHANGED <<now, sup, held, world, stage>>

\* A start whose caller has given up takes place after all, or is dropped.
LateStart ==
    /\ unit = "starting" /\ unit' \in {"alive", "ended"}
    /\ UNCHANGED <<now, sup, held, world, stage, step, native>>

----------------------------------------------------------------------------
(* The host.                                                               *)

\* The deployment controller or the validator takes its lock, works, and changes production.
Take(lock) ==
    /\ lock \notin held \cup busy /\ busy' = busy \cup {lock}
    /\ UNCHANGED <<now, sup, held, prod, timer, stage, worker>>
Works == busy # {} /\ prod' = TRUE /\ UNCHANGED <<now, sup, held, busy, timer, stage, worker>>
Give(lock) ==
    /\ lock \in busy /\ busy' = busy \ {lock}
    /\ UNCHANGED <<now, sup, held, prod, timer, stage, worker>>

\* The API ends its thirty minutes, or an administrator changes a file.
ProductionChanges == prod' = TRUE /\ UNCHANGED <<now, sup, held, busy, timer, stage, worker>>

\* The native command's timeout is kept: it has Native ticks from the lease that let it start.
InTime == native = "running" => now + 1 < links["release"].until + Native
Tick == now < MaxTime /\ InTime /\ now' = now + 1 /\ UNCHANGED <<sup, held, world, stage, worker>>

Supervisor ==
    \/ Admit \/ Lock("deploy", "first", "second") \/ Lock("validation", "second", "preflight")
    \/ Preflight \/ Snapshot \/ Begin \/ PublishAttempt \/ StartUnit \/ EffectiveUnit \/ Pin
    \/ CreateChild \/ GiveChild \/ PublishProvision \/ Request \/ Guard \/ Issue \/ PublishRelease
    \/ Released \/ Leave \/ Report \/ Fails(Looks) \/ Stop \/ Verify \/ Close \/ Final
Unit == \/ Initialize \/ Provisioned \/ CheckTree \/ Admission \/ Ask \/ Granted \/ Fork
        \/ Complete \/ Dies \/ LateStart
Next == \/ Supervisor \/ Killed \/ Again \/ Unit \/ ProductionChanges \/ Works \/ Tick
        \/ \E lock \in Locks : Take(lock) \/ Give(lock)

Spec == Init /\ [][Next]_vars

----------------------------------------------------------------------------
(* Properties                                                              *)

\* While the temporary unit may run, no deployment and no validation can start: the supervisor that started it has both
\* locks, and gives them back only when the unit is gone, whatever failed on the way (`retain`).
UnitUnderLocks ==
    sup.started /\ unit \in {"starting", "alive"} /\ sup.at # "killed" => held = Locks

\* The native command never overlaps a production timer: the lease ends before the margin, and the command's time is shorter.
\* Supervisor, sealing and launcher may each be delayed at any point (provision_guard, Issue, before_native).
NativeClearOfTimers == native = "running" => now < timer

\* The command is never started without the provisioned directory and a release on the stage whose lease ends before the
\* margin of the next timer, at whatever point the supervisor failed or was killed.
NativeIsReleased ==
    native # "no" => /\ links["provision"] # None /\ links["release"] # None /\ child = "worker"
                     /\ links["release"].until <= timer - Margin

\* result.json never denies a release that took effect: the phase before the link already counts
\* (release_may_have_committed), and a second run of the supervisor says nothing of the first one's release.
ReleaseAdmitted == sup.may = FALSE => native = "no"

\* A PASS in result.json is of a command that ran to its end, of a launcher that accepted its output, and of a unit that is
\* verified gone; its release is on record.
PassIsEarned ==
    sup.at \in {"done", "hold"} /\ sup.status = "PASS" =>
        /\ step = "complete" /\ native = "done" /\ sup.cleanup = "PASS" /\ unit = "ended" /\ sup.may = TRUE

\* The records of a stage are evidence of one attempt: no later run of the supervisor, after a kill at any point, replaces
\* or removes one, and the command runs at most once.
StageIsEvidence ==
    /\ \A r \in Records : links[r] # None => links'[r] = links[r]
    /\ native = "done" => native' = "done"
=============================================================================
