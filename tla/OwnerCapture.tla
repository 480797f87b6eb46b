------------------------------ MODULE OwnerCapture ------------------------------
(***************************************************************************)
(* docs/zen53/rotation-decoupling/stage: one ownership capture inside a    *)
(* bounded systemd scope.  operator_entry.py and capture_once.py admit it  *)
(* (admission.py), controller.py runs a host collector that holds the two  *)
(* release files while a restricted collector reads them through its own   *)
(* mounts, and evidence.py stores the record.                              *)
(*                                                                         *)
(* The owner of the release may change it at any time; production workers  *)
(* want the locks the capture holds, and their owner may replace a lock    *)
(* file; children die, stall or go on after a kill; timers fire; systemd   *)
(* kills the scope at its deadline.                                        *)
(***************************************************************************)
EXTENDS Naturals, Sequences, FiniteSets

CONSTANTS Workers,      \* production workers, each with its own lock file
          None,
          Wall,         \* the scope's RuntimeMaxSec, in ticks
          Margin,       \* PRODUCTION_MARGIN_US, in ticks
          Timers,       \* when the next production timer may be due
          Drifting,     \* which host observations may change in between
          MaxChanges    \* bound on changes of the release and of lock files

Facts == {"disk", "mounts", "scope", "io", "controllers", "headroom", "pending", "deploy", "users", "units",
          "stage", "programs", "projection", "topology"}
CaptureConstants ==
    /\ Wall \in Nat /\ Margin \in Nat /\ Timers \subseteq Nat /\ MaxChanges \in Nat /\ Drifting \subseteq Facts
    /\ None \notin Nat /\ None \notin {"capture", "worker"}

VARIABLES
    release,    \* version of the release files; 0 is the pinned one, a version never comes back
    broken,     \* host observations that do not hold at present
    lock,       \* worker -> who holds the pinned lock file: None, "capture", "worker"
    replaced,   \* workers whose lock file was replaced by another one
    worker,     \* worker -> running
    changes,    \* how often the host was changed
    now, timer, \* ticks since the scope started; when the next timer is due
    scope,      \* "alive", "killed", "left"
    parent,     \* [at, checks, outcome]
    host,       \* [at, before, after, clean, exit]: the host-held collector
    inner,      \* the restricted collector, likewise
    told,       \* host events in its stdout pipe
    finish,     \* the finish line is in the host's stdin pipe
    wrote, disk,\* names in the controller evidence directory, as seen and as durable
    step,       \* how far write_evidence has come
    overlap     \* a worker has run beside a collector

vars == <<release, broken, lock, replaced, worker, changes, now, timer, scope, parent, host, inner, told, finish,
          wrote, disk, step, overlap>>
outside == <<release, broken, replaced, changes, now, timer>>
children == <<host, inner, told, finish>>
record == <<wrote, disk, step>>

Files == {"streams", "summary", "complete"}
\* write_evidence: raw streams, summary, marker under a pending name, marker, no pending name; "sync" is an fsync of the directory.
MutantWriting == <<"streams", "summary", "sync", "pending", "sync", "complete", "unlink", "sync">>
Writing == <<"streams", "summary", "sync", "pending", "sync", "complete", "sync", "unlink", "sync">>

NoChild == [at |-> "none", before |-> None, after |-> None, clean |-> TRUE, exit |-> None]
Versions == 0..MaxChanges
Phases == {"READY", "RESTRICTED", "ACK", "COMPLETE", "EXIT"}
Alive(c) == c.at \notin {"none", "gone"}

TypeOK ==
    /\ release \in Versions /\ broken \in SUBSET Drifting /\ changes \in 0..MaxChanges
    /\ lock \in [Workers -> {None, "capture", "worker"}] /\ replaced \in SUBSET Workers /\ worker \in [Workers -> BOOLEAN]
    /\ now \in Nat /\ timer \in Timers /\ scope \in {"alive", "killed", "left"} /\ overlap \in BOOLEAN
    /\ parent.at \in Phases \cup {"enter", "locked", "verify", "second", "host", "stop", "write", "load", "finalize",
                                  "provisional", "leave", "over"}
    /\ parent.checks \in 0..4 /\ parent.outcome \in {"BLOCKED", "PROTOCOL_COMPLETE"}
    /\ \A c \in {host, inner} : /\ c.at \in {"none", "reading", "held", "after", "done", "gone"}
                                /\ {c.before, c.after} \subseteq Versions \cup {None} /\ c.clean \in BOOLEAN
                                /\ c.exit \in {None, 0, 2, 9}
    /\ Len(told) <= 3 /\ finish \in BOOLEAN /\ step \in 0..Len(Writing)
    /\ wrote \in SUBSET (Files \cup {"pending"}) /\ disk \in SUBSET (Files \cup {"pending"})
    /\ (parent.at = "provisional" => step = Len(Writing) /\ parent.checks >= 4)

Init ==
    /\ release = 0 /\ broken = {} /\ lock = [w \in Workers |-> None] /\ replaced = {} /\ changes = 0
    /\ worker = [w \in Workers |-> FALSE] /\ now = 0 /\ timer \in Timers /\ scope = "alive"
    /\ parent = [at |-> "enter", checks |-> 0, outcome |-> "BLOCKED"]
    /\ host = NoChild /\ inner = NoChild /\ told = <<>> /\ finish = FALSE
    /\ wrote = {} /\ disk = {} /\ step = 0 /\ overlap = FALSE

----------------------------------------------------------------------------
(* Host observations.                                                      *)

\* Every path lies on a plain mount of one of the named devices, each a direct disk or its partition.
DirectDisk == "disk" \notin broken
Backing == "mounts" \notin broken /\ DirectDisk
SameScope == scope = "alive" /\ "scope" \notin broken
IoLimit == "io" \notin broken
Controllers == "controllers" \notin broken
Headroom == "headroom" \notin broken
NothingPending == "pending" \notin broken
\* The managers of the deploy user (also when inactive) and of the other users run no unit and no job.
DeployIdle == "deploy" \notin broken
UsersIdle == "users" \notin broken /\ DeployIdle
UnitsIdle == "units" \notin broken
\* What _capture_impl reads of the stage: its names and empty directories, the pinned programs, the projected tree and
\* the mounts around the release.
StageSet == "stage" \notin broken
ProgramsPinned == "programs" \notin broken
ProjectionTree == "projection" \notin broken
MountTopology == "topology" \notin broken

\* check: the next timer must be further away than the scope can last, and 90 seconds more.
MutantTimersFar == timer > now + Margin
TimersFar == timer > Wall + Margin
Idle == UsersIdle /\ NothingPending /\ UnitsIdle /\ TimersFar /\ \A w \in Workers : ~worker[w]

Holding == \A w \in Workers : lock[w] = "capture"
\* _check_locks: every descriptor still has the pinned name.
MutantLocksPinned == Holding
LocksPinned == Holding /\ replaced = {}

Admissible == Backing /\ Controllers /\ LocksPinned /\ SameScope /\ IoLimit /\ Headroom /\ Idle

At(place) == parent' = [parent EXCEPT !.at = place]
Stops == At("leave") /\ UNCHANGED <<outside, lock, worker, scope, children, record, overlap>>

\* __enter__: backing, scope and limits first, then the locks one by one without waiting.
Lock(w) ==
    /\ parent.at = "enter" /\ Backing /\ SameScope /\ IoLimit /\ Controllers
    /\ w \notin replaced /\ lock[w] = None
    /\ lock' = [lock EXCEPT ![w] = "capture"]
    /\ IF \A v \in Workers \ {w} : lock[v] = "capture" THEN At("locked") ELSE UNCHANGED parent
    /\ UNCHANGED <<outside, worker, scope, children, record, overlap>>

\* A failure of __enter__ closes what it has opened: no child exists, so there is no hold.
EnterFails ==
    /\ parent.at \in {"enter", "locked"} /\ At("over") /\ scope' = "left"
    /\ lock' = [w \in Workers |-> IF lock[w] = "capture" THEN None ELSE lock[w]]
    /\ UNCHANGED <<outside, worker, children, record, overlap>>

\* command: a query of the host that is late, ends badly or says too much is a failed check.
QueryFails == At("leave")
MutantCheck(from, to) ==
    /\ parent.at = from
    /\ (Admissible /\ At(to)) \/ QueryFails
    /\ UNCHANGED <<outside, lock, worker, scope, children, record, overlap>>
Check(from, to) ==
    /\ parent.at = from
    /\ \/ Admissible /\ parent' = [parent EXCEPT !.at = to, !.checks = @ + 1]
       \/ QueryFails
    /\ UNCHANGED <<outside, lock, worker, scope, children, record, overlap>>

FirstCheck == Check("locked", "verify")
\* _capture_impl: stage, projection tree, pinned programs and the two release files, before the second check.
ReleasePinned == release = 0
Verify ==
    /\ parent.at = "verify"
    /\ IF StageSet /\ ProgramsPinned /\ ProjectionTree /\ ReleasePinned /\ MountTopology THEN At("second") ELSE At("leave")
    /\ UNCHANGED <<outside, lock, worker, scope, children, record, overlap>>
SecondCheck == Check("second", "host")

----------------------------------------------------------------------------
(* controller.run                                                          *)

\* BoundedSpawner: a third and a fourth check, right before each child.
Spawned == [NoChild EXCEPT !.at = "reading"]
SpawnHost ==
    /\ parent.at = "host"
    /\ \/ Admissible /\ host' = Spawned /\ parent' = [parent EXCEPT !.at = "READY", !.checks = @ + 1]
       \/ QueryFails /\ UNCHANGED host
    /\ UNCHANGED <<outside, lock, worker, scope, inner, told, finish, record, overlap>>

\* An event out of order, a stream over its limit, an error or a deadline: the protocol is blocked.
Blocks == At("stop") /\ UNCHANGED <<host, inner, finish>>
Deadline ==
    /\ parent.at \in Phases /\ Blocks
    /\ UNCHANGED <<outside, lock, worker, scope, told, record, overlap>>

\* HOST_DESCRIPTORS_HELD starts the restricted collector; every later event has its own phase.
Expected(e) ==
    \/ parent.at = "READY" /\ e.event = "HELD" /\ Admissible
    \/ parent.at = "ACK" /\ e.event = "ACK"
    \/ parent.at = "COMPLETE" /\ e.event = "DONE" /\ e.clean
Progress ==
    IF parent.at = "READY"
    THEN inner' = Spawned /\ parent' = [parent EXCEPT !.at = "RESTRICTED", !.checks = @ + 1]
    ELSE At(IF parent.at = "ACK" THEN "COMPLETE" ELSE "EXIT") /\ UNCHANGED inner
ReadHost ==
    /\ parent.at \in Phases /\ told # <<>> /\ told' = Tail(told)
    /\ IF Expected(Head(told)) THEN Progress /\ UNCHANGED <<host, finish>> ELSE Blocks
    /\ UNCHANGED <<outside, lock, worker, scope, record, overlap>>

\* The restricted collector has ended and its streams are at their end: its result decides whether finish is written.
Finish ==
    /\ parent.at = "RESTRICTED" /\ inner.at = "gone"
    /\ IF inner.exit = 0 /\ inner.clean /\ Alive(host) THEN finish' = TRUE /\ At("ACK") /\ UNCHANGED <<host, inner>> ELSE Blocks
    /\ UNCHANGED <<outside, lock, worker, scope, told, record, overlap>>

HostExits ==
    /\ told = <<>> /\ host.at = "gone"
    /\ \/ parent.at \in {"READY", "RESTRICTED", "ACK"} /\ Blocks
       \/ parent.at = "EXIT" /\ UNCHANGED <<host, inner, finish>>
          /\ parent' = [parent EXCEPT !.at = "stop", !.outcome = IF host.exit = 0 THEN "PROTOCOL_COMPLETE" ELSE "BLOCKED"]
    /\ UNCHANGED <<outside, lock, worker, scope, told, record, overlap>>

\* _stop: a child that does not end within two seconds blocks the record, and goes on for now.
Killed(c) == IF Alive(c) THEN [c EXCEPT !.at = "gone", !.exit = 9] ELSE c
Stop ==
    /\ parent.at = "stop"
    /\ \E late \in SUBSET {"host", "inner"} :
        /\ host' = (IF "host" \in late THEN host ELSE Killed(host))
        /\ inner' = (IF "inner" \in late THEN inner ELSE Killed(inner))
        /\ parent' = [parent EXCEPT !.at = IF inner.at = "none" THEN "leave" ELSE "write",
                                    !.outcome = IF Alive(host') \/ Alive(inner') THEN "BLOCKED" ELSE @]
    /\ UNCHANGED <<outside, lock, worker, scope, told, finish, record, overlap>>

----------------------------------------------------------------------------
(* The collectors (collector_v3.py).                                       *)

MutantRead(c) == [c EXCEPT !.at = "held", !.before = release]
\* Content and identity of the two files; what differs from the pin is a blocker, a wrong size an exception.
Read(c) == [c EXCEPT !.at = "held", !.before = release, !.clean = release = 0]
HostReads ==
    /\ host.at = "reading" /\ release = 0 /\ host' = Read(host) /\ told' = Append(told, [event |-> "HELD", clean |-> TRUE])
    /\ UNCHANGED <<outside, lock, worker, scope, parent, inner, finish, record, overlap>>
HostReadsChanged ==
    /\ host.at = "reading" /\ release # 0
    /\ \/ host' = Read(host) /\ told' = Append(told, [event |-> "HELD", clean |-> TRUE])
       \/ host' = [host EXCEPT !.at = "done", !.clean = FALSE] /\ UNCHANGED told
    /\ UNCHANGED <<outside, lock, worker, scope, parent, inner, finish, record, overlap>>

\* wait_finish: the exact line in time, or a blocker.
WaitFinish ==
    /\ host.at = "held"
    /\ \/ finish /\ host' = [host EXCEPT !.at = "after"] /\ told' = Append(told, [event |-> "ACK", clean |-> TRUE])
       \/ host' = [host EXCEPT !.at = "after", !.clean = FALSE] /\ UNCHANGED told
    /\ UNCHANGED <<outside, lock, worker, scope, parent, inner, finish, record, overlap>>
\* Everything is observed once more through the held descriptors; any difference is a blocker.
Compare(c) == [c EXCEPT !.at = "done", !.after = release, !.clean = @ /\ release = c.before]
HostCompares ==
    /\ host.at = "after" /\ host' = Compare(host)
    /\ UNCHANGED <<outside, lock, worker, scope, parent, inner, told, finish, record, overlap>>
HostSaves ==
    /\ host.at = "done"
    /\ told' = Append(told, [event |-> "DONE", clean |-> host.clean])
    /\ host' = [host EXCEPT !.at = "gone", !.exit = IF host.clean THEN 0 ELSE 2]
    /\ UNCHANGED <<outside, lock, worker, scope, parent, inner, finish, record, overlap>>

InnerReads ==
    /\ inner.at = "reading" /\ inner' = [Read(inner) EXCEPT !.at = "after"]
    /\ UNCHANGED <<outside, lock, worker, scope, parent, host, told, finish, record, overlap>>
InnerCompares ==
    /\ inner.at = "after" /\ inner' = Compare(inner)
    /\ UNCHANGED <<outside, lock, worker, scope, parent, host, told, finish, record, overlap>>
InnerEnds ==
    /\ inner.at = "done" /\ inner' = [inner EXCEPT !.at = "gone", !.exit = IF inner.clean THEN 0 ELSE 2]
    /\ UNCHANGED <<outside, lock, worker, scope, parent, host, told, finish, record, overlap>>

\* A collector dies at any point; after a kill that came too late it dies at last.
ChildDies ==
    /\ \/ Alive(host) /\ host' = Killed(host) /\ UNCHANGED inner
       \/ Alive(inner) /\ inner' = Killed(inner) /\ UNCHANGED host
    /\ UNCHANGED <<outside, lock, worker, scope, parent, told, finish, record, overlap>>

----------------------------------------------------------------------------
(* Evidence and release.                                                   *)

WriteEvidence ==
    /\ parent.at = "write" /\ step < Len(Writing) /\ step' = step + 1
    /\ LET name == Writing[step + 1] IN
        /\ wrote' = IF name = "sync" THEN wrote ELSE IF name = "unlink" THEN wrote \ {"pending"} ELSE wrote \cup {name}
        /\ disk' = IF name = "sync" THEN wrote ELSE disk
    /\ IF step' = Len(Writing) THEN At("load") ELSE UNCHANGED parent
    /\ UNCHANGED <<outside, lock, worker, scope, children, overlap>>
WriteFails == parent.at = "write" /\ Stops

\* owner_adapter: exits, blockers and both views of the two files; owner_context_v4: no drift across the contexts.
ViewStable(c) == c.clean /\ c.before = c.after
NoCrossDrift == host.before = inner.before
SnapshotAgrees == host.exit = 0 /\ inner.exit = 0 /\ ViewStable(host) /\ ViewStable(inner) /\ NoCrossDrift
\* verify_evidence: exactly these names, each with its hash.
Verifies(names) == names = Files
\* load_evidence, the host capture's hash and owner_adapter.build.
Load ==
    /\ parent.at = "load"
    /\ IF Verifies(wrote) /\ parent.outcome = "PROTOCOL_COMPLETE" /\ SnapshotAgrees THEN At("finalize") ELSE At("leave")
    /\ UNCHANGED <<outside, lock, worker, scope, children, record, overlap>>
Finalize ==
    /\ parent.at = "finalize"
    /\ \/ Backing /\ Controllers /\ LocksPinned /\ SameScope /\ IoLimit /\ Idle /\ At("provisional")
       \/ QueryFails
    /\ UNCHANGED <<outside, lock, worker, scope, children, record, overlap>>

MutantHoldOnce == TRUE
\* _hold_once: the scope must have no member but this process.
HoldOnce == ~Alive(host) /\ ~Alive(inner)
Leave ==
    /\ parent.at \in {"leave", "provisional"} /\ HoldOnce
    /\ scope' = "left" /\ lock' = [w \in Workers |-> IF lock[w] = "capture" THEN None ELSE lock[w]]
    /\ IF parent.at = "leave" THEN At("over") ELSE UNCHANGED parent
    /\ UNCHANGED <<outside, worker, children, record, overlap>>

----------------------------------------------------------------------------
(* The host.                                                               *)

Change ==
    /\ changes < MaxChanges /\ changes' = changes + 1
    /\ \/ release' = release + 1 /\ UNCHANGED replaced
       \/ \E w \in Workers \ replaced : replaced' = replaced \cup {w} /\ UNCHANGED release
    /\ UNCHANGED <<broken, lock, worker, now, timer, scope, parent, children, record, overlap>>
Drift(f) ==
    /\ scope = "alive" /\ broken' = IF f \in broken THEN {} ELSE {f}
    /\ UNCHANGED <<release, lock, replaced, worker, changes, now, timer, scope, parent, children, record, overlap>>

\* A worker runs under the lock file it finds; a replaced one is free.
Work(w) ==
    /\ ~worker[w] /\ (w \in replaced \/ lock[w] = None)
    /\ worker' = [worker EXCEPT ![w] = TRUE]
    /\ lock' = IF w \in replaced THEN lock ELSE [lock EXCEPT ![w] = "worker"]
    /\ overlap' = (overlap \/ Alive(host) \/ Alive(inner))
    /\ UNCHANGED <<outside, scope, parent, children, record>>
Rest(w) ==
    /\ worker[w] /\ worker' = [worker EXCEPT ![w] = FALSE]
    /\ lock' = IF lock[w] = "worker" THEN [lock EXCEPT ![w] = None] ELSE lock
    /\ UNCHANGED <<outside, scope, parent, children, record, overlap>>

\* systemd: at its deadline the whole scope is killed, and the locks go with the process.
\* a signal the protective hold ignores, instead of SIGKILL
MutantScopeKill ==
    /\ scope = "alive" /\ now = Wall /\ parent.at # "leave" /\ scope' = "killed"
    /\ parent' = [parent EXCEPT !.at = "over"] /\ host' = Killed(host) /\ inner' = Killed(inner)
    /\ lock' = [w \in Workers |-> IF lock[w] = "capture" THEN None ELSE lock[w]]
    /\ UNCHANGED <<outside, worker, told, finish, record, overlap>>
ScopeKill ==
    /\ scope = "alive" /\ now = Wall /\ scope' = "killed"
    /\ parent' = [parent EXCEPT !.at = "over"] /\ host' = Killed(host) /\ inner' = Killed(inner)
    /\ lock' = [w \in Workers |-> IF lock[w] = "capture" THEN None ELSE lock[w]]
    /\ UNCHANGED <<outside, worker, told, finish, record, overlap>>
Tick ==
    /\ now < Wall + Margin + 1 /\ (scope = "alive" => now < Wall) /\ now' = now + 1
    /\ UNCHANGED <<release, broken, lock, replaced, worker, changes, timer, scope, parent, children, record, overlap>>

Capture == \/ \E w \in Workers : Lock(w)
           \/ EnterFails \/ FirstCheck \/ Verify \/ SecondCheck \/ SpawnHost \/ Deadline \/ ReadHost \/ Finish
           \/ HostExits \/ Stop \/ WriteEvidence \/ WriteFails \/ Load \/ Finalize \/ Leave
Collectors == \/ HostReads \/ HostReadsChanged \/ WaitFinish \/ HostCompares \/ HostSaves
              \/ InnerReads \/ InnerCompares \/ InnerEnds \/ ChildDies
Next == \/ (scope = "alive" /\ (Capture \/ Collectors)) \/ Change \/ ScopeKill \/ Tick
        \/ \E f \in Drifting : Drift(f)
        \/ \E w \in Workers : Work(w) \/ Rest(w)

\* systemd enforces the deadline of the scope and time passes.
Spec == Init /\ [][Next]_vars /\ WF_vars(Tick) /\ WF_vars(ScopeKill)

----------------------------------------------------------------------------
(* Properties                                                              *)

\* The bracket: a provisional result means both collectors saw the pinned release, and the host still saw it after the
\* restricted one had read it; a change that was undone in between is a version of its own.
BracketIsTight ==
    parent.at = "provisional" =>
        /\ inner.exit = 0 /\ host.exit = 0
        /\ {host.before, inner.before, inner.after, host.after} = {0}

\* No worker ran beside a collector of a capture that became a result, although lock files may be replaced at any time.
ResultIsExclusive == parent.at = "provisional" => ~overlap

\* The locks outlive the collectors: whatever fails, no pinned lock is free while a collector of the scope still runs.
LocksCoverCollectors == Alive(host) \/ Alive(inner) => Holding

\* The scope, kill and cleanup included, is over well before the next production timer once a collector has started.
ProductionClear == (Alive(host) \/ Alive(inner)) => now + Margin < timer

\* A record that verifies survives a power loss: no image the disk can then have lacks a file or the marker.
Images == {s \in SUBSET (Files \cup {"pending"}) : wrote \cap disk \subseteq s /\ s \subseteq wrote \cup disk}
MarkerIsDurable == Verifies(wrote) => \A s \in Images : Files \subseteq s

\* Whatever stalls, the locks come back: by the capture or by the deadline of its scope.
LocksComeBack == <>[](\A w \in Workers : lock[w] # "capture")
=============================================================================
