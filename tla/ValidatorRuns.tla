--------------------------- MODULE ValidatorRuns ---------------------------
(* The validation host (ops/vps/validate_pr.py, release_evidence.py and    *)
(* install_release_validator.py).  Each request is a parent process that   *)
(* starts a systemd service and waits for it.  The service's worker takes  *)
(* the validation lock, sweeps what dead runs left, exports the requested  *)
(* revision, and runs it in a container under the pinned harness; the      *)
(* worker, the service's ExecStopPost and the parent each clean the run.   *)
(* Any of them may die or fail at any moment, a cleaner half-way.  An      *)
(* installer replaces the validator's own files under the same lock.       *)
EXTENDS Naturals, FiniteSets

CONSTANTS
  Runs,        \* requests, one service each
  Releases,    \* those that ask for a release; the others for a pull request
  Files,       \* the validator files the installer replaces
  MaxMoves,    \* bound on how often the branch tip moves
  MaxDeaths,   \* bound on how many processes are killed, or fail in cleaning
  Maintained   \* whether root installs and replaces files meanwhile

ConstantsAssumption ==
  /\ Runs \cap {"none", "installer"} = {}   \* lock tells them apart
  /\ Releases \subseteq Runs /\ IsFiniteSet(Files) /\ Files # {}
  /\ MaxMoves \in Nat /\ MaxDeaths \in Nat /\ Maintained \in BOOLEAN

VARIABLES
  sha,         \* sha[r]: the revision requested
  tip,         \* the current head of the branch
  lock,        \* who holds validation.lock
  parent, worker, podman, post,   \* progress of each run's four processes
  dirs,        \* run directories present
  running,     \* containers running
  exited,      \* containers ended and not removed
  listed,      \* what a cleaner has still to remove
  code,        \* code[r]: harness pinned for run r
  bound,       \* bound[r]: binding computed by the worker of r
  asked,       \* asked[r]: binding computed by the parent of r
  verdict,     \* verdict[r]: the report of run r
  files,       \* version installed of each file
  harness,     \* version of the installed harness
  installer,   \* progress of the installer
  cache,       \* the last release success, if any
  proved,      \* what containers have passed
  deaths       \* processes killed, and clean-ups failed by themselves

vars == <<sha, tip, lock, parent, worker, podman, post, dirs, running,
          exited, listed, code, bound, asked, verdict, files, harness,
          installer, cache, proved, deaths>>
identity == <<sha, deaths>>
install == <<files, harness, installer>>
remains == <<dirs, running, exited>>

----------------------------------------------------------------------------
Nobody == "none"
Cleaners == {"worker", "post", "parent", "sweep"}
Versions == {1, 2}

(* What the revision of release_evidence.binding hashes; the image and the *)
(* configuration do not change here.                                       *)
Binding == [files |-> files, harness |-> harness]

Containers == running \cup exited
Present == dirs \cup Containers

(* What the given runs have on the host, item by item.                     *)
Items(S) ==
  ({"container"} \X (S \cap Containers)) \cup ({"directory"} \X (S \cap dirs))

(* A worker is active from taking the lock until it releases it.           *)
Active == {"locked", "sweeping", "swept", "prepared", "launched", "collected",
           "cleaning", "cleaned"}

Init ==
  /\ deaths = 0 /\ sha \in [Runs -> 0..MaxMoves] /\ tip = 0
  /\ lock = Nobody
  /\ parent = [r \in Runs |-> "new"] /\ worker = [r \in Runs |-> Nobody]
  /\ podman = [r \in Runs |-> Nobody] /\ post = [r \in Runs |-> Nobody]
  /\ dirs = {} /\ running = {} /\ exited = {}
  /\ listed = [c \in Cleaners |-> [r \in Runs |-> {}]]
  /\ code = [r \in Runs |-> 0] /\ verdict = [r \in Runs |-> "unset"]
  /\ files = [f \in Files |-> 1] /\ harness = 1 /\ installer = Nobody
  /\ bound = [r \in Runs |-> Binding] /\ asked = [r \in Runs |-> Binding]
  /\ cache = {} /\ proved = {}

----------------------------------------------------------------------------
(* Cleaning.  A cleaner lists what it finds and removes one item after the *)
(* other, of each run the container before the directory.  It fails when   *)
(* another cleaner is at the same item or was faster, or when a command of *)
(* its own fails; what it has not removed then stays.                      *)

List(c, r, S) == listed' = [listed EXCEPT ![c][r] = Items(S)]

Ready(c, r) ==
  {x \in listed[c][r] : x[1] = "directory" => <<"container", x[2]>> \notin listed[c][r]}

Remove(c, r) ==
  /\ \E x \in Ready(c, r) :
       /\ listed' = [listed EXCEPT ![c][r] = @ \ {x}]
       /\ IF x[1] = "directory" THEN dirs' = dirs \ {x[2]} /\ UNCHANGED <<running, exited>>
          ELSE running' = running \ {x[2]} /\ exited' = exited \ {x[2]} /\ UNCHANGED dirs
  /\ UNCHANGED <<identity, tip, lock, parent, worker, podman, post, code, bound, asked,
                 verdict, install, cache, proved>>

Disputed(c, r, x) ==
  \/ x \notin Items(Runs)
  \/ \E d \in Cleaners, q \in Runs : <<d, q>> # <<c, r>> /\ x \in Ready(d, q)

Succeeds(c, r) == listed[c][r] = {} /\ UNCHANGED <<listed, deaths>>

GivesUp(c, r) ==
  /\ listed' = [listed EXCEPT ![c][r] = {}]
  /\ \/ (\E x \in Ready(c, r) : Disputed(c, r, x)) /\ UNCHANGED deaths
     \/ deaths < MaxDeaths /\ deaths' = deaths + 1

----------------------------------------------------------------------------
(* The parent.                                                             *)

Request(r) ==
  /\ parent[r] = "new" /\ worker[r] = Nobody
  /\ parent' = [parent EXCEPT ![r] = "waiting"]
  /\ worker' = [worker EXCEPT ![r] = "begin"]
  /\ asked' = [asked EXCEPT ![r] = Binding]
  /\ UNCHANGED <<identity, tip, lock, podman, post, remains, listed, code, bound,
                 verdict, install, cache, proved>>

(* The service is over once its processes and ExecStopPost are; or the     *)
(* parent gives up after 360 s, when the service's processes are gone      *)
(* (RuntimeMaxSec and TimeoutStopSec add up to 345 s).                     *)
ServiceOver(r) == post[r] \in {"done", "failed"}
ProcessesGone(r) == worker[r] \in {"ended", "killed"} /\ podman[r] = Nobody

MutantReturn(r) ==
  /\ parent[r] = "waiting" /\ ProcessesGone(r)
  /\ \/ ServiceOver(r) /\ worker[r] = "ended" /\ verdict' = verdict
     \/ verdict' = [verdict EXCEPT ![r] = "FAIL"]
  /\ UNCHANGED listed
  /\ parent' = [parent EXCEPT ![r] = "cleaning"]
  /\ UNCHANGED <<identity, tip, lock, worker, podman, post, remains, code, bound,
                 asked, install, cache, proved>>

Return(r) ==
  /\ parent[r] = "waiting" /\ ProcessesGone(r)
  /\ \/ /\ ServiceOver(r)
        /\ verdict' = [verdict EXCEPT ![r] =
             IF \/ worker[r] = "killed" \/ post[r] = "failed"
                \/ r \in Releases /\ bound[r] # asked[r] /\ @ = "PASS"
             THEN "FAIL" ELSE @]
     \/ verdict' = [verdict EXCEPT ![r] = "FAIL"]
  /\ List("parent", r, {r})
  /\ parent' = [parent EXCEPT ![r] = "cleaning"]
  /\ UNCHANGED <<identity, tip, lock, worker, podman, post, remains, code, bound,
                 asked, install, cache, proved>>

(* After the final clean-up comes the check that the installation is still *)
(* the one the request began with; its failure replaces the report.        *)
Concludes(r, report) ==
  verdict' = [verdict EXCEPT ![r] =
    IF r \in Releases /\ asked[r] # Binding THEN "INVALID_CONFIGURATION" ELSE report]

Clean(r) ==
  /\ parent[r] = "cleaning"
  /\ \/ Succeeds("parent", r) /\ Concludes(r, verdict[r])
     \/ GivesUp("parent", r) /\ Concludes(r, "CLEANUP_FAILED")
  /\ parent' = [parent EXCEPT ![r] =
       IF r \in Releases /\ verdict'[r] = "PASS" THEN "saving" ELSE "printed"]
  /\ UNCHANGED <<sha, tip, lock, worker, podman, post, remains, code, bound, asked,
                 install, cache, proved>>

(* save_success: under the lock, and skipped when somebody holds it.       *)
Save(r) ==
  /\ parent[r] = "saving"
  /\ \/ lock # Nobody /\ UNCHANGED <<cache, verdict>>
     \/ /\ lock = Nobody
        /\ IF Binding = asked[r]
           THEN cache' = {[sha |-> sha[r], binding |-> asked[r], by |-> r]}
                /\ UNCHANGED verdict
           ELSE verdict' = [verdict EXCEPT ![r] = "INVALID_CONFIGURATION"] /\ UNCHANGED cache
  /\ parent' = [parent EXCEPT ![r] = "printed"]
  /\ UNCHANGED <<identity, tip, lock, worker, podman, post, remains, listed, code,
                 bound, asked, install, proved>>

----------------------------------------------------------------------------
(* The worker.                                                             *)

Ends(r, outcome) ==
  /\ verdict' = [verdict EXCEPT ![r] = outcome]
  /\ worker' = [worker EXCEPT ![r] = "ended"]
  /\ lock' = IF lock = r THEN Nobody ELSE lock

Begin(r) ==
  /\ worker[r] = "begin"
  /\ bound' = [bound EXCEPT ![r] = Binding]
  /\ worker' = [worker EXCEPT ![r] = "bound"]
  /\ UNCHANGED <<identity, tip, lock, parent, podman, post, remains, listed, code,
                 asked, verdict, install, cache, proved>>

Lock(r) ==
  /\ worker[r] = "bound"
  /\ IF lock # Nobody THEN Ends(r, "BUSY")
     ELSE lock' = r /\ worker' = [worker EXCEPT ![r] = "locked"] /\ UNCHANGED verdict
  /\ UNCHANGED <<identity, tip, parent, podman, post, remains, listed, code, bound,
                 asked, install, cache, proved>>

SweepList(r) ==
  /\ worker[r] = "locked"
  /\ List("sweep", r, Runs)
  /\ worker' = [worker EXCEPT ![r] = "sweeping"]
  /\ UNCHANGED <<identity, tip, lock, parent, podman, post, remains, code, bound,
                 asked, verdict, install, cache, proved>>

Sweep(r) ==
  /\ worker[r] = "sweeping"
  /\ \/ /\ Succeeds("sweep", r)
        /\ worker' = [worker EXCEPT ![r] = "swept"] /\ UNCHANGED <<verdict, lock>>
     \/ GivesUp("sweep", r) /\ Ends(r, "FAIL")
  /\ UNCHANGED <<sha, tip, parent, podman, post, remains, code, bound, asked, install,
                 cache, proved>>

(* cached_release: a saved success is reused only for the same revision,   *)
(* still the tip, under the same installation.                             *)
Reusable(r) ==
  /\ r \in Releases
  /\ \E c \in cache : c.sha = sha[r] /\ c.binding = bound[r]

Prepare(r) ==
  /\ worker[r] = "swept"
  /\ IF tip # sha[r] THEN Ends(r, "FAIL") /\ UNCHANGED dirs
     ELSE IF Reusable(r) THEN Ends(r, "PASS") /\ UNCHANGED dirs
     ELSE /\ dirs' = dirs \cup {r}
          /\ worker' = [worker EXCEPT ![r] = "prepared"] /\ UNCHANGED <<verdict, lock>>
  /\ UNCHANGED <<identity, tip, parent, podman, post, running, exited, listed, code,
                 bound, asked, install, cache, proved>>

(* The fetched head must be the requested revision; the harness is pinned  *)
(* and podman started.                                                     *)
Launch(r) ==
  /\ worker[r] = "prepared"
  /\ IF tip # sha[r]
     THEN /\ worker' = [worker EXCEPT ![r] = "collected"]
          /\ verdict' = [verdict EXCEPT ![r] = "FAIL"] /\ UNCHANGED <<podman, code>>
     ELSE /\ podman' = [podman EXCEPT ![r] = "starting"]
          /\ code' = [code EXCEPT ![r] = harness]
          /\ worker' = [worker EXCEPT ![r] = "launched"] /\ UNCHANGED verdict
  /\ UNCHANGED <<identity, tip, lock, parent, post, remains, listed, bound, asked,
                 install, cache, proved>>

(* The installed harness is the one pinned, in identity and content.       *)
Pinned(r) == harness = code[r]

(* Inside the container the bootstrap refuses a harness that is not the    *)
(* pinned one.  The container ends by itself, or after 240 s.              *)
Starts(r) ==
  /\ podman[r] = "starting"
  /\ podman' = [podman EXCEPT ![r] = "attached"]
  /\ IF Pinned(r) /\ r \in dirs
     THEN running' = running \cup {r} /\ UNCHANGED exited
     ELSE exited' = exited \cup {r} /\ UNCHANGED running
  /\ UNCHANGED <<identity, tip, lock, parent, worker, post, dirs, listed, code, bound,
                 asked, verdict, install, cache, proved>>

ContainerEnds(r) ==
  /\ r \in running
  /\ running' = running \ {r} /\ exited' = exited \cup {r}
  /\ \/ proved' = proved \cup {[sha |-> sha[r], binding |-> bound[r], code |-> code[r]]}
     \/ UNCHANGED proved
  /\ UNCHANGED <<identity, tip, lock, parent, worker, podman, post, dirs, listed, code,
                 bound, asked, verdict, install, cache>>

Passed(r) == [sha |-> sha[r], binding |-> bound[r], code |-> code[r]] \in proved

MutantCollect(r) ==
  /\ worker[r] = "launched" /\ podman[r] = "attached" /\ r \notin running
  /\ podman' = [podman EXCEPT ![r] = Nobody]
  /\ worker' = [worker EXCEPT ![r] = "collected"]
  /\ verdict' = [verdict EXCEPT ![r] = IF Pinned(r) THEN "PASS" ELSE "FAIL"]
  /\ UNCHANGED <<identity, tip, lock, parent, post, remains, listed, code, bound,
                 asked, install, cache, proved>>

(* The report is read, and the harness verified once more.                 *)
Collect(r) ==
  /\ worker[r] = "launched" /\ podman[r] = "attached" /\ r \notin running
  /\ podman' = [podman EXCEPT ![r] = Nobody]
  /\ worker' = [worker EXCEPT ![r] = "collected"]
  /\ verdict' = [verdict EXCEPT ![r] =
       IF Passed(r) /\ Pinned(r) /\ r \in exited THEN "PASS" ELSE "FAIL"]
  /\ UNCHANGED <<identity, tip, lock, parent, post, remains, listed, code, bound,
                 asked, install, cache, proved>>

WorkerLists(r) ==
  /\ worker[r] = "collected"
  /\ List("worker", r, {r})
  /\ worker' = [worker EXCEPT ![r] = "cleaning"]
  /\ UNCHANGED <<identity, tip, lock, parent, podman, post, remains, code, bound,
                 asked, verdict, install, cache, proved>>

WorkerCleans(r) ==
  /\ worker[r] = "cleaning"
  /\ \/ Succeeds("worker", r) /\ UNCHANGED verdict
     \/ GivesUp("worker", r) /\ verdict' = [verdict EXCEPT ![r] = "CLEANUP_FAILED"]
  /\ worker' = [worker EXCEPT ![r] = "cleaned"]
  /\ UNCHANGED <<sha, tip, lock, parent, podman, post, remains, code, bound, asked,
                 install, cache, proved>>

(* Evidence of a release counts only if the installation did not change.   *)
Finish(r) ==
  /\ worker[r] = "cleaned"
  /\ Ends(r, IF r \in Releases /\ Binding # bound[r] THEN "FAIL" ELSE verdict[r])
  /\ UNCHANGED <<identity, tip, parent, podman, post, remains, listed, code, bound,
                 asked, install, cache, proved>>

(* ExecStopPost runs when every process of the service is gone; podman,    *)
(* which got the same signal, is killed at the latest after 45 s.          *)
PodmanGone(r) ==
  /\ worker[r] = "killed" /\ podman[r] # Nobody
  /\ podman' = [podman EXCEPT ![r] = Nobody]
  /\ UNCHANGED <<identity, tip, lock, parent, worker, post, remains, listed, code,
                 bound, asked, verdict, install, cache, proved>>

MutantStopPost(r) ==
  /\ ProcessesGone(r) /\ post[r] = Nobody
  /\ List("post", r, {r} \cap Containers)
  /\ post' = [post EXCEPT ![r] = "cleaning"]
  /\ UNCHANGED <<identity, tip, lock, parent, worker, podman, remains, code, bound,
                 asked, verdict, install, cache, proved>>

StopPost(r) ==
  /\ ProcessesGone(r) /\ post[r] = Nobody
  /\ List("post", r, {r})
  /\ post' = [post EXCEPT ![r] = "cleaning"]
  /\ UNCHANGED <<identity, tip, lock, parent, worker, podman, remains, code, bound,
                 asked, verdict, install, cache, proved>>

StopPostCleans(r) ==
  /\ post[r] = "cleaning"
  /\ \/ Succeeds("post", r) /\ post' = [post EXCEPT ![r] = "done"]
     \/ GivesUp("post", r) /\ post' = [post EXCEPT ![r] = "failed"]
  /\ UNCHANGED <<sha, tip, lock, parent, worker, podman, remains, code, bound, asked,
                 verdict, install, cache, proved>>

----------------------------------------------------------------------------
(* Deaths: the worker's RuntimeMaxSec, an operator's kill; the parent's    *)
(* connection.  A dead worker's lock is free at once.                      *)

WorkerKilled(r) ==
  /\ deaths < MaxDeaths /\ deaths' = deaths + 1
  /\ worker[r] \in Active \cup {"begin", "bound"}
  /\ worker' = [worker EXCEPT ![r] = "killed"]
  /\ lock' = IF lock = r THEN Nobody ELSE lock
  /\ listed' = [listed EXCEPT !["worker"][r] = {}, !["sweep"][r] = {}]
  /\ UNCHANGED <<sha, tip, parent, podman, post, remains, code, bound, asked,
                 verdict, install, cache, proved>>

ParentDies(r) ==
  /\ deaths < MaxDeaths /\ deaths' = deaths + 1
  /\ parent[r] \in {"waiting", "cleaning", "saving"}
  /\ parent' = [parent EXCEPT ![r] = "dead"]
  /\ listed' = [listed EXCEPT !["parent"][r] = {}]
  /\ UNCHANGED <<sha, tip, lock, worker, podman, post, remains, code, bound, asked,
                 verdict, install, cache, proved>>

----------------------------------------------------------------------------
(* The installer, and root replacing the harness at any time.              *)

(* No process of the validator may exist when the installer looks.         *)
Idle ==
  \A r \in Runs :
    /\ parent[r] \in {"new", "printed", "dead"}
    /\ worker[r] \in {Nobody, "ended", "killed"} /\ podman[r] = Nobody
    /\ post[r] # "cleaning"

MutantInstall ==
  /\ Maintained /\ installer = Nobody
  /\ installer' = "replacing"
  /\ UNCHANGED <<identity, tip, lock, parent, worker, podman, post, remains, listed,
                 code, bound, asked, verdict, files, harness, cache, proved>>

Install ==
  /\ Maintained /\ installer = Nobody /\ lock = Nobody /\ Idle
  /\ installer' = "replacing" /\ lock' = "installer"
  /\ UNCHANGED <<identity, tip, parent, worker, podman, post, remains, listed, code,
                 bound, asked, verdict, files, harness, cache, proved>>

MutantReplace(f) ==
  /\ installer = "replacing"
  /\ files' = [files EXCEPT ![f] = @ + 1]
  /\ UNCHANGED <<identity, tip, lock, parent, worker, podman, post, remains, listed,
                 code, bound, asked, verdict, harness, installer, cache, proved>>

Replace(f) ==
  /\ installer = "replacing" /\ files[f] = 1
  /\ files' = [files EXCEPT ![f] = 2]
  /\ UNCHANGED <<identity, tip, lock, parent, worker, podman, post, remains, listed,
                 code, bound, asked, verdict, harness, installer, cache, proved>>

(* The backup holds every file the installation replaced.                  *)
Restored == [f \in Files |-> 1]

(* All replaced and verified; or a failure, and the saved files restored   *)
(* provided that the host is still idle; or the installer dies.            *)
Installed ==
  /\ installer = "replacing"
  /\ \/ /\ \A f \in Files : files[f] = 2
        /\ installer' = "installed" /\ UNCHANGED files
     \/ Idle /\ installer' = "rolled back" /\ files' = Restored
     \/ installer' = "broken" /\ UNCHANGED files
  /\ lock' = IF lock = "installer" THEN Nobody ELSE lock
  /\ UNCHANGED <<identity, tip, parent, worker, podman, post, remains, listed, code,
                 bound, asked, verdict, harness, cache, proved>>

ReplaceHarness ==
  /\ Maintained /\ harness = 1 /\ harness' = 2
  /\ UNCHANGED <<identity, tip, lock, parent, worker, podman, post, remains, listed,
                 code, bound, asked, verdict, files, installer, cache, proved>>

TipMoves ==
  /\ tip < MaxMoves /\ tip' = tip + 1
  /\ UNCHANGED <<identity, lock, parent, worker, podman, post, remains, listed, code,
                 bound, asked, verdict, install, cache, proved>>

----------------------------------------------------------------------------
WorkerStep(r) ==
  \/ Begin(r) \/ Lock(r) \/ SweepList(r) \/ Sweep(r) \/ Prepare(r) \/ Launch(r)
  \/ Collect(r) \/ WorkerLists(r) \/ WorkerCleans(r) \/ Finish(r)
ServiceStep(r) ==
  WorkerStep(r) \/ Starts(r) \/ ContainerEnds(r) \/ PodmanGone(r)
    \/ StopPost(r) \/ StopPostCleans(r) \/ (\E c \in Cleaners \ {"parent"} : Remove(c, r))
ParentGoesOn(r) == Return(r) \/ Remove("parent", r) \/ Clean(r) \/ Save(r)

Next ==
  \/ \E r \in Runs :
       Request(r) \/ ServiceStep(r) \/ ParentGoesOn(r) \/ WorkerKilled(r) \/ ParentDies(r)
  \/ Install \/ (\E f \in Files : Replace(f)) \/ Installed \/ ReplaceHarness \/ TipMoves

Spec == Init /\ [][Next]_vars

(* systemd carries started services to their end, and parents that are     *)
(* alive go on.  Each step is taken once, so no process can starve another.*)
GoesOn(r) == ServiceStep(r) \/ ParentGoesOn(r)
FairSpec == Spec /\ WF_vars(\E r \in Runs : GoesOn(r))

----------------------------------------------------------------------------
TypeOK ==
  /\ tip \in 0..MaxMoves
  /\ lock \in Runs \cup {Nobody, "installer"}
  /\ parent \in [Runs -> {"new", "waiting", "cleaning", "saving", "printed", "dead"}]
  /\ worker \in [Runs -> Active \cup {Nobody, "begin", "bound", "ended", "killed"}]
  /\ podman \in [Runs -> {Nobody, "starting", "attached"}]
  /\ post \in [Runs -> {Nobody, "cleaning", "done", "failed"}]
  /\ dirs \subseteq Runs /\ running \subseteq Runs /\ exited \subseteq Runs
  /\ verdict \in [Runs -> {"unset", "PASS", "FAIL", "BUSY", "CLEANUP_FAILED",
                           "INVALID_CONFIGURATION"}]
  /\ files \in [Files -> Versions] /\ harness \in Versions
  /\ deaths \in 0..MaxDeaths

(* A printed PASS stands for a container that passed for that revision     *)
(* under a harness that never changed; for a release, under the            *)
(* installation the parent asked for.                                      *)
PassIsReal ==
  \A r \in Runs :
    parent[r] = "printed" /\ verdict[r] = "PASS" =>
      \E p \in proved :
        /\ p.sha = sha[r]
        /\ p.binding.harness = p.code \/ r \notin Releases
        /\ r \in Releases => p.binding = asked[r]

(* The evidence kept for reuse was produced by a container that passed,    *)
(* and its run had left nothing behind when it was kept.                   *)
CacheIsReal ==
  \A c \in cache :
    /\ \E p \in proved : p.sha = c.sha /\ p.binding = c.binding
    /\ c.by \notin Present

(* A release never passes on a half-installed validator, unless the        *)
(* installer itself broke half-way.                                        *)
MixedNeverPasses ==
  \A r \in Runs :
    r \in Releases /\ parent[r] = "printed" /\ verdict[r] = "PASS"
      /\ installer # "broken" =>
        \A f, g \in Files : asked[r].files[f] = asked[r].files[g]

(* When a parent has printed, its run has left no directory and no         *)
(* container, unless it printed CLEANUP_FAILED or, for a release whose     *)
(* installation changed meanwhile, INVALID_CONFIGURATION in its place.     *)
NothingLeft ==
  \A r \in Runs :
    parent[r] = "printed" /\ r \in Present =>
      verdict[r] = "CLEANUP_FAILED" \/ (verdict[r] = "INVALID_CONFIGURATION" /\ r \in Releases)

(* The validator's files change only while no worker is at work.           *)
InstallExcludesWorkers ==
  files' # files => \A r \in Runs : worker[r] \notin Active

(* Whatever a run created is gone in the end, whichever single process     *)
(* dies or fails; after two it may stay until a later request sweeps, and  *)
(* the run's ExecStopPost has then failed.                                 *)
Removed(r) == r \notin Present \/ (deaths > 1 /\ post[r] = "failed")
RunsAreRemoved == \A r \in Runs : <>[]Removed(r)
============================================================================
