--------------------------- MODULE TrustedOffline ---------------------------
(* Offline validation asked for by GitHub                                  *)
(* (ops/vps/github_offline_validation.py, github_release_validation.py):   *)
(* jobs started by a green CI attempt, by a maintainer's comment or by a   *)
(* push to main ask the validation host over SSH and answer with a commit  *)
(* status or with the result of the release job.  Runners are lost, API    *)
(* calls fail before or after they took effect, the pull request's head    *)
(* and main move, and the host keeps validating when nobody listens.       *)
EXTENDS Naturals, FiniteSets

CONSTANTS
  Shas,        \* commits
  Revision,    \* Revision[s]: the validator files in the tree of s
  Kinds,       \* subset of {"auto", "comment", "release"}
  Settings,    \* orchestration commits with the host, host key and key
               \* fingerprint configured for the workflow
  MaxAttempts, \* bound on the CI attempts of a commit
  MaxJobs      \* bound on the jobs

ConstantsAssumption ==
  /\ Kinds \subseteq {"auto", "comment", "release"} /\ DOMAIN Revision = Shas
  /\ MaxAttempts \in Nat /\ MaxJobs \in Nat

VARIABLES
  tip,        \* head of the open pull request, or main for releases
  green,      \* CI attempts that succeeded: [sha, attempt]
  jobs,       \* jobs started and not ended
  queued,     \* the one job that waits for the concurrency group
  started,    \* number of jobs so far
  markers,    \* requests with a "Trusted OFFLINE request" status
  status,     \* latest Trusted OFFLINE status of a commit
  unfinished, \* commits whose runner was lost, or whose final call failed
  installed,  \* revision of the installed validator
  host,       \* validations at work: [job, sha, revision, locked]
  reports,    \* what the host answered: [job, sha, result, revision]
  proved,     \* <<sha, revision>> that passed on the host
  invoked,    \* SSH calls made for a request
  posted,     \* ghost: statuses a job posted, with the tips it lived under
  accepted    \* releases whose job passed: <<sha, tip when asked>>

vars == <<tip, green, jobs, queued, started, markers, status, unfinished, installed, host, reports,
          proved, invoked, posted, accepted>>
repository == <<tip, green, installed>>
github == <<queued, started, markers, status, unfinished, posted, accepted>>
remote == <<host, reports, proved>>

States == {"none", "pending", "success", "failure", "error"}
CiAttempts == [sha : Shas, attempt : 1..MaxAttempts]

(* A CI attempt as one orchestration commit and configuration asks for it. *)
Requests == [sha : Shas, attempt : 1..MaxAttempts, setting : Settings]

----------------------------------------------------------------------------
(* The world: pushes, CI, and the installation of the validator.           *)

Move(sha) ==
  /\ sha # tip /\ tip' = sha
  /\ jobs' = {[j EXCEPT !.tips = @ \cup {sha}] : j \in jobs}
  /\ queued' = {[j EXCEPT !.tips = @ \cup {sha}] : j \in queued}
  /\ UNCHANGED <<green, started, markers, status, unfinished, installed, remote, invoked, posted, accepted>>

CiPasses(ci) ==
  /\ "auto" \in Kinds /\ ci \notin green /\ green' = green \cup {ci}
  /\ UNCHANGED <<tip, installed, jobs, github, remote, invoked>>

Install(revision) ==
  /\ "release" \in Kinds /\ installed' = revision
  /\ UNCHANGED <<tip, green, jobs, github, remote, invoked>>

----------------------------------------------------------------------------
(* Jobs and their concurrency group: one runs, the newest other one waits. *)

Job(kind, event) ==
  [id |-> started + 1, kind |-> kind, event |-> event, sha |-> 0, step |-> "resolve",
   result |-> "error", tips |-> {tip}]

MutantTrigger(kind, event) ==
  /\ started < MaxJobs /\ started' = started + 1
  /\ jobs' = jobs \cup {Job(kind, event)} /\ UNCHANGED queued
  /\ UNCHANGED <<repository, markers, status, unfinished, remote, invoked, posted, accepted>>

(* A first delivery, a repeated one or a re-run of the same event; for CI, *)
(* under whatever main and the workflow's variables are by then.           *)
Trigger(kind, event) ==
  /\ started < MaxJobs /\ started' = started + 1
  /\ IF jobs = {} THEN jobs' = {Job(kind, event)} /\ UNCHANGED queued
                  ELSE queued' = {Job(kind, event)} /\ UNCHANGED jobs
  /\ UNCHANGED <<repository, markers, status, unfinished, remote, invoked, posted, accepted>>

Goes(j, k) == jobs' = (jobs \ {j}) \cup {k} /\ UNCHANGED queued

(* The job ends; what waits for the group starts.                          *)
Ends(j) == jobs' = (jobs \ {j}) \cup queued /\ queued' = {}

(* Rejected, or an API call failed: nothing further is posted.             *)
Fails(j) ==
  /\ Ends(j) /\ UNCHANGED <<repository, started, markers, status, unfinished, remote, invoked, posted, accepted>>

MutantIdentity(j) == IF j.kind = "auto" THEN {j.event.sha} ELSE {tip}

(* What resolve returns: the head of the pull request, for an automatic    *)
(* request only while it is the commit that CI has passed.                 *)
Identity(j) ==
  IF j.kind = "auto" THEN {s \in {j.event.sha} : s = tip}
  ELSE IF j.kind = "comment" THEN {tip}
  ELSE {j.event.sha}

Resolve(j) ==
  /\ j.step = "resolve"
  /\ \/ \E s \in Identity(j) : Goes(j, [j EXCEPT !.sha = s, !.step = "recheck"])
     \/ Ends(j)
  /\ UNCHANGED <<repository, started, markers, status, unfinished, remote, invoked, posted, accepted>>

(* execute: authorised and resolved again, and still the same commit; a    *)
(* release instead requires main to be at it.                              *)
Recheck(j) ==
  /\ j.step = "recheck"
  /\ \/ /\ IF j.kind = "release" THEN tip = j.sha ELSE j.sha \in Identity(j)
        /\ Goes(j, [j EXCEPT !.step = CASE j.kind = "auto" -> "listing"
                                        [] j.kind = "comment" -> "pending"
                                        [] OTHER -> "ssh"])
     \/ Ends(j)
  /\ UNCHANGED <<repository, started, markers, status, unfinished, remote, invoked, posted, accepted>>

(* What the digest of a request binds.                                     *)
RequestMarker(j) == [sha |-> j.sha, attempt |-> j.event.attempt, setting |-> j.event.setting]

Marked(j) == RequestMarker(j) \in markers

(* Duplicates end here; a listing that may be truncated ends the job too.  *)
AlreadyRequested(j) ==
  /\ j.step = "listing"
  /\ IF Marked(j) THEN Ends(j) ELSE Goes(j, [j EXCEPT !.step = "mark"]) \/ Ends(j)
  /\ UNCHANGED <<repository, started, markers, status, unfinished, remote, invoked, posted, accepted>>

MutantMark(j) ==
  /\ j.step = "mark" /\ Goes(j, [j EXCEPT !.step = "pending"])
  /\ UNCHANGED <<repository, started, markers, status, unfinished, remote, invoked, posted, accepted>>

(* The marker is on file before anything is asked; the call may fail after *)
(* it took effect.                                                         *)
Mark(j) ==
  /\ j.step = "mark"
  /\ markers' = markers \cup {RequestMarker(j)}
  /\ Goes(j, [j EXCEPT !.step = "pending"]) \/ Ends(j)
  /\ UNCHANGED <<repository, started, status, unfinished, remote, invoked, posted, accepted>>

Post(j, sha, state) ==
  /\ status' = [status EXCEPT ![sha] = state]
  /\ posted' = posted \cup {[sha |-> sha, tips |-> j.tips]}

Pending(j) ==
  /\ j.step = "pending" /\ Post(j, j.sha, "pending")
  /\ \/ Goes(j, [j EXCEPT !.step = "ssh"]) /\ UNCHANGED unfinished
     \/ Ends(j) /\ unfinished' = unfinished \cup {j.sha}
  /\ UNCHANGED <<repository, started, markers, remote, invoked, accepted>>

(* One SSH invocation, or a transport that is not configured.              *)
Ssh(j) ==
  /\ j.step = "ssh"
  /\ \/ /\ host' = host \cup {[job |-> j.id, sha |-> j.sha, revision |-> installed, locked |-> FALSE]}
        /\ Goes(j, [j EXCEPT !.step = "waiting"])
        /\ invoked' = IF j.kind = "auto" THEN [invoked EXCEPT ![RequestMarker(j)] = @ + 1]
                      ELSE invoked
     \/ /\ Goes(j, [j EXCEPT !.step = "final"]) /\ UNCHANGED <<host, invoked>>
  /\ UNCHANGED <<repository, started, markers, status, unfinished, reports, proved, posted, accepted>>

Conclusion(r) == IF r.result = "PASS" THEN "success" ELSE "failure"

(* The report is read, or the connection, the timeout or the report's      *)
(* validation fails; afterwards the head is read for the description, and  *)
(* an API failure there makes an error of a valid report.                  *)
Answer(j) ==
  /\ j.step = "waiting" /\ j.kind # "release"
  /\ \/ \E r \in reports : r.job = j.id /\ r.sha = j.sha
                             /\ Goes(j, [j EXCEPT !.step = "final", !.result = Conclusion(r)])
     \/ Goes(j, [j EXCEPT !.step = "final"])
  /\ UNCHANGED <<repository, started, markers, status, unfinished, remote, invoked, posted, accepted>>

MutantFinal(j) ==
  /\ j.step = "final" /\ Ends(j)
  /\ IF j.result = "error" THEN UNCHANGED <<status, unfinished, posted>>
     ELSE Post(j, j.sha, j.result) /\ UNCHANGED unfinished
  /\ UNCHANGED <<repository, started, markers, remote, invoked, accepted>>

MutantNewHead(j) ==
  /\ j.step = "final" /\ Ends(j)
  /\ \/ Post(j, tip, j.result) /\ UNCHANGED unfinished
     \/ unfinished' = unfinished \cup {j.sha} /\ UNCHANGED <<status, posted>>
  /\ UNCHANGED <<repository, started, markers, remote, invoked, accepted>>

(* The final status, for the commit that was validated.                    *)
Final(j) ==
  /\ j.step = "final" /\ Ends(j)
  /\ \/ Post(j, j.sha, j.result) /\ UNCHANGED unfinished
     \/ unfinished' = unfinished \cup {j.sha} /\ UNCHANGED <<status, posted>>
  /\ UNCHANGED <<repository, started, markers, remote, invoked, accepted>>

MutantReleaseAnswer(j) ==
  /\ j.step = "waiting" /\ j.kind = "release" /\ Ends(j)
  /\ \E r \in reports : r.job = j.id /\ r.sha = j.sha /\ r.result = "PASS"
  /\ accepted' = accepted \cup {j.sha}
  /\ UNCHANGED <<repository, started, markers, status, unfinished, remote, invoked, posted>>

(* The envelope names the commit and the validator in the commit's tree.   *)
ReleaseAnswer(j) ==
  /\ j.step = "waiting" /\ j.kind = "release" /\ Ends(j)
  /\ \/ /\ \E r \in reports : r.job = j.id /\ r.sha = j.sha /\ r.revision = Revision[j.sha]
                                /\ r.result = "PASS"
        /\ accepted' = accepted \cup {j.sha}
     \/ UNCHANGED accepted
  /\ UNCHANGED <<repository, started, markers, status, unfinished, remote, invoked, posted>>

(* A release job without a transport ends as UNVERIFIED.                   *)
Unverified(j) ==
  /\ j.kind = "release" /\ j.step = "final" /\ Fails(j)

(* The runner is lost, or the job reaches its limit.                       *)
RunnerLost(j) ==
  /\ Ends(j)
  /\ unfinished' = IF j.step \in {"ssh", "waiting", "final"} /\ j.kind # "release"
                   THEN unfinished \cup {j.sha} ELSE unfinished
  /\ UNCHANGED <<repository, started, markers, status, remote, invoked, posted, accepted>>

----------------------------------------------------------------------------
(* The host: one validation at a time holds the lock, whoever still waits. *)

Reply(v, result) ==
  /\ host' = host \ {v}
  /\ reports' = {r \in reports : r.job # v.job} \cup
       {[job |-> v.job, sha |-> v.sha, result |-> result, revision |-> v.revision]}

Validate(v) ==
  /\ \/ /\ ~v.locked /\ \A w \in host : ~w.locked
        /\ host' = (host \ {v}) \cup {[v EXCEPT !.locked = TRUE]} /\ UNCHANGED <<reports, proved>>
     \/ ~v.locked /\ (\E w \in host : w.locked) /\ Reply(v, "BUSY") /\ UNCHANGED proved
     \/ /\ v.locked /\ installed = v.revision
        /\ Reply(v, "PASS") /\ proved' = proved \cup {<<v.sha, v.revision>>}
     \/ Reply(v, "FAIL") /\ UNCHANGED proved
  /\ UNCHANGED <<repository, jobs, github, invoked>>

Init ==
  /\ tip \in Shas /\ green = {} /\ jobs = {} /\ queued = {} /\ started = 0 /\ markers = {}
  /\ status = [s \in Shas |-> "none"] /\ unfinished = {}
  /\ installed \in {Revision[s] : s \in Shas}
  /\ host = {} /\ reports = {} /\ proved = {} /\ invoked = [q \in Requests |-> 0]
  /\ posted = {} /\ accepted = {}

Next ==
  \/ \E s \in Shas : Move(s) \/ Install(Revision[s])
  \/ \E ci \in CiAttempts : CiPasses(ci)
  \/ \E q \in Requests : [sha |-> q.sha, attempt |-> q.attempt] \in green /\ Trigger("auto", q)
  \/ "comment" \in Kinds /\ Trigger("comment", [sha |-> 0])
  \/ "release" \in Kinds /\ \E s \in Shas : Trigger("release", [sha |-> s])
  \/ \E j \in jobs :
       \/ Resolve(j) \/ Recheck(j) \/ AlreadyRequested(j) \/ Mark(j) \/ Pending(j) \/ Ssh(j)
       \/ Answer(j) \/ (j.kind # "release" /\ Final(j)) \/ ReleaseAnswer(j) \/ Unverified(j)
       \/ RunnerLost(j)
  \/ \E v \in host : Validate(v)

Spec == Init /\ [][Next]_vars

----------------------------------------------------------------------------
TypeOK ==
  /\ tip \in Shas /\ green \subseteq CiAttempts /\ markers \subseteq Requests
  /\ status \in [Shas -> States] /\ unfinished \subseteq Shas /\ accepted \subseteq Shas
  /\ Cardinality(jobs) <= 1 /\ Cardinality(queued) <= 1
  /\ \A j \in jobs : j.id <= started /\ (j.step # "resolve" => j.sha \in Shas)
  /\ \A j \in jobs : j.kind = "release" => j.step \in {"resolve", "recheck", "ssh", "waiting", "final"}

(* Under one orchestration commit and configuration a CI attempt reaches   *)
(* the host at most once, whatever is delivered or run again, lost, or     *)
(* failed after it took effect.  Under another the same attempt is a       *)
(* request of its own.                                                     *)
OneRunPerRequest == \A q \in Requests : invoked[q] <= 1

(* A commit's status is success only if that very commit passed.           *)
SuccessEarned ==
  \A s \in Shas : status[s] = "success" => \E r \in {Revision[t] : t \in Shas} : <<s, r>> \in proved

(* A status is posted only on a commit that was the head of the pull       *)
(* request at some time while the job lived.                               *)
StatusOnHead == \A p \in posted : p.sha \in p.tips

(* A pending status has a job that will answer it, unless the runner was   *)
(* lost or GitHub refused the answer.                                      *)
PendingAnswered ==
  \A s \in Shas : status[s] = "pending" =>
    \/ s \in unfinished
    \/ \E j \in jobs : j.sha = s /\ j.step \in {"ssh", "waiting", "final"}

(* A release job passes only for a commit that passed on the host under    *)
(* the validator that the commit itself carries.                           *)
ReleaseProved == \A s \in accepted : <<s, Revision[s]>> \in proved
=============================================================================
