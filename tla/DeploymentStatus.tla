-------------------------- MODULE DeploymentStatus --------------------------
(* What is told of a deployment: the controller's report, the copy that    *)
(* the deploy job sanitises (tests.yml), and the observer that turns a     *)
(* completed run attempt into evidence and keeps one comment on the merged *)
(* pull request (ops/github/deployment_status.py).  Commits of main are    *)
(* numbers in its order; 0 stands for null.                                *)
EXTENDS Naturals, FiniteSets

CONSTANTS
  Shas,          \* commits of main: 1..n, each with its run and pull request
  MaxAttempts,   \* bound on the attempts of a run
  Raw,           \* replies that are reports, but none the controller writes
  Comments,      \* publish_comments
  Deliveries     \* bound on the observer runs

ConstantsAssumption ==
  /\ Shas \subseteq Nat \ {0} /\ MaxAttempts \in Nat /\ Comments \in BOOLEAN
  /\ Deliveries \in Nat

AdmissionReasons == {"ADMISSION_QUERY_FAILED", "ADMISSION_TARGET_SUPERSEDED"}
RunnerFailures == {"DEPLOY_CONFIG_INVALID", "SSH_NONZERO_EXIT", "INVALID_DEPLOYMENT_REPORT"}
(* FETCH_FAILED stands for the reasons of no interest here.                *)
Reasons == {"OK", "ALREADY_CURRENT", "SUPERSEDED", "STATE_BOUNDARY_FAILED", "FETCH_FAILED",
            "TESTS_FAILED", "PROMOTION_FAILED", "INTERNAL_ERROR"} \cup AdmissionReasons

VARIABLES
  selected,   \* the release the controller has selected, 0 for none
  attempts,   \* completed run attempts, with their jobs and artifact
  promoted,   \* <<sha, attempt>> that selected its release
  running,    \* the observer at work: {} or a singleton
  pending,    \* the one that waits for the concurrency group
  deliveries,
  comments    \* stamped comments: [sha, attempt, id, status]

vars == <<selected, attempts, promoted, running, pending, deliveries, comments>>

----------------------------------------------------------------------------
(* The controller: the reports of a deployment, with the release that is   *)
(* selected afterwards.  The tip of main may move between any two reads.   *)

BlankReport(sha) ==
  [status |-> "FAIL", requested |-> sha, previous |-> 0, final |-> 0, fetched |-> FALSE,
   created |-> FALSE, deps |-> "NOT_ATTEMPTED", tests |-> "NOT_RUN", run |-> 0,
   promotion |-> "NOT_ATTEMPTED", boundary |-> FALSE, reason |-> "INVALID_REQUEST"]

Failing(r, reason) == [r EXCEPT !.reason = reason]
Superseding(r) ==
  [r EXCEPT !.status = "SUPERSEDED", !.reason = "SUPERSEDED", !.promotion = "SUPERSEDED"]
Passing(r, reason, promotion) ==
  [r EXCEPT !.status = "PASS", !.reason = reason, !.promotion = promotion]

(* The candidate of a failed deployment could not be removed.              *)
WithCleanup(reports) ==
  reports \cup {[r EXCEPT !.status = "FAIL", !.reason = "INTERNAL_ERROR"] : r \in reports}

Deploys(sha) ==
  LET bounded == [BlankReport(sha) EXCEPT !.boundary = TRUE]
      known == [bounded EXCEPT !.previous = selected, !.final = selected]
      fetched == [known EXCEPT !.fetched = TRUE]
      created == [fetched EXCEPT !.created = TRUE]
      installed == [created EXCEPT !.deps = "INSTALLED"]
      tested == [installed EXCEPT !.tests = "PASS", !.run = 1]
      kept(reports) == {[report |-> r, selected |-> selected] : r \in reports}
  IN kept({Failing(BlankReport(sha), "STATE_BOUNDARY_FAILED"),
           Failing(bounded, "STATE_BOUNDARY_FAILED"), Failing(known, "STATE_BOUNDARY_FAILED")})
     \cup IF selected = sha
          THEN kept({Superseding([known EXCEPT !.fetched = TRUE]),
                     Passing(known, "ALREADY_CURRENT", "ALREADY_CURRENT"),
                     Failing(known, "PROMOTION_FAILED")})
          ELSE IF sha < selected
          THEN kept({Failing(known, "FETCH_FAILED"), Superseding(fetched)})
          ELSE kept({Failing(known, "FETCH_FAILED")})
               \cup kept(WithCleanup(
                      {Superseding(created), Failing(created, "FETCH_FAILED"),
                       Failing(installed, "ADMISSION_QUERY_FAILED"),
                       IF selected = 0 THEN Failing(installed, "ADMISSION_TARGET_SUPERSEDED")
                                       ELSE Superseding(installed),
                       [Failing(installed, "TESTS_FAILED") EXCEPT !.tests = "FAIL"],
                       Superseding(tested)}))
               \cup {[report |-> Failing(tested, "PROMOTION_FAILED"), selected |-> selected],
                     [report |-> [Failing(tested, "PROMOTION_FAILED") EXCEPT !.final = sha],
                      selected |-> sha],
                     [report |-> [Passing(tested, "OK", "PROMOTED") EXCEPT !.final = sha],
                      selected |-> sha]}

----------------------------------------------------------------------------
(* The deploy job: what it accepts of the reply, and what it writes.       *)

AdmissionConsistent(r) ==
  /\ r.reason \in AdmissionReasons =>
       r.status = "FAIL" /\ r.tests = "NOT_RUN" /\ r.run = 0 /\ r.promotion = "NOT_ATTEMPTED"
  /\ r.reason = "ADMISSION_TARGET_SUPERSEDED" =>
       /\ r.previous = 0 /\ r.final = 0 /\ r.fetched /\ r.created /\ r.deps = "INSTALLED"
       /\ r.boundary

WorkflowAccepts(r, sha, ssh) ==
  /\ r.requested = sha /\ r.reason \in Reasons /\ AdmissionConsistent(r)
  /\ r.status = "PASS" => r.final = sha /\ r.boundary /\ r.reason \in {"OK", "ALREADY_CURRENT"}
  /\ r.status = "PASS" /\ r.reason = "OK" =>
       /\ r.tests = "PASS" /\ r.run > 0 /\ r.promotion = "PROMOTED" /\ r.created
       /\ r.fetched /\ r.deps = "INSTALLED"
  /\ r.status = "PASS" /\ r.reason = "ALREADY_CURRENT" =>
       r.promotion = "ALREADY_CURRENT" /\ r.tests = "NOT_RUN" /\ r.run = 0 /\ ~r.created
  /\ r.status = "SUPERSEDED" =>
       /\ r.reason = "SUPERSEDED" /\ r.fetched /\ r.promotion = "SUPERSEDED" /\ r.final # 0
       /\ r.boundary
  /\ r.status = "FAIL" => r.reason \notin {"OK", "ALREADY_CURRENT", "SUPERSEDED"}
  /\ ssh = "broken" => r.status = "FAIL"

Sanitized(r, sha, ssh) ==
  IF ssh = "unconfigured" THEN Failing(BlankReport(sha), "DEPLOY_CONFIG_INVALID")
  ELSE IF WorkflowAccepts(r, sha, ssh) THEN r
  ELSE Failing(BlankReport(sha),
               IF ssh = "broken" THEN "SSH_NONZERO_EXIT" ELSE "INVALID_DEPLOYMENT_REPORT")

(* The observer's reading of the copy.                                     *)
MutantReadReport(r, sha) ==
  /\ r.requested = sha /\ r.reason \in Reasons
  /\ r.status = "PASS" => r.final = sha

ReadReport(r, sha) ==
  /\ r.requested = sha /\ r.reason \in Reasons \cup RunnerFailures /\ AdmissionConsistent(r)
  /\ r.reason \in RunnerFailures => r = Failing(BlankReport(sha), r.reason)
  /\ r.status = "PASS" => r.boundary /\ r.final = sha /\ r.reason \in {"OK", "ALREADY_CURRENT"}
  /\ r.status = "PASS" /\ r.reason = "OK" =>
       /\ r.promotion = "PROMOTED" /\ r.fetched /\ r.created /\ r.deps = "INSTALLED"
       /\ r.tests = "PASS" /\ r.run >= 1
  /\ r.status = "PASS" /\ r.reason = "ALREADY_CURRENT" =>
       r.promotion = "ALREADY_CURRENT" /\ ~r.created /\ r.tests = "NOT_RUN" /\ r.run = 0
  /\ r.status = "SUPERSEDED" =>
       /\ r.reason = "SUPERSEDED" /\ r.promotion = "SUPERSEDED" /\ r.fetched /\ r.boundary
       /\ r.final # 0
  /\ r.status = "FAIL" => r.reason \notin {"OK", "ALREADY_CURRENT", "SUPERSEDED"}

----------------------------------------------------------------------------
(* A run attempt: the jobs, and the deployment when all of them passed.    *)

Conclusion(jobs) == IF \A j \in DOMAIN jobs : jobs[j] = "success" THEN "success"
                    ELSE IF \E j \in DOMAIN jobs : jobs[j] = "cancelled" THEN "cancelled"
                    ELSE "failure"

Jobs(backend, frontend, offline, deploy) ==
  [test |-> backend, frontend |-> frontend, release_offline |-> offline, deploy |-> deploy]

Attempt(sha) == Cardinality({a \in attempts : a.sha = sha}) + 1

Complete(sha, jobs, artifact) ==
  /\ attempts' = attempts \cup
       {[sha |-> sha, attempt |-> Attempt(sha), jobs |-> jobs, artifact |-> artifact]}
  /\ UNCHANGED <<running, pending, deliveries, comments>>

(* A job that is needed failed, or the run was cancelled before the deploy *)
(* job reached the controller.                                             *)
Undeployed(sha) ==
  /\ \E b, f, o \in {"success", "failure", "cancelled"} :
       LET ready == b = "success" /\ f = "success"
           offline == IF ready THEN o ELSE "skipped" IN
       Complete(sha, Jobs(b, f, offline, IF ready /\ o = "success" THEN "cancelled" ELSE "skipped"),
                {})
  /\ UNCHANGED <<selected, promoted>>

(* The deploy job passes when the sanitised report is not a failure; the   *)
(* upload of the report, and the connection, may fail.                     *)
Deployed(sha) ==
  \E d \in Deploys(sha), ssh \in {"ok", "broken", "unconfigured"}, kept \in BOOLEAN :
    LET r == Sanitized(d.report, sha, ssh) IN
    /\ Complete(sha, Jobs("success", "success", "success",
                          IF r.status = "FAIL" THEN "failure" ELSE "success"),
                IF kept THEN {r} ELSE {})
    /\ selected' = IF ssh = "unconfigured" THEN selected ELSE d.selected
    /\ promoted' = IF selected' # selected THEN promoted \cup {<<sha, Attempt(sha)>>} ELSE promoted

(* Any other reply that has the form of a report.                          *)
Strange(sha) ==
  /\ \E raw \in Raw, ssh \in {"ok", "broken"} :
       LET r == Sanitized(raw, sha, ssh) IN
       Complete(sha, Jobs("success", "success", "success",
                          IF r.status = "FAIL" THEN "failure" ELSE "success"), {r})
  /\ UNCHANGED <<selected, promoted>>

----------------------------------------------------------------------------
(* The observer.                                                           *)

Report(a) == {r \in a.artifact : ReadReport(r, a.sha)}

MutantDeploymentEvidence(a) ==
  IF a.jobs.deploy = "success" /\ \E r \in Report(a) : r.status = "PASS"
  THEN [status |-> "SUCCESS", stage |-> "COMPLETE"]
  ELSE [status |-> "FAILED", stage |-> "VPS_ACTIVATION"]

DeploymentEvidence(a) ==
  LET is(status, reason) == \E r \in Report(a) : r.status = status /\ r.reason = reason
      j == a.jobs
      failed(stage) == [status |-> "FAILED", stage |-> stage]
  IN IF j.test = "failure" THEN failed("BACKEND_TESTS")
     ELSE IF j.frontend = "failure" THEN failed("FRONTEND_TESTS")
     ELSE IF Conclusion(j) = "cancelled" THEN failed("CANCELLED")
     ELSE IF Conclusion(j) # "success" /\ j.deploy = "success" THEN failed("WORKFLOW_NOT_SUCCESSFUL")
     ELSE IF j.test # "success" \/ j.frontend # "success" THEN failed("CI_UNVERIFIED")
     ELSE IF j.release_offline # "success" THEN failed("RELEASE_OFFLINE")
     ELSE IF j.deploy # "success" THEN
       failed(IF \E r \in Report(a) : r.status = "FAIL" THEN "VPS_REASON" ELSE "VPS_ACTIVATION")
     ELSE IF is("PASS", "OK") THEN [status |-> "SUCCESS", stage |-> "COMPLETE"]
     ELSE IF is("SUPERSEDED", "SUPERSEDED") THEN
       [status |-> "SUPERSEDED", stage |-> "DEPLOYMENT_SUPERSEDED"]
     ELSE IF is("PASS", "ALREADY_CURRENT") THEN
       [status |-> "UNVERIFIED", stage |-> "ALREADY_CURRENT_NOT_REVERIFIED"]
     ELSE failed("DEPLOYMENT_REPORT_UNVERIFIED")

Observer(a) == [sha |-> a.sha, attempt |-> a.attempt, step |-> "evidence", seen |-> {}]

MutantDeliver(a) ==
  /\ deliveries < Deliveries /\ deliveries' = deliveries + 1
  /\ running' = running \cup {Observer(a)}
  /\ UNCHANGED <<selected, attempts, promoted, pending, comments>>

(* A completed attempt, or a repeated delivery of it, starts an observer;  *)
(* the concurrency group runs one and lets the newest of the others wait.  *)
Deliver(a) ==
  /\ deliveries < Deliveries /\ deliveries' = deliveries + 1
  /\ IF running = {} THEN running' = {Observer(a)} /\ UNCHANGED pending
     ELSE pending' = {Observer(a)} /\ UNCHANGED running
  /\ UNCHANGED <<selected, attempts, promoted, comments>>

Done(o) ==
  /\ running' = (running \ {o}) \cup (IF running = {o} THEN pending ELSE {})
  /\ pending' = IF running = {o} THEN {} ELSE pending
  /\ UNCHANGED <<selected, attempts, promoted, deliveries>>

Goes(o, step, seen) ==
  /\ running' = (running \ {o}) \cup {[o EXCEPT !.step = step, !.seen = seen]}
  /\ UNCHANGED <<selected, attempts, promoted, pending, deliveries>>

(* Run, jobs and artifact are read and the evidence is saved; then the     *)
(* pull request is looked up.  Every call may fail.                        *)
Observe(o) ==
  /\ o \in running /\ o.step = "evidence"
  /\ \/ Comments /\ Goes(o, "listing", {})
     \/ Done(o)
  /\ UNCHANGED comments

CommentRecords(o) ==
  /\ o \in running /\ o.step = "listing"
  /\ \/ Goes(o, "writing", {c \in comments : c.sha = o.sha})
     \/ Done(o)
  /\ UNCHANGED comments

MutantStatus(o) ==
  DeploymentEvidence(CHOOSE a \in attempts : a.sha = o.sha /\ \A b \in attempts : b.sha = a.sha =>
                                                                b.attempt <= a.attempt).status

Status(o) == DeploymentEvidence(CHOOSE a \in attempts : a.sha = o.sha /\ a.attempt = o.attempt).status

Comment(o, id) == [sha |-> o.sha, attempt |-> o.attempt, id |-> id, status |-> Status(o)]

Later(c, d) == c.attempt > d.attempt \/ (c.attempt = d.attempt /\ c.id >= d.id)

MutantPublish(o) ==
  /\ o \in running /\ o.step = "writing"
  /\ IF o.seen # {}
     THEN \E latest \in o.seen :
            /\ \A c \in o.seen : Later(latest, c)
            /\ comments' = {c \in comments : c.id # latest.id} \cup {Comment(o, latest.id)}
     ELSE comments' = comments \cup {Comment(o, Cardinality(comments) + 1)}
  /\ Done(o)

(* The write may have happened when its answer is lost: both are one step  *)
(* of this model, the observer's end is the same.                          *)
Publish(o) ==
  /\ o \in running /\ o.step = "writing"
  /\ LET latest == CHOOSE c \in o.seen : \A d \in o.seen : Later(c, d)
     IN \/ /\ o.seen # {} /\ latest.attempt <= o.attempt
           /\ comments' = {c \in comments : c.id # latest.id} \cup {Comment(o, latest.id)}
        \/ /\ o.seen = {}
           /\ comments' = comments \cup {Comment(o, Cardinality(comments) + 1)}
        \/ UNCHANGED comments
  /\ Done(o)

(* The runner of the observer is lost.                                     *)
Lost(o) == o \in running /\ Done(o) /\ UNCHANGED comments

Init ==
  /\ selected \in Shas \cup {0} /\ attempts = {} /\ promoted = {}
  /\ running = {} /\ pending = {} /\ deliveries = 0 /\ comments = {}

Next ==
  \/ \E sha \in Shas : Attempt(sha) <= MaxAttempts /\ (Undeployed(sha) \/ Deployed(sha) \/ Strange(sha))
  \/ \E a \in attempts : Deliver(a)
  \/ \E o \in running : Observe(o) \/ CommentRecords(o) \/ Publish(o) \/ Lost(o)

Spec == Init /\ [][Next]_vars

----------------------------------------------------------------------------
Statuses == {"SUCCESS", "FAILED", "SUPERSEDED", "UNVERIFIED"}

TypeOK ==
  /\ selected \in Shas \cup {0} /\ deliveries \in 0..Deliveries
  /\ \A a \in attempts : a.sha \in Shas /\ a.attempt \in 1..MaxAttempts
                           /\ Cardinality(a.artifact) <= 1
  /\ Cardinality(running) <= 1 /\ Cardinality(pending) <= 1
  /\ \A c \in comments : c.status \in Statuses

(* SUCCESS is said only of an attempt in which every job passed and the    *)
(* controller itself selected the commit's release: not of a report that   *)
(* says the release was current already, nor of a failed or cancelled run. *)
SuccessMeansSelected ==
  \A a \in attempts : DeploymentEvidence(a).status = "SUCCESS" =>
    /\ <<a.sha, a.attempt>> \in promoted
    /\ \A j \in DOMAIN a.jobs : a.jobs[j] = "success"

(* The deploy job and the observer, written separately, apply one policy:  *)
(* whatever the job lets through or writes itself, the observer can read.  *)
SanitizedReadable == \A a \in attempts : \A r \in a.artifact : ReadReport(r, a.sha)

(* A pull request carries at most one stamped comment, whatever observer   *)
(* was lost or delivered again.                                            *)
OneComment == \A c, d \in comments : c.sha = d.sha => c = d

(* A late delivery never replaces the comment of a later attempt.          *)
CommentsAdvance ==
  \A c \in comments : \E d \in comments' : d.id = c.id /\ d.attempt >= c.attempt

(* The comment says what its attempt's evidence says.                      *)
CommentsTrue ==
  \A c \in comments :
    \E a \in attempts : a.sha = c.sha /\ a.attempt = c.attempt
                          /\ DeploymentEvidence(a).status = c.status

(* What the controller reports reaches the reader: it is never taken for   *)
(* an invalid report (comment in deploy_main.revalidate_admission).        *)
HonestReportsReadable ==
  \A sha \in Shas : \A d \in Deploys(sha) : WorkflowAccepts(d.report, sha, "ok")
=============================================================================
