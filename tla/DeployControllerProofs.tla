------------------------ MODULE DeployControllerProofs ------------------------
(***************************************************************************)
(* The safety of the deployment controller for any number of overlapping   *)
(* controllers, commits, attempts and crashes.  The argument: the lock has *)
(* one owner, so current changes only under it, and every step past the    *)
(* lock knows what it has established (Stage); a candidate that was never  *)
(* published is known to its own controller alone (Private), so no cleanup *)
(* removes what is selected, what the API is pinned to, what a unit works  *)
(* in or what a rollback would select.                                     *)
(*                                                                         *)
(* The sections after it prove the same way, each from an invariant of its *)
(* own, the components around the controller: the trusted offline checks,  *)
(* the runs of the validator on the host, what is told of a deployment,    *)
(* and one validation.                                                     *)
(***************************************************************************)
EXTENDS DeployController, Sequences, FiniteSetTheorems, TLAPS

Outside == {"idle", "lock", "cleanup"}
Unselected == {"fetch", "fetching", "install", "installing", "admit", "await", "test",
               "testing", "publish", "stop", "abandon"}
Complete == {"install", "installing", "admit", "await", "test", "testing", "publish"}
Waiting(d) == pc[d] \in {"fetching", "installing", "testing"}

\* every release is of an attempt that was counted, so the next one is new
Numbered ==
    /\ \A r \in releases : r.attempt <= attempts
    /\ marker # None => marker.release.attempt <= attempts
Counted(d) == job[d].candidate # None => job[d].candidate.attempt <= attempts

\* what an attempt may have to select again is tested and stays on disk
Keep == tested \cap releases
Retained(d) == {job[d].active, job[d].replaced} \subseteq Keep \cup {None}

\* a candidate before its publication, or after its failure
Unpublished(d) ==
    /\ job[d].candidate # None /\ job[d].candidate # job[d].active
    /\ ~job[d].published
Unseen(d) == Unpublished(d) => job[d].candidate \notin {current, api}
Exclusive(d) ==
    Unpublished(d) =>
       \A e \in Controllers : /\ job[d].candidate \notin {job[e].active, job[e].replaced}
                              /\ e # d => job[d].candidate # job[e].candidate
Quiet(d) ==
    Unpublished(d) /\ marker # None /\ marker.release = job[d].candidate =>
       Waiting(d) \/ pc[d] = "stop"
Private(d) == Unseen(d) /\ Exclusive(d) /\ Quiet(d)

\* the marker while a controller waits for a unit, stops it, or has none
Marked(d) ==
    /\ \A kind \in Kinds :
          pc[d] = Waits[kind] => marker = [kind |-> kind, release |-> job[d].candidate]
    /\ pc[d] = "stop" => marker # None /\ marker.release = job[d].candidate
    /\ pc[d] \notin Outside \cup {"recover", "stop"} /\ ~Waiting(d) => marker = None

\* before the first candidate, and before the outcome is known
Unstarted(d) ==
    /\ pc[d] \in {"idle", "lock", "recover", "compare"} =>
          /\ job[d].candidate = None /\ job[d].active = None
          /\ job[d].replaced = None /\ ~job[d].published
    /\ pc[d] \notin {"unlock", "cleanup"} =>
          job[d].status = "FAIL" /\ job[d].recovery = "NOT_ATTEMPTED"

\* between the mount and the publication: what each step has established
Prepared(d) ==
    pc[d] \in Unselected =>
       /\ job[d].candidate \in Release /\ job[d].candidate.sha = job[d].sha
       /\ job[d].active = current /\ job[d].candidate # current
       /\ ~job[d].published /\ job[d].replaced = None
Staged(d) == pc[d] \in {"fetch", "fetching"} => mounted = job[d].candidate
Positive(d) == output # None /\ output.ok /\ output.release = job[d].candidate
Ahead(d) ==
    pc[d] \in Complete \/ (pc[d] = "fetching" /\ Positive(d)) =>
       current.sha < job[d].candidate.sha
Stored(d) == pc[d] \in Complete => job[d].candidate \in releases
Passed(d) ==
    pc[d] = "publish" \/ (pc[d] = "testing" /\ Positive(d)) => job[d].candidate \in tested

\* from the publication to the report
Report(d) ==
    /\ job[d].status = "PASS" =>
          /\ current = job[d].candidate /\ current.sha = job[d].sha
          /\ api \in {current, None}
    /\ job[d].recovery = "PASS" => current = job[d].active /\ api \in {current, None}
Selected(d) ==
    /\ pc[d] \in {"verify", "handoff", "rollback"} =>
          /\ current = job[d].candidate /\ current.sha = job[d].sha
          /\ job[d].active # job[d].candidate =>
                job[d].published /\ job[d].active = replaced /\ job[d].active # None
    /\ pc[d] = "verify" =>
          job[d].active # job[d].candidate /\ job[d].replaced = job[d].active
    /\ pc[d] = "rollback" => job[d].active # job[d].candidate
    /\ pc[d] = "handoff" => job[d].active \in Release
    /\ pc[d] = "readopt" => current = job[d].active
    /\ pc[d] = "unlock" => Report(d)

Stage(d) ==
    /\ Marked(d) /\ Unstarted(d)
    /\ Prepared(d) /\ Staged(d) /\ Ahead(d) /\ Stored(d) /\ Passed(d)
    /\ Selected(d)

IInv ==
    /\ TypeOK
    /\ Numbered
    /\ CurrentIsTested
    /\ PinnedReleaseStays
    /\ UnitsAreAccountedFor
    /\ \A d \in Controllers : Counted(d) /\ Retained(d) /\ Private(d) /\ Stage(d)

-----------------------------------------------------------------------------
(* The steps, by the phase of the attempt                                  *)

Environment == Merge \/ UnitEnds \/ ApiExits \/ ApiStarts \/ ApiAges \/ AdminUnmounts
Entering(d) == Request(d) \/ Busy(d) \/ Lock(d) \/ AlreadyCurrent(d) \/ Mount(d) \/ Fail(d)
Succeeding(d) == StartUnit(d) \/ Fetched(d) \/ WheelsInstalled(d) \/ TestsPassed(d)
    \/ Admit(d) \/ Readmit(d)
Stopping(d) == Refused(d) \/ SourceInvalid(d) \/ Interrupt(d) \/ Stop(d) \/ Stopped(d)
    \/ Recover(d) \/ Abandon(d)
Publishing(d) == Publish(d) \/ Verify(d) \/ VerifyFails(d) \/ HandoffPasses(d)
TakingBack(d) == HandoffFails(d) \/ Rollback(d) \/ Readopt(d) \/ RecoveryFails(d)
Leaving(d) == Unlock(d) \/ Cleanup(d) \/ Crash(d)

\* A step of the specification belongs to one phase.
LEMMA Cases ==
    ASSUME [Next]_vars
    PROVE  \/ UNCHANGED vars
           \/ Environment
           \/ \E d \in Controllers : \/ Entering(d) \/ Succeeding(d) \/ Stopping(d)
                                     \/ Publishing(d) \/ TakingBack(d) \/ Leaving(d)
  BY DEF Next, Step, Environment, Entering, Succeeding, Stopping, Publishing, TakingBack,
         Leaving

\* None is none of the values it stands for the absence of.
LEMMA Nones ==
    /\ None \notin Controllers /\ None \notin Release
    /\ \A r \in Release, k \in Kinds : [kind |-> k, release |-> r] # None
  BY DeployNone DEF Unit

\* An attempt that has not begun is a job.
LEMMA NoJobTyped == NoJob \in Job
  BY DeployConstants DEF Job, NoJob

\* deploy.lock is exclusive: past it, the others are outside (LockFree, TypeOK).
LEMMA Alone ==
    ASSUME TypeOK, NEW d \in Controllers, pc[d] \notin Outside
    PROVE  lock = d /\ \A e \in Controllers \ {d} : pc[e] \in Outside
  BY DEF TypeOK, Outside

\* A controller accepts a result only if it is a success of its own candidate.
LEMMA AcceptedPositive ==
    ASSUME TypeOK, NEW d \in Controllers, job[d].candidate \in Release, Accepted(d)
    PROVE  Positive(d)
  <1>1. [release |-> job[d].candidate, ok |-> TRUE] \in Result
    BY DEF Result
  <1>2. output # None
    BY <1>1, DeployNone DEF Accepted
  <1> QED BY <1>2 DEF Accepted, Positive

USE DEF vars, disk, unit, serving, observed, Goto, End, Return, IsTip, Continue, Eligible,
        Finished, Rotate, LockFree, Quiescent, NoJob, EndRecovery

-----------------------------------------------------------------------------
(* What every step preserves                                               *)

\* Every file, unit and counter keeps its type; in particular what deploy selects,
\* forward or back, is a release.
LEMMA FilesTyped ==
    ASSUME IInv, [Next]_vars
    PROVE  FilesOK'
  <1> USE DeployConstants, Nones
     DEF IInv, Outside, TypeOK, FilesOK, Release, Unit, Kinds, Waits, Result, Installed,
         Acquirable, Adopted, Job, Stage, Prepared, Unselected, Selected
  <1>0. CASE UNCHANGED vars
    BY <1>0
  <1>1. CASE Environment
    <2>1. CASE Merge
      BY <2>1 DEF Merge
    <2>2. CASE UnitEnds
      BY <2>2 DEF UnitEnds, FetchEnds, InstallEnds, TestsEnd, Ends
    <2>3. CASE ApiExits
      BY <2>3 DEF ApiExits
    <2>4. CASE ApiStarts
      BY <2>4 DEF ApiStarts
    <2>5. CASE ApiAges
      BY <2>5 DEF ApiAges
    <2>6. CASE AdminUnmounts
      BY <2>6 DEF AdminUnmounts
    <2> QED BY <1>1, <2>1, <2>2, <2>3, <2>4, <2>5, <2>6 DEF Environment
  <1>2. ASSUME NEW d \in Controllers, Entering(d) PROVE FilesOK'
    BY <1>2 DEF Mount, Request, Busy, Lock, AlreadyCurrent, Fail, Entering
  <1>3. ASSUME NEW d \in Controllers, Succeeding(d) PROVE FilesOK'
    BY <1>3 DEF StartUnit, Fetched, WheelsInstalled, TestsPassed, Admit, Readmit, Succeeding
  <1>4. ASSUME NEW d \in Controllers, Stopping(d) PROVE FilesOK'
    BY <1>4 DEF Stopping, Refused, SourceInvalid, Interrupt, Stop, Stopped, Recover, Abandon
  <1>5. ASSUME NEW d \in Controllers, Publishing(d) PROVE FilesOK'
    <2>1. CASE Publish(d)
      BY <2>1 DEF Publish
    <2>2. CASE Verify(d)
      BY <2>2 DEF Verify
    <2>3. CASE VerifyFails(d)
      BY <2>3 DEF VerifyFails
    <2>4. CASE HandoffPasses(d)
      BY <2>4 DEF HandoffPasses
    <2> QED BY <1>5, <2>1, <2>2, <2>3, <2>4 DEF Publishing
  <1>6. ASSUME NEW d \in Controllers, TakingBack(d) PROVE FilesOK'
    <2>1. CASE HandoffFails(d)
      BY <2>1 DEF HandoffFails
    <2>2. CASE Rollback(d)
      BY <2>2 DEF Rollback
    <2>3. CASE Readopt(d)
      BY <2>3 DEF Readopt
    <2>4. CASE RecoveryFails(d)
      BY <2>4 DEF RecoveryFails
    <2> QED BY <1>6, <2>1, <2>2, <2>3, <2>4 DEF TakingBack
  <1>7. ASSUME NEW d \in Controllers, Leaving(d) PROVE FilesOK'
    BY <1>7 DEF Leaving, Unlock, Cleanup, Crash
  <1> QED BY <1>0, <1>1, <1>2, <1>3, <1>4, <1>5, <1>6, <1>7, Cases

\* Every step changes the job of one controller at most.
LEMMA JobDomain ==
    ASSUME job \in [Controllers -> Job], [Next]_vars
    PROVE  job' = [x \in Controllers |-> job'[x]]
  <1> USE NoJobTyped DEF Waits
  <1>0. CASE UNCHANGED vars
    BY <1>0
  <1>1. CASE Environment
    BY <1>1 DEF Environment, Merge, UnitEnds, FetchEnds, InstallEnds, TestsEnd, Ends,
                ApiExits, ApiStarts, ApiAges, AdminUnmounts
  <1>2. ASSUME NEW d \in Controllers, Entering(d)
        PROVE  job' = [x \in Controllers |-> job'[x]]
    BY <1>2 DEF Entering, Request, Busy, Lock, AlreadyCurrent, Mount, Fail
  <1>3. ASSUME NEW d \in Controllers, Succeeding(d)
        PROVE  job' = [x \in Controllers |-> job'[x]]
    BY <1>3 DEF Succeeding, StartUnit, Fetched, WheelsInstalled, TestsPassed, Admit, Readmit
  <1>4. ASSUME NEW d \in Controllers, Stopping(d)
        PROVE  job' = [x \in Controllers |-> job'[x]]
    BY <1>4 DEF Stopping, Refused, SourceInvalid, Interrupt, Stop, Stopped, Recover, Abandon
  <1>5. ASSUME NEW d \in Controllers, Publishing(d)
        PROVE  job' = [x \in Controllers |-> job'[x]]
    BY <1>5 DEF Publishing, Publish, Verify, VerifyFails, HandoffPasses
  <1>6. ASSUME NEW d \in Controllers, TakingBack(d)
        PROVE  job' = [x \in Controllers |-> job'[x]]
    BY <1>6 DEF TakingBack, HandoffFails, Rollback, Readopt, RecoveryFails
  <1>7. ASSUME NEW d \in Controllers, Leaving(d)
        PROVE  job' = [x \in Controllers |-> job'[x]]
    BY <1>7 DEF Leaving, Unlock, Cleanup, Crash
  <1> QED BY <1>0, <1>1, <1>2, <1>3, <1>4, <1>5, <1>6, <1>7, Cases

\* What deploy remembers of an attempt keeps its type.
LEMMA JobTyped ==
    ASSUME job \in [Controllers -> Job], FilesOK, [Next]_vars, NEW e \in Controllers
    PROVE  job'[e] \in Job
  <1> USE NoJobTyped DEF Waits
  <1>0. CASE UNCHANGED vars
    BY <1>0
  <1>1. CASE Environment
    BY <1>1 DEF Environment, Merge, UnitEnds, FetchEnds, InstallEnds, TestsEnd, Ends,
                ApiExits, ApiStarts, ApiAges, AdminUnmounts
  <1>2. ASSUME NEW d \in Controllers, Entering(d) PROVE job'[e] \in Job
    <2>1. CASE Mount(d)
      <3>1. mounted' \in Release
        BY <2>1, DeployConstants DEF Mount, FilesOK, Release, Job
      <3> QED BY <2>1, <3>1 DEF Mount, FilesOK, Job
    <2>2. CASE AlreadyCurrent(d)
      BY <2>2 DEF AlreadyCurrent, FilesOK, Job
    <2>3. CASE Request(d) \/ Fail(d)
      BY <2>3 DEF Request, Fail, Job
    <2>4. CASE Busy(d) \/ Lock(d)
      BY <2>4 DEF Busy, Lock
    <2> QED BY <1>2, <2>1, <2>2, <2>3, <2>4 DEF Entering
  <1>3. ASSUME NEW d \in Controllers, Succeeding(d) PROVE job'[e] \in Job
    BY <1>3
       DEF Succeeding, StartUnit, Fetched, WheelsInstalled, TestsPassed, Admit, Readmit, Job
  <1>4. ASSUME NEW d \in Controllers, Stopping(d) PROVE job'[e] \in Job
    BY <1>4 DEF Stopping, Refused, SourceInvalid, Interrupt, Stop, Stopped, Recover, Abandon, Job
  <1>5. ASSUME NEW d \in Controllers, Publishing(d) PROVE job'[e] \in Job
    <2>1. CASE Publish(d)
      BY <2>1 DEF Publish, FilesOK, Job
    <2>2. CASE VerifyFails(d) \/ HandoffPasses(d)
      BY <2>2 DEF VerifyFails, HandoffPasses, Job
    <2>3. CASE Verify(d)
      BY <2>3 DEF Verify
    <2> QED BY <1>5, <2>1, <2>2, <2>3 DEF Publishing
  <1>6. ASSUME NEW d \in Controllers, TakingBack(d) PROVE job'[e] \in Job
    BY <1>6 DEF TakingBack, HandoffFails, Rollback, Readopt, RecoveryFails, Job
  <1>7. ASSUME NEW d \in Controllers, Leaving(d) PROVE job'[e] \in Job
    BY <1>7 DEF Unlock, Job, Cleanup, Crash, Leaving
  <1> QED BY <1>0, <1>1, <1>2, <1>3, <1>4, <1>5, <1>6, <1>7, Cases

\* A controller is always at one of the steps of deploy.
LEMMA StepsTyped ==
    ASSUME IInv, [Next]_vars
    PROVE  pc' \in [Controllers -> Steps]
  <1> USE DeployConstants, Nones DEF IInv, Outside, TypeOK, FilesOK, Steps, Waits, Kinds
  <1>0. CASE UNCHANGED vars
    BY <1>0
  <1>1. CASE Environment
    BY <1>1 DEF Environment, Merge, UnitEnds, FetchEnds, InstallEnds, TestsEnd, Ends,
                ApiExits, ApiStarts, ApiAges, AdminUnmounts
  <1>2. ASSUME NEW d \in Controllers, Entering(d) PROVE pc' \in [Controllers -> Steps]
    BY <1>2 DEF Entering, Request, Busy, Lock, AlreadyCurrent, Mount, Fail
  <1>3. ASSUME NEW d \in Controllers, Succeeding(d) PROVE pc' \in [Controllers -> Steps]
    BY <1>3 DEF Succeeding, StartUnit, Fetched, WheelsInstalled, TestsPassed, Admit, Readmit
  <1>4. ASSUME NEW d \in Controllers, Stopping(d) PROVE pc' \in [Controllers -> Steps]
    BY <1>4 DEF Stopping, Refused, SourceInvalid, Interrupt, Stop, Stopped, Recover, Abandon
  <1>5. ASSUME NEW d \in Controllers, Publishing(d) PROVE pc' \in [Controllers -> Steps]
    BY <1>5 DEF Publishing, Publish, Verify, VerifyFails, HandoffPasses
  <1>6. ASSUME NEW d \in Controllers, TakingBack(d) PROVE pc' \in [Controllers -> Steps]
    BY <1>6 DEF TakingBack, HandoffFails, Rollback, Readopt, RecoveryFails
  <1>7. ASSUME NEW d \in Controllers, Leaving(d) PROVE pc' \in [Controllers -> Steps]
    BY <1>7 DEF Leaving, Unlock, Cleanup, Crash
  <1> QED BY <1>0, <1>1, <1>2, <1>3, <1>4, <1>5, <1>6, <1>7, Cases

\* The lock has exactly the owner that is past it.
LEMMA LockOwned ==
    ASSUME IInv, [Next]_vars, NEW e \in Controllers
    PROVE  pc'[e] \notin Outside <=> lock' = e
  <1> USE DeployConstants, Nones DEF IInv, Outside, TypeOK, FilesOK, Waits, Kinds
  <1>0. CASE UNCHANGED vars
    BY <1>0
  <1>1. CASE Environment
    BY <1>1 DEF Environment, Merge, UnitEnds, FetchEnds, InstallEnds, TestsEnd, Ends,
                ApiExits, ApiStarts, ApiAges, AdminUnmounts
  <1>2. ASSUME NEW d \in Controllers, Entering(d) PROVE pc'[e] \notin Outside <=> lock' = e
    BY <1>2 DEF Entering, Request, Busy, Lock, AlreadyCurrent, Mount, Fail
  <1>3. ASSUME NEW d \in Controllers, Succeeding(d)
        PROVE  pc'[e] \notin Outside <=> lock' = e
    BY <1>3 DEF Succeeding, StartUnit, Fetched, WheelsInstalled, TestsPassed, Admit, Readmit
  <1>4. ASSUME NEW d \in Controllers, Stopping(d) PROVE pc'[e] \notin Outside <=> lock' = e
    BY <1>4 DEF Stopping, Refused, SourceInvalid, Interrupt, Stop, Stopped, Recover, Abandon
  <1>5. ASSUME NEW d \in Controllers, Publishing(d)
        PROVE  pc'[e] \notin Outside <=> lock' = e
    BY <1>5 DEF Publishing, Publish, Verify, VerifyFails, HandoffPasses
  <1>6. ASSUME NEW d \in Controllers, TakingBack(d)
        PROVE  pc'[e] \notin Outside <=> lock' = e
    BY <1>6 DEF TakingBack, HandoffFails, Rollback, Readopt, RecoveryFails
  <1>7. ASSUME NEW d \in Controllers, Leaving(d) PROVE pc'[e] \notin Outside <=> lock' = e
    BY <1>7 DEF Leaving, Unlock, Cleanup, Crash
  <1> QED BY <1>0, <1>1, <1>2, <1>3, <1>4, <1>5, <1>6, <1>7, Cases

\* Attempts are counted before their release exists.
LEMMA NumberedStep ==
    ASSUME IInv, TypeOK', [Next]_vars
    PROVE  Numbered'
  <1> USE DeployConstants, Nones
     DEF IInv, Outside, TypeOK, FilesOK, Numbered, Counted, Stage, Prepared, Unselected,
         Release, Job, Unit, Kinds, Waits
  <1>0. CASE UNCHANGED vars
    BY <1>0
  <1>1. CASE Environment
    BY <1>1 DEF Environment, Merge, UnitEnds, FetchEnds, InstallEnds, TestsEnd, Ends,
                ApiExits, ApiStarts, ApiAges, AdminUnmounts
  <1>2. ASSUME NEW d \in Controllers, Entering(d) PROVE Numbered'
    BY <1>2 DEF Entering, Request, Busy, Lock, AlreadyCurrent, Mount, Fail
  <1>3. ASSUME NEW d \in Controllers, Succeeding(d) PROVE Numbered'
    BY <1>3 DEF Succeeding, StartUnit, Fetched, WheelsInstalled, TestsPassed, Admit, Readmit
  <1>4. ASSUME NEW d \in Controllers, Stopping(d) PROVE Numbered'
    BY <1>4 DEF Stopping, Refused, SourceInvalid, Interrupt, Stop, Stopped, Recover, Abandon
  <1>5. ASSUME NEW d \in Controllers, Publishing(d) PROVE Numbered'
    BY <1>5 DEF Publishing, Publish, Verify, VerifyFails, HandoffPasses
  <1>6. ASSUME NEW d \in Controllers, TakingBack(d) PROVE Numbered'
    BY <1>6 DEF TakingBack, HandoffFails, Rollback, Readopt, RecoveryFails
  <1>7. ASSUME NEW d \in Controllers, Leaving(d) PROVE Numbered'
    BY <1>7 DEF Leaving, Unlock, Cleanup, Crash
  <1> QED BY <1>0, <1>1, <1>2, <1>3, <1>4, <1>5, <1>6, <1>7, Cases

\* A candidate is of an attempt that was counted.
LEMMA CountedStep ==
    ASSUME IInv, TypeOK', [Next]_vars, NEW e \in Controllers
    PROVE  Counted(e)'
  <1> USE DeployConstants, Nones
     DEF IInv, Outside, TypeOK, FilesOK, Numbered, CurrentIsTested, Counted, Release, Job
  <1>0. CASE UNCHANGED vars
    BY <1>0
  <1>1. CASE Environment
    BY <1>1 DEF Environment, Merge, UnitEnds, FetchEnds, InstallEnds, TestsEnd, Ends,
                ApiExits, ApiStarts, ApiAges, AdminUnmounts
  <1>2. ASSUME NEW d \in Controllers, Entering(d) PROVE Counted(e)'
    <2>1. CASE AlreadyCurrent(d)
      <3>1. CASE e = d
        BY <2>1, <3>1 DEF AlreadyCurrent
      <3>2. CASE e # d
        BY <2>1, <3>2 DEF AlreadyCurrent
      <3> QED BY <3>1, <3>2
    <2>2. CASE Request(d) \/ Busy(d) \/ Lock(d) \/ Mount(d) \/ Fail(d)
      BY <2>2 DEF Request, Busy, Lock, Mount, Fail
    <2> QED BY <1>2, <2>1, <2>2 DEF Entering
  <1>3. ASSUME NEW d \in Controllers, Succeeding(d) PROVE Counted(e)'
    <2>1. CASE StartUnit(d)
      BY <2>1 DEF StartUnit
    <2>2. CASE Fetched(d)
      BY <2>2 DEF Fetched
    <2>3. CASE WheelsInstalled(d)
      BY <2>3 DEF WheelsInstalled
    <2>4. CASE TestsPassed(d)
      BY <2>4 DEF TestsPassed
    <2>5. CASE Admit(d)
      BY <2>5 DEF Admit
    <2>6. CASE Readmit(d)
      BY <2>6 DEF Readmit
    <2> QED BY <1>3, <2>1, <2>2, <2>3, <2>4, <2>5, <2>6 DEF Succeeding
  <1>4. ASSUME NEW d \in Controllers, Stopping(d) PROVE Counted(e)'
    <2>1. CASE Recover(d) \/ Abandon(d)
      BY <2>1 DEF Recover, Abandon
    <2>2. CASE Refused(d) \/ SourceInvalid(d) \/ Interrupt(d) \/ Stop(d) \/ Stopped(d)
      BY <2>2 DEF Refused, SourceInvalid, Interrupt, Stop, Stopped
    <2> QED BY <1>4, <2>1, <2>2 DEF Stopping
  <1>5. ASSUME NEW d \in Controllers, Publishing(d) PROVE Counted(e)'
    BY <1>5 DEF Publishing, Publish, Verify, VerifyFails, HandoffPasses
  <1>6. ASSUME NEW d \in Controllers, TakingBack(d) PROVE Counted(e)'
    BY <1>6 DEF TakingBack, HandoffFails, Rollback, Readopt, RecoveryFails
  <1>7. ASSUME NEW d \in Controllers, Leaving(d) PROVE Counted(e)'
    BY <1>7 DEF Leaving, Unlock, Cleanup, Crash
  <1> QED BY <1>0, <1>1, <1>2, <1>3, <1>4, <1>5, <1>6, <1>7, Cases

\* No cleanup removes what another attempt would select again.
LEMMA RetainedStep ==
    ASSUME IInv, TypeOK', [Next]_vars, NEW e \in Controllers
    PROVE  Retained(e)'
  <1> USE DeployConstants, Nones
     DEF IInv, Outside, TypeOK, FilesOK, Retained, CurrentIsTested, Keep, Job, Private,
         Exclusive, Unpublished, Removable, Stage, Unstarted
  <1>0. CASE UNCHANGED vars
    BY <1>0
  <1>1. CASE Environment
    BY <1>1 DEF Environment, Merge, UnitEnds, FetchEnds, InstallEnds, TestsEnd, Ends,
                ApiExits, ApiStarts, ApiAges, AdminUnmounts
  <1>2. ASSUME NEW d \in Controllers, Entering(d) PROVE Retained(e)'
    BY <1>2 DEF Entering, Request, Busy, Lock, AlreadyCurrent, Mount, Fail
  <1>3. ASSUME NEW d \in Controllers, Succeeding(d) PROVE Retained(e)'
    <2>1. CASE StartUnit(d)
      BY <2>1 DEF StartUnit
    <2>2. CASE Fetched(d)
      BY <2>2 DEF Fetched
    <2>3. CASE WheelsInstalled(d)
      <3>1. CASE e = d
        BY <2>3, <3>1 DEF WheelsInstalled
      <3>2. CASE e # d
        BY <2>3, <3>2 DEF WheelsInstalled
      <3> QED BY <3>1, <3>2
    <2>4. CASE TestsPassed(d)
      BY <2>4 DEF TestsPassed
    <2>5. CASE Admit(d)
      BY <2>5 DEF Admit
    <2>6. CASE Readmit(d)
      BY <2>6 DEF Readmit
    <2> QED BY <1>3, <2>1, <2>2, <2>3, <2>4, <2>5, <2>6 DEF Succeeding
  <1>4. ASSUME NEW d \in Controllers, Stopping(d) PROVE Retained(e)'
    BY <1>4 DEF Stopping, Refused, SourceInvalid, Interrupt, Stop, Stopped, Recover, Abandon
  <1>5. ASSUME NEW d \in Controllers, Publishing(d) PROVE Retained(e)'
    BY <1>5 DEF Publishing, Publish, Verify, VerifyFails, HandoffPasses
  <1>6. ASSUME NEW d \in Controllers, TakingBack(d) PROVE Retained(e)'
    BY <1>6 DEF TakingBack, HandoffFails, Rollback, Readopt, RecoveryFails
  <1>7. ASSUME NEW d \in Controllers, Leaving(d) PROVE Retained(e)'
    BY <1>7 DEF Leaving, Unlock, Cleanup, Crash
  <1> QED BY <1>0, <1>1, <1>2, <1>3, <1>4, <1>5, <1>6, <1>7, Cases

\* What is published was tested, and no cleanup removes it (CurrentIsTested).
LEMMA CurrentStep ==
    ASSUME IInv, TypeOK', [Next]_vars
    PROVE  CurrentIsTested'
  <1> USE DeployConstants, Nones
     DEF IInv, Outside, TypeOK, FilesOK, Retained, CurrentIsTested, Keep, Job, Stage,
         Complete, Passed, Stored, Selected, Unselected, Prepared, Removable
  <1>0. CASE UNCHANGED vars
    BY <1>0
  <1>1. CASE Environment
    BY <1>1 DEF Environment, Merge, UnitEnds, FetchEnds, InstallEnds, TestsEnd, Ends,
                ApiExits, ApiStarts, ApiAges, AdminUnmounts
  <1>2. ASSUME NEW d \in Controllers, Entering(d) PROVE CurrentIsTested'
    BY <1>2 DEF Entering, Request, Busy, Lock, AlreadyCurrent, Mount, Fail
  <1>3. ASSUME NEW d \in Controllers, Succeeding(d) PROVE CurrentIsTested'
    BY <1>3 DEF Succeeding, StartUnit, Fetched, WheelsInstalled, TestsPassed, Admit, Readmit
  <1>4. ASSUME NEW d \in Controllers, Stopping(d) PROVE CurrentIsTested'
    BY <1>4 DEF Stopping, Refused, SourceInvalid, Interrupt, Stop, Stopped, Recover, Abandon
  <1>5. ASSUME NEW d \in Controllers, Publishing(d) PROVE CurrentIsTested'
    BY <1>5 DEF Publishing, Publish, Verify, VerifyFails, HandoffPasses
  <1>6. ASSUME NEW d \in Controllers, TakingBack(d) PROVE CurrentIsTested'
    BY <1>6 DEF TakingBack, HandoffFails, Rollback, Readopt, RecoveryFails
  <1>7. ASSUME NEW d \in Controllers, Leaving(d) PROVE CurrentIsTested'
    BY <1>7 DEF Leaving, Unlock, Cleanup, Crash
  <1> QED BY <1>0, <1>1, <1>2, <1>3, <1>4, <1>5, <1>6, <1>7, Cases

\* No cleanup removes what the API process is pinned to (PinnedReleaseStays).
LEMMA PinnedStep ==
    ASSUME IInv, TypeOK', [Next]_vars
    PROVE  PinnedReleaseStays'
  <1> USE DeployConstants, Nones
     DEF IInv, Outside, TypeOK, FilesOK, PinnedReleaseStays, CurrentIsTested, Private,
         Unseen, Unpublished, Removable, Adopted, Job
  <1>0. CASE UNCHANGED vars
    BY <1>0
  <1>1. CASE Environment
    BY <1>1 DEF Environment, Merge, UnitEnds, FetchEnds, InstallEnds, TestsEnd, Ends,
                ApiExits, ApiStarts, ApiAges, AdminUnmounts
  <1>2. ASSUME NEW d \in Controllers, Entering(d) PROVE PinnedReleaseStays'
    BY <1>2 DEF Entering, Request, Busy, Lock, AlreadyCurrent, Mount, Fail
  <1>3. ASSUME NEW d \in Controllers, Succeeding(d) PROVE PinnedReleaseStays'
    BY <1>3 DEF Succeeding, StartUnit, Fetched, WheelsInstalled, TestsPassed, Admit, Readmit
  <1>4. ASSUME NEW d \in Controllers, Stopping(d) PROVE PinnedReleaseStays'
    BY <1>4 DEF Stopping, Refused, SourceInvalid, Interrupt, Stop, Stopped, Recover, Abandon
  <1>5. ASSUME NEW d \in Controllers, Publishing(d) PROVE PinnedReleaseStays'
    BY <1>5 DEF Publishing, Publish, Verify, VerifyFails, HandoffPasses
  <1>6. ASSUME NEW d \in Controllers, TakingBack(d) PROVE PinnedReleaseStays'
    BY <1>6 DEF TakingBack, HandoffFails, Rollback, Readopt, RecoveryFails
  <1>7. ASSUME NEW d \in Controllers, Leaving(d) PROVE PinnedReleaseStays'
    BY <1>7 DEF Leaving, Unlock, Cleanup, Crash
  <1> QED BY <1>0, <1>1, <1>2, <1>3, <1>4, <1>5, <1>6, <1>7, Cases

\* A unit has its marker and its directory as long as it runs
\* (UnitsAreAccountedFor).
LEMMA AccountedStep ==
    ASSUME IInv, TypeOK', [Next]_vars
    PROVE  UnitsAreAccountedFor'
  <1> USE DeployConstants, Nones
     DEF IInv, Outside, TypeOK, FilesOK, UnitsAreAccountedFor, Private, Quiet, Unpublished,
         Removable, Waiting, Stage, Marked, Prepared, Staged, Stored, Unselected, Unit, Job,
         Waits, Kinds, Complete
  <1>0. CASE UNCHANGED vars
    BY <1>0
  <1>1. CASE Environment
    BY <1>1 DEF Environment, Merge, UnitEnds, FetchEnds, InstallEnds, TestsEnd, Ends,
                ApiExits, ApiStarts, ApiAges, AdminUnmounts
  <1>2. ASSUME NEW d \in Controllers, Entering(d) PROVE UnitsAreAccountedFor'
    BY <1>2 DEF Entering, Request, Busy, Lock, AlreadyCurrent, Mount, Fail
  <1>3. ASSUME NEW d \in Controllers, Succeeding(d) PROVE UnitsAreAccountedFor'
    BY <1>3 DEF Succeeding, StartUnit, Fetched, WheelsInstalled, TestsPassed, Admit, Readmit
  <1>4. ASSUME NEW d \in Controllers, Stopping(d) PROVE UnitsAreAccountedFor'
    BY <1>4 DEF Stopping, Refused, SourceInvalid, Interrupt, Stop, Stopped, Recover, Abandon
  <1>5. ASSUME NEW d \in Controllers, Publishing(d) PROVE UnitsAreAccountedFor'
    BY <1>5 DEF Publishing, Publish, Verify, VerifyFails, HandoffPasses
  <1>6. ASSUME NEW d \in Controllers, TakingBack(d) PROVE UnitsAreAccountedFor'
    BY <1>6 DEF TakingBack, HandoffFails, Rollback, Readopt, RecoveryFails
  <1>7. ASSUME NEW d \in Controllers, Leaving(d) PROVE UnitsAreAccountedFor'
    BY <1>7 DEF Leaving, Unlock, Cleanup, Crash
  <1> QED BY <1>0, <1>1, <1>2, <1>3, <1>4, <1>5, <1>6, <1>7, Cases

\* A candidate that was not published was never selected, nor served.
LEMMA UnseenStep ==
    ASSUME IInv, TypeOK', [Next]_vars, NEW e \in Controllers
    PROVE  Unseen(e)'
  <1> USE DeployConstants, Nones
     DEF IInv, Outside, TypeOK, FilesOK, Private, Unseen, Exclusive, Unpublished,
         PinnedReleaseStays, Retained, CurrentIsTested, Keep, Numbered, Counted, Adopted,
         Release, Job, Stage, Selected, Unstarted
  <1>0. CASE UNCHANGED vars
    BY <1>0
  <1>1. CASE Environment
    BY <1>1 DEF Environment, Merge, UnitEnds, FetchEnds, InstallEnds, TestsEnd, Ends,
                ApiExits, ApiStarts, ApiAges, AdminUnmounts
  <1>2. ASSUME NEW d \in Controllers, Entering(d) PROVE Unseen(e)'
    BY <1>2 DEF AlreadyCurrent, Mount, Request, Busy, Lock, Fail, Entering
  <1>3. ASSUME NEW d \in Controllers, Succeeding(d) PROVE Unseen(e)'
    BY <1>3 DEF Succeeding, StartUnit, Fetched, WheelsInstalled, TestsPassed, Admit, Readmit
  <1>4. ASSUME NEW d \in Controllers, Stopping(d) PROVE Unseen(e)'
    BY <1>4 DEF Stopping, Refused, SourceInvalid, Interrupt, Stop, Stopped, Recover, Abandon
  <1>5. ASSUME NEW d \in Controllers, Publishing(d) PROVE Unseen(e)'
    BY <1>5 DEF Publishing, Publish, Verify, VerifyFails, HandoffPasses
  <1>6. ASSUME NEW d \in Controllers, TakingBack(d) PROVE Unseen(e)'
    BY SMTT(30), <1>6 DEF TakingBack, HandoffFails, Rollback, Readopt, RecoveryFails
  <1>7. ASSUME NEW d \in Controllers, Leaving(d) PROVE Unseen(e)'
    BY <1>7 DEF Leaving, Unlock, Cleanup, Crash
  <1> QED BY <1>0, <1>1, <1>2, <1>3, <1>4, <1>5, <1>6, <1>7, Cases

\* A candidate that was not published is known to its own attempt alone.
LEMMA ExclusiveStep ==
    ASSUME IInv, TypeOK', [Next]_vars, NEW e \in Controllers
    PROVE  Exclusive(e)'
  <1> USE DeployConstants, Nones
     DEF IInv, Outside, TypeOK, FilesOK, Private, Unseen, Exclusive, Unpublished, Retained,
         CurrentIsTested, Keep, Numbered, Counted, Release, Job, Stage, Prepared,
         Unselected, Unstarted
  <1>0. CASE UNCHANGED vars
    BY <1>0
  <1>1. CASE Environment
    BY <1>1 DEF Environment, Merge, UnitEnds, FetchEnds, InstallEnds, TestsEnd, Ends,
                ApiExits, ApiStarts, ApiAges, AdminUnmounts
  <1>2. ASSUME NEW d \in Controllers, Entering(d) PROVE Exclusive(e)'
    <2>1. CASE AlreadyCurrent(d)
      BY SMTT(30), <2>1 DEF AlreadyCurrent
    <2>2. CASE Mount(d)
      BY <2>2 DEF Mount
    <2>3. CASE Request(d) \/ Busy(d) \/ Lock(d) \/ Fail(d)
      BY <2>3 DEF Request, Busy, Lock, Fail
    <2> QED BY <1>2, <2>1, <2>2, <2>3 DEF Entering
  <1>3. ASSUME NEW d \in Controllers, Succeeding(d) PROVE Exclusive(e)'
    <2>1. CASE StartUnit(d)
      BY <2>1 DEF StartUnit
    <2>2. CASE Fetched(d)
      BY SMTT(30), <2>2 DEF Fetched
    <2>3. CASE WheelsInstalled(d)
      BY SMTT(30), <2>3 DEF WheelsInstalled
    <2>4. CASE TestsPassed(d)
      BY <2>4 DEF TestsPassed
    <2>5. CASE Admit(d)
      BY <2>5 DEF Admit
    <2>6. CASE Readmit(d)
      BY <2>6 DEF Readmit
    <2> QED BY <1>3, <2>1, <2>2, <2>3, <2>4, <2>5, <2>6 DEF Succeeding
  <1>4. ASSUME NEW d \in Controllers, Stopping(d) PROVE Exclusive(e)'
    BY <1>4 DEF Stopping, Refused, SourceInvalid, Interrupt, Stop, Stopped, Recover, Abandon
  <1>5. ASSUME NEW d \in Controllers, Publishing(d) PROVE Exclusive(e)'
    BY <1>5 DEF Publishing, Publish, Verify, VerifyFails, HandoffPasses
  <1>6. ASSUME NEW d \in Controllers, TakingBack(d) PROVE Exclusive(e)'
    <2>1. CASE HandoffFails(d)
      BY <2>1 DEF HandoffFails
    <2>2. CASE Rollback(d)
      BY <2>2 DEF Rollback
    <2>3. CASE Readopt(d)
      BY <2>3 DEF Readopt
    <2>4. CASE RecoveryFails(d)
      BY <2>4 DEF RecoveryFails
    <2> QED BY <1>6, <2>1, <2>2, <2>3, <2>4 DEF TakingBack
  <1>7. ASSUME NEW d \in Controllers, Leaving(d) PROVE Exclusive(e)'
    <2>1. CASE Unlock(d)
      BY <2>1 DEF Unlock
    <2>2. CASE Cleanup(d)
      BY <2>2 DEF Cleanup
    <2>3. CASE Crash(d)
      BY <2>3 DEF Crash
    <2> QED BY <1>7, <2>1, <2>2, <2>3 DEF Leaving
  <1> QED BY <1>0, <1>1, <1>2, <1>3, <1>4, <1>5, <1>6, <1>7, Cases

\* Only the attempt that waits for a unit, or stops it, has a unit.
LEMMA QuietStep ==
    ASSUME IInv, TypeOK', [Next]_vars, NEW e \in Controllers
    PROVE  Quiet(e)'
  <1> USE DeployConstants, Nones
     DEF IInv, Outside, TypeOK, FilesOK, Private, Exclusive, Quiet, Unpublished, Waiting,
         Numbered, Counted, Release, Unit, Job, Stage, Marked, Prepared, Unselected, Waits,
         Kinds
  <1>0. CASE UNCHANGED vars
    BY <1>0
  <1>1. CASE Environment
    BY <1>1 DEF Environment, Merge, UnitEnds, FetchEnds, InstallEnds, TestsEnd, Ends,
                ApiExits, ApiStarts, ApiAges, AdminUnmounts
  <1>2. ASSUME NEW d \in Controllers, Entering(d) PROVE Quiet(e)'
    BY <1>2 DEF AlreadyCurrent, Mount, Request, Busy, Lock, Fail, Entering
  <1>3. ASSUME NEW d \in Controllers, Succeeding(d) PROVE Quiet(e)'
    BY <1>3 DEF Succeeding, StartUnit, Fetched, WheelsInstalled, TestsPassed, Admit, Readmit
  <1>4. ASSUME NEW d \in Controllers, Stopping(d) PROVE Quiet(e)'
    BY <1>4 DEF Stopping, Refused, SourceInvalid, Interrupt, Stop, Stopped, Recover, Abandon
  <1>5. ASSUME NEW d \in Controllers, Publishing(d) PROVE Quiet(e)'
    BY <1>5 DEF Publishing, Publish, Verify, VerifyFails, HandoffPasses
  <1>6. ASSUME NEW d \in Controllers, TakingBack(d) PROVE Quiet(e)'
    BY <1>6 DEF TakingBack, HandoffFails, Rollback, Readopt, RecoveryFails
  <1>7. ASSUME NEW d \in Controllers, Leaving(d) PROVE Quiet(e)'
    BY <1>7 DEF Leaving, Unlock, Cleanup, Crash
  <1> QED BY <1>0, <1>1, <1>2, <1>3, <1>4, <1>5, <1>6, <1>7, Cases

\* The marker says which unit the owner of the lock waits for.
LEMMA MarkedStep ==
    ASSUME IInv, TypeOK', [Next]_vars, NEW e \in Controllers
    PROVE  Marked(e)'
  <1> USE DeployConstants, Nones, Alone
     DEF IInv, Outside, TypeOK, FilesOK, Stage, Marked, Waits, Kinds, Waiting, Unit, Job,
         Steps
  <1>0. CASE UNCHANGED vars
    BY <1>0
  <1>1. CASE Environment
    BY <1>1 DEF Environment, Merge, UnitEnds, FetchEnds, InstallEnds, TestsEnd, Ends,
                ApiExits, ApiStarts, ApiAges, AdminUnmounts
  <1>2. ASSUME NEW d \in Controllers, Entering(d) PROVE Marked(e)'
    BY <1>2 DEF Entering, Request, Busy, Lock, AlreadyCurrent, Mount, Fail
  <1>3. ASSUME NEW d \in Controllers, Succeeding(d) PROVE Marked(e)'
    BY <1>3 DEF Succeeding, StartUnit, Fetched, WheelsInstalled, TestsPassed, Admit, Readmit
  <1>4. ASSUME NEW d \in Controllers, Stopping(d) PROVE Marked(e)'
    <2>1. CASE Interrupt(d)
      BY <2>1 DEF Interrupt, Prepared, Unselected, Release
    <2>2. CASE Stop(d)
      BY <2>2 DEF Stop
    <2>3. CASE Stopped(d)
      BY <2>3 DEF Stopped
    <2>4. CASE Refused(d) \/ SourceInvalid(d) \/ Recover(d) \/ Abandon(d)
      BY <2>4 DEF Refused, SourceInvalid, Recover, Abandon
    <2> QED BY <1>4, <2>1, <2>2, <2>3, <2>4 DEF Stopping
  <1>5. ASSUME NEW d \in Controllers, Publishing(d) PROVE Marked(e)'
    BY <1>5 DEF Publishing, Publish, Verify, VerifyFails, HandoffPasses
  <1>6. ASSUME NEW d \in Controllers, TakingBack(d) PROVE Marked(e)'
    BY <1>6 DEF TakingBack, HandoffFails, Rollback, Readopt, RecoveryFails
  <1>7. ASSUME NEW d \in Controllers, Leaving(d) PROVE Marked(e)'
    BY <1>7 DEF Leaving, Unlock, Cleanup, Crash
  <1> QED BY <1>0, <1>1, <1>2, <1>3, <1>4, <1>5, <1>6, <1>7, Cases

\* An attempt has no outcome before it ends, and no candidate before its mount.
LEMMA UnstartedStep ==
    ASSUME IInv, TypeOK', [Next]_vars, NEW e \in Controllers
    PROVE  Unstarted(e)'
  <1> USE DeployConstants, Nones, Alone
     DEF IInv, Outside, TypeOK, FilesOK, Stage, Unstarted, Job, Waits, Steps, Kinds
  <1>0. CASE UNCHANGED vars
    BY <1>0
  <1>1. CASE Environment
    BY <1>1 DEF Environment, Merge, UnitEnds, FetchEnds, InstallEnds, TestsEnd, Ends,
                ApiExits, ApiStarts, ApiAges, AdminUnmounts
  <1>2. ASSUME NEW d \in Controllers, Entering(d) PROVE Unstarted(e)'
    BY <1>2 DEF Entering, Request, Busy, Lock, AlreadyCurrent, Mount, Fail
  <1>3. ASSUME NEW d \in Controllers, Succeeding(d) PROVE Unstarted(e)'
    BY <1>3 DEF Succeeding, StartUnit, Fetched, WheelsInstalled, TestsPassed, Admit, Readmit
  <1>4. ASSUME NEW d \in Controllers, Stopping(d) PROVE Unstarted(e)'
    BY <1>4 DEF Stopping, Refused, SourceInvalid, Interrupt, Stop, Stopped, Recover, Abandon
  <1>5. ASSUME NEW d \in Controllers, Publishing(d) PROVE Unstarted(e)'
    BY <1>5 DEF Publishing, Publish, Verify, VerifyFails, HandoffPasses
  <1>6. ASSUME NEW d \in Controllers, TakingBack(d) PROVE Unstarted(e)'
    BY <1>6 DEF TakingBack, HandoffFails, Rollback, Readopt, RecoveryFails
  <1>7. ASSUME NEW d \in Controllers, Leaving(d) PROVE Unstarted(e)'
    BY <1>7 DEF Leaving, Unlock, Cleanup, Crash
  <1> QED BY <1>0, <1>1, <1>2, <1>3, <1>4, <1>5, <1>6, <1>7, Cases

\* Until the publication, the release that was active stays current.
LEMMA PreparedStep ==
    ASSUME IInv, TypeOK', [Next]_vars, NEW e \in Controllers
    PROVE  Prepared(e)'
  <1> USE DeployConstants, Nones, Alone
     DEF IInv, Outside, TypeOK, FilesOK, Stage, Unselected, Release, Job, Waits, Kinds,
         Prepared, Unstarted, Numbered, Counted, Retained, CurrentIsTested, Keep
  <1>0. CASE UNCHANGED vars
    BY <1>0
  <1>1. CASE Environment
    BY <1>1 DEF Environment, Merge, UnitEnds, FetchEnds, InstallEnds, TestsEnd, Ends,
                ApiExits, ApiStarts, ApiAges, AdminUnmounts
  <1>2. ASSUME NEW d \in Controllers, Entering(d) PROVE Prepared(e)'
    BY <1>2 DEF Entering, Request, Busy, Lock, AlreadyCurrent, Mount, Fail
  <1>3. ASSUME NEW d \in Controllers, Succeeding(d) PROVE Prepared(e)'
    <2>1. CASE StartUnit(d)
      BY <2>1 DEF StartUnit
    <2>2. CASE Fetched(d)
      BY <2>2 DEF Fetched
    <2>3. CASE WheelsInstalled(d)
      BY <2>3 DEF WheelsInstalled
    <2>4. CASE TestsPassed(d)
      BY <2>4 DEF TestsPassed
    <2>5. CASE Admit(d)
      BY <2>5 DEF Admit
    <2>6. CASE Readmit(d)
      BY <2>6 DEF Readmit
    <2> QED BY <1>3, <2>1, <2>2, <2>3, <2>4, <2>5, <2>6 DEF Succeeding
  <1>4. ASSUME NEW d \in Controllers, Stopping(d) PROVE Prepared(e)'
    BY <1>4 DEF Stopping, Refused, SourceInvalid, Interrupt, Stop, Stopped, Recover, Abandon
  <1>5. ASSUME NEW d \in Controllers, Publishing(d) PROVE Prepared(e)'
    BY <1>5 DEF Publishing, Publish, Verify, VerifyFails, HandoffPasses
  <1>6. ASSUME NEW d \in Controllers, TakingBack(d) PROVE Prepared(e)'
    BY <1>6 DEF TakingBack, HandoffFails, Rollback, Readopt, RecoveryFails
  <1>7. ASSUME NEW d \in Controllers, Leaving(d) PROVE Prepared(e)'
    BY <1>7 DEF Leaving, Unlock, Cleanup, Crash
  <1> QED BY <1>0, <1>1, <1>2, <1>3, <1>4, <1>5, <1>6, <1>7, Cases

\* The staging is mounted until its repository is exported.
LEMMA StagedStep ==
    ASSUME IInv, TypeOK', [Next]_vars, NEW e \in Controllers
    PROVE  Staged(e)'
  <1> USE DeployConstants, Nones, Alone
     DEF IInv, Outside, TypeOK, FilesOK, Stage, Unselected, Release, Job, Waits, Kinds,
         Staged, Prepared, Unstarted, Marked
  <1>0. CASE UNCHANGED vars
    BY <1>0
  <1>1. CASE Environment
    BY <1>1 DEF Environment, Merge, UnitEnds, FetchEnds, InstallEnds, TestsEnd, Ends,
                ApiExits, ApiStarts, ApiAges, AdminUnmounts
  <1>2. ASSUME NEW d \in Controllers, Entering(d) PROVE Staged(e)'
    BY <1>2 DEF Entering, Request, Busy, Lock, AlreadyCurrent, Mount, Fail
  <1>3. ASSUME NEW d \in Controllers, Succeeding(d) PROVE Staged(e)'
    <2>1. CASE StartUnit(d)
      BY <2>1 DEF StartUnit
    <2>2. CASE Fetched(d)
      BY <2>2 DEF Fetched
    <2>3. CASE WheelsInstalled(d)
      BY <2>3 DEF WheelsInstalled
    <2>4. CASE TestsPassed(d)
      BY <2>4 DEF TestsPassed
    <2>5. CASE Admit(d)
      BY <2>5 DEF Admit
    <2>6. CASE Readmit(d)
      BY <2>6 DEF Readmit
    <2> QED BY <1>3, <2>1, <2>2, <2>3, <2>4, <2>5, <2>6 DEF Succeeding
  <1>4. ASSUME NEW d \in Controllers, Stopping(d) PROVE Staged(e)'
    BY <1>4 DEF Stopping, Refused, SourceInvalid, Interrupt, Stop, Stopped, Recover, Abandon
  <1>5. ASSUME NEW d \in Controllers, Publishing(d) PROVE Staged(e)'
    BY <1>5 DEF Publishing, Publish, Verify, VerifyFails, HandoffPasses
  <1>6. ASSUME NEW d \in Controllers, TakingBack(d) PROVE Staged(e)'
    BY <1>6 DEF TakingBack, HandoffFails, Rollback, Readopt, RecoveryFails
  <1>7. ASSUME NEW d \in Controllers, Leaving(d) PROVE Staged(e)'
    BY <1>7 DEF Leaving, Unlock, Cleanup, Crash
  <1> QED BY <1>0, <1>1, <1>2, <1>3, <1>4, <1>5, <1>6, <1>7, Cases

\* A candidate that was fetched is later in main than the active release.
LEMMA AheadStep ==
    ASSUME IInv, TypeOK', [Next]_vars, NEW e \in Controllers
    PROVE  Ahead(e)'
  <1> USE DeployConstants, Nones, Alone, AcceptedPositive
     DEF IInv, Outside, TypeOK, FilesOK, Stage, Unselected, Release, Job, Waits, Kinds,
         Ahead, Prepared, Positive, Complete, Marked, UnitsAreAccountedFor, Acquirable,
         Unstarted, Result
  <1>0. CASE UNCHANGED vars
    BY <1>0
  <1>1. CASE Environment
    <2>1. CASE UnitEnds
      BY <2>1 DEF UnitEnds, FetchEnds, InstallEnds, TestsEnd, Ends
    <2>2. CASE Merge \/ ApiExits \/ ApiStarts \/ ApiAges \/ AdminUnmounts
      BY <2>2 DEF Merge, ApiExits, ApiStarts, ApiAges, AdminUnmounts
    <2> QED BY <1>1, <2>1, <2>2 DEF Environment
  <1>2. ASSUME NEW d \in Controllers, Entering(d) PROVE Ahead(e)'
    BY <1>2 DEF Entering, Request, Busy, Lock, AlreadyCurrent, Mount, Fail
  <1>3. ASSUME NEW d \in Controllers, Succeeding(d) PROVE Ahead(e)'
    <2>1. CASE StartUnit(d)
      BY <2>1 DEF StartUnit
    <2>2. CASE Fetched(d)
      BY <2>2 DEF Fetched
    <2>3. CASE WheelsInstalled(d)
      BY <2>3 DEF WheelsInstalled
    <2>4. CASE TestsPassed(d)
      BY <2>4 DEF TestsPassed
    <2>5. CASE Admit(d)
      BY <2>5 DEF Admit
    <2>6. CASE Readmit(d)
      BY <2>6 DEF Readmit
    <2> QED BY <1>3, <2>1, <2>2, <2>3, <2>4, <2>5, <2>6 DEF Succeeding
  <1>4. ASSUME NEW d \in Controllers, Stopping(d) PROVE Ahead(e)'
    BY <1>4 DEF Stopping, Refused, SourceInvalid, Interrupt, Stop, Stopped, Recover, Abandon
  <1>5. ASSUME NEW d \in Controllers, Publishing(d) PROVE Ahead(e)'
    BY <1>5 DEF Publishing, Publish, Verify, VerifyFails, HandoffPasses
  <1>6. ASSUME NEW d \in Controllers, TakingBack(d) PROVE Ahead(e)'
    BY <1>6 DEF TakingBack, HandoffFails, Rollback, Readopt, RecoveryFails
  <1>7. ASSUME NEW d \in Controllers, Leaving(d) PROVE Ahead(e)'
    BY <1>7 DEF Leaving, Unlock, Cleanup, Crash
  <1> QED BY <1>0, <1>1, <1>2, <1>3, <1>4, <1>5, <1>6, <1>7, Cases

\* A fetched candidate stays on disk until it is published.
LEMMA StoredStep ==
    ASSUME IInv, TypeOK', [Next]_vars, NEW e \in Controllers
    PROVE  Stored(e)'
  <1> USE DeployConstants, Nones, Alone
     DEF IInv, Outside, TypeOK, FilesOK, Stage, Unselected, Release, Job, Waits, Kinds,
         Stored, Prepared, Complete, Private, Exclusive, Unpublished, Removable, Unstarted
  <1>0. CASE UNCHANGED vars
    BY <1>0
  <1>1. CASE Environment
    BY <1>1 DEF Environment, Merge, UnitEnds, FetchEnds, InstallEnds, TestsEnd, Ends,
                ApiExits, ApiStarts, ApiAges, AdminUnmounts
  <1>2. ASSUME NEW d \in Controllers, Entering(d) PROVE Stored(e)'
    BY <1>2 DEF Entering, Request, Busy, Lock, AlreadyCurrent, Mount, Fail
  <1>3. ASSUME NEW d \in Controllers, Succeeding(d) PROVE Stored(e)'
    <2>1. CASE StartUnit(d)
      BY <2>1 DEF StartUnit
    <2>2. CASE Fetched(d)
      BY <2>2 DEF Fetched
    <2>3. CASE WheelsInstalled(d)
      BY <2>3 DEF WheelsInstalled
    <2>4. CASE TestsPassed(d)
      BY <2>4 DEF TestsPassed
    <2>5. CASE Admit(d)
      BY <2>5 DEF Admit
    <2>6. CASE Readmit(d)
      BY <2>6 DEF Readmit
    <2> QED BY <1>3, <2>1, <2>2, <2>3, <2>4, <2>5, <2>6 DEF Succeeding
  <1>4. ASSUME NEW d \in Controllers, Stopping(d) PROVE Stored(e)'
    BY <1>4 DEF Stopping, Refused, SourceInvalid, Interrupt, Stop, Stopped, Recover, Abandon
  <1>5. ASSUME NEW d \in Controllers, Publishing(d) PROVE Stored(e)'
    BY <1>5 DEF Publishing, Publish, Verify, VerifyFails, HandoffPasses
  <1>6. ASSUME NEW d \in Controllers, TakingBack(d) PROVE Stored(e)'
    BY <1>6 DEF TakingBack, HandoffFails, Rollback, Readopt, RecoveryFails
  <1>7. ASSUME NEW d \in Controllers, Leaving(d) PROVE Stored(e)'
    BY <1>7 DEF Leaving, Unlock, Cleanup, Crash
  <1> QED BY <1>0, <1>1, <1>2, <1>3, <1>4, <1>5, <1>6, <1>7, Cases

\* Only a candidate whose tests passed is published.
LEMMA PassedStep ==
    ASSUME IInv, TypeOK', [Next]_vars, NEW e \in Controllers
    PROVE  Passed(e)'
  <1> USE DeployConstants, Nones, Alone, AcceptedPositive
     DEF IInv, Outside, TypeOK, FilesOK, Stage, Unselected, Release, Job, Waits, Kinds,
         Passed, Prepared, Positive, Marked, UnitsAreAccountedFor, Result
  <1>0. CASE UNCHANGED vars
    BY <1>0
  <1>1. CASE Environment
    <2>1. CASE UnitEnds
      BY <2>1 DEF UnitEnds, FetchEnds, InstallEnds, TestsEnd, Ends
    <2>2. CASE Merge \/ ApiExits \/ ApiStarts \/ ApiAges \/ AdminUnmounts
      BY <2>2 DEF Merge, ApiExits, ApiStarts, ApiAges, AdminUnmounts
    <2> QED BY <1>1, <2>1, <2>2 DEF Environment
  <1>2. ASSUME NEW d \in Controllers, Entering(d) PROVE Passed(e)'
    BY <1>2 DEF Entering, Request, Busy, Lock, AlreadyCurrent, Mount, Fail
  <1>3. ASSUME NEW d \in Controllers, Succeeding(d) PROVE Passed(e)'
    <2>1. CASE StartUnit(d)
      BY <2>1 DEF StartUnit
    <2>2. CASE Fetched(d)
      BY <2>2 DEF Fetched
    <2>3. CASE WheelsInstalled(d)
      BY <2>3 DEF WheelsInstalled
    <2>4. CASE TestsPassed(d)
      BY <2>4 DEF TestsPassed
    <2>5. CASE Admit(d)
      BY <2>5 DEF Admit
    <2>6. CASE Readmit(d)
      BY <2>6 DEF Readmit
    <2> QED BY <1>3, <2>1, <2>2, <2>3, <2>4, <2>5, <2>6 DEF Succeeding
  <1>4. ASSUME NEW d \in Controllers, Stopping(d) PROVE Passed(e)'
    BY <1>4 DEF Stopping, Refused, SourceInvalid, Interrupt, Stop, Stopped, Recover, Abandon
  <1>5. ASSUME NEW d \in Controllers, Publishing(d) PROVE Passed(e)'
    BY <1>5 DEF Publishing, Publish, Verify, VerifyFails, HandoffPasses
  <1>6. ASSUME NEW d \in Controllers, TakingBack(d) PROVE Passed(e)'
    BY <1>6 DEF TakingBack, HandoffFails, Rollback, Readopt, RecoveryFails
  <1>7. ASSUME NEW d \in Controllers, Leaving(d) PROVE Passed(e)'
    BY <1>7 DEF Leaving, Unlock, Cleanup, Crash
  <1> QED BY <1>0, <1>1, <1>2, <1>3, <1>4, <1>5, <1>6, <1>7, Cases

\* After the publication the candidate is current until it is taken back, and the
\* outcome says what is so (ReportsAreTrue).
LEMMA SelectedStep ==
    ASSUME IInv, TypeOK', [Next]_vars, NEW e \in Controllers
    PROVE  Selected(e)'
  <1> USE DeployConstants, Nones, Alone
     DEF IInv, Outside, TypeOK, FilesOK, Stage, Selected, Report, Prepared, Unselected,
         Unstarted, Adopted, Job, Retained, CurrentIsTested, Keep, Waits, Kinds
  <1>0. CASE UNCHANGED vars
    BY <1>0
  <1>1. CASE Environment
    BY <1>1 DEF Environment, Merge, UnitEnds, FetchEnds, InstallEnds, TestsEnd, Ends,
                ApiExits, ApiStarts, ApiAges, AdminUnmounts
  <1>2. ASSUME NEW d \in Controllers, Entering(d) PROVE Selected(e)'
    BY <1>2 DEF Entering, Request, Busy, Lock, AlreadyCurrent, Mount, Fail
  <1>3. ASSUME NEW d \in Controllers, Succeeding(d) PROVE Selected(e)'
    <2>1. CASE StartUnit(d)
      BY <2>1 DEF StartUnit
    <2>2. CASE Fetched(d)
      BY <2>2 DEF Fetched
    <2>3. CASE WheelsInstalled(d)
      BY SMTT(30), <2>3 DEF WheelsInstalled
    <2>4. CASE TestsPassed(d)
      BY <2>4 DEF TestsPassed
    <2>5. CASE Admit(d)
      BY <2>5 DEF Admit
    <2>6. CASE Readmit(d)
      BY <2>6 DEF Readmit
    <2> QED BY <1>3, <2>1, <2>2, <2>3, <2>4, <2>5, <2>6 DEF Succeeding
  <1>4. ASSUME NEW d \in Controllers, Stopping(d) PROVE Selected(e)'
    BY <1>4 DEF Stopping, Refused, SourceInvalid, Interrupt, Stop, Stopped, Recover, Abandon
  <1>5. ASSUME NEW d \in Controllers, Publishing(d) PROVE Selected(e)'
    BY <1>5 DEF Publishing, Publish, Verify, VerifyFails, HandoffPasses
  <1>6. ASSUME NEW d \in Controllers, TakingBack(d) PROVE Selected(e)'
    BY <1>6 DEF TakingBack, HandoffFails, Rollback, Readopt, RecoveryFails
  <1>7. ASSUME NEW d \in Controllers, Leaving(d) PROVE Selected(e)'
    BY <1>7 DEF Leaving, Unlock, Cleanup, Crash
  <1> QED BY <1>0, <1>1, <1>2, <1>3, <1>4, <1>5, <1>6, <1>7, Cases

-----------------------------------------------------------------------------
(* Theorems                                                                *)

\* The controller starts from an installed, tested release, unlocked and without
\* units: the invariant holds.
LEMMA InitInvariant == Init => IInv
<1>1. SUFFICES ASSUME Init PROVE IInv
  OBVIOUS
<1> USE <1>1, DeployConstants, Nones DEF Init
<1>2. Installed \in Release /\ Installed # None
  BY DEF Installed, Release
<1>3. TypeOK
  BY <1>2, NoJobTyped DEF TypeOK, FilesOK, Steps
<1>4. Numbered /\ CurrentIsTested /\ PinnedReleaseStays /\ UnitsAreAccountedFor
  BY DEF Numbered, CurrentIsTested, PinnedReleaseStays, UnitsAreAccountedFor, Installed
<1>5. ASSUME NEW d \in Controllers PROVE Counted(d) /\ Retained(d) /\ Private(d)
  BY DEF Counted, Retained, Private, Unseen, Exclusive, Quiet, Unpublished
<1>6. ASSUME NEW d \in Controllers PROVE Stage(d)
  BY DEF Stage, Marked, Unstarted, Prepared, Staged, Ahead, Stored, Passed, Selected,
         Outside, Unselected, Complete, Waits, Kinds
<1> QED BY <1>3, <1>4, <1>5, <1>6 DEF IInv

\* Every step keeps every part of the invariant.
LEMMA StepInvariant == IInv /\ [Next]_vars => IInv'
<1>1. SUFFICES ASSUME IInv, [Next]_vars PROVE IInv'
  OBVIOUS
<1>2. job' \in [Controllers -> Job]
  BY <1>1, JobTyped, JobDomain DEF IInv, TypeOK
<1>3. \A e \in Controllers : pc'[e] \notin {"idle", "lock", "cleanup"} <=> lock' = e
  BY <1>1, LockOwned DEF Outside
<1>4. TypeOK'
  BY <1>1, <1>2, <1>3, FilesTyped, StepsTyped DEF TypeOK
<1>5. Numbered' /\ CurrentIsTested' /\ PinnedReleaseStays' /\ UnitsAreAccountedFor'
  BY <1>1, <1>4, NumberedStep, CurrentStep, PinnedStep, AccountedStep
<1>6. ASSUME NEW e \in Controllers PROVE (Counted(e) /\ Retained(e) /\ Private(e))'
  BY <1>1, <1>4, CountedStep, RetainedStep, UnseenStep, ExclusiveStep, QuietStep DEF Private
<1>7. ASSUME NEW e \in Controllers PROVE Stage(e)'
  BY <1>1, <1>4, MarkedStep, UnstartedStep, PreparedStep, StagedStep, AheadStep, StoredStep,
     PassedStep, SelectedStep
     DEF Stage
<1> QED BY <1>4, <1>5, <1>6, <1>7 DEF IInv

\* The invariant holds of every behaviour.
THEOREM DeployInvariant == Spec => []IInv
  BY InitInvariant, StepInvariant, PTL DEF Spec

\* Files and memory keep their types, and the lock its one owner.
THEOREM TypeCorrect == Spec => []TypeOK
<1>1. IInv => TypeOK
  BY DEF IInv
<1> QED BY <1>1, DeployInvariant, PTL

\* However often attempts overlap, die and are recovered, current points to a
\* release whose tests passed and that is on disk.
THEOREM CurrentStaysTested == Spec => []CurrentIsTested
<1>1. IInv => CurrentIsTested
  BY DEF IInv
<1> QED BY <1>1, DeployInvariant, PTL

\* No cleanup removes the release that the API process is pinned to.
THEOREM PinnedStays == Spec => []PinnedReleaseStays
<1>1. IInv => PinnedReleaseStays
  BY DEF IInv
<1> QED BY <1>1, DeployInvariant, PTL

\* A running unit, also of an attempt that died, is named by the marker and keeps
\* the directory it works in.
THEOREM UnitsAccounted == Spec => []UnitsAreAccountedFor
<1>1. IInv => UnitsAreAccountedFor
  BY DEF IInv
<1> QED BY <1>1, DeployInvariant, PTL

\* PASS, of a deployment or of a recovery, is reported only of what is so.
THEOREM ReportsTrue == Spec => []ReportsAreTrue
<1>1. IInv => ReportsAreTrue
  BY DEF IInv, ReportsAreTrue, Stage, Selected, Report
<1> QED BY <1>1, DeployInvariant, PTL

\* The active commit moves forward in main, or back to what was just replaced.
THEOREM ForwardOrBack == Spec => NeverBackwards
<1>1. ASSUME IInv, [Next]_vars
      PROVE  [current' # current => current'.sha > current.sha \/ current' = replaced]_vars
  <2> USE DEF IInv, Stage, Ahead, Complete, Selected, TypeOK, FilesOK, Release, Job
  <2>1. CASE UNCHANGED vars
    BY <2>1
  <2>2. ASSUME NEW d \in Controllers, Publish(d)
        PROVE  current'.sha > current.sha
    BY <1>1, <2>2, Nones DEF Publish, Prepared, Unselected
  <2>3. ASSUME NEW d \in Controllers, VerifyFails(d) \/ Rollback(d)
        PROVE  current' \in {current, replaced}
    BY <1>1, <2>3 DEF VerifyFails, Rollback
  <2>4. ASSUME NEW d \in Controllers, Entering(d) \/ Succeeding(d) \/ Stopping(d) \/ Leaving(d)
        PROVE  current' = current
    BY <2>4 DEF Entering, Succeeding, Stopping, Leaving, Request, Busy, Lock, AlreadyCurrent,
                Mount, Fail, StartUnit, Fetched, WheelsInstalled, TestsPassed, Admit, Readmit,
                Refused, SourceInvalid, Interrupt, Stop, Stopped, Recover, Abandon, Unlock,
                Cleanup, Crash
  <2>5. ASSUME NEW d \in Controllers,
               Verify(d) \/ HandoffPasses(d) \/ HandoffFails(d) \/ Readopt(d) \/ RecoveryFails(d)
        PROVE  current' = current
    BY <2>5 DEF Verify, HandoffPasses, HandoffFails, Readopt, RecoveryFails
  <2>6. CASE Environment
    BY <2>6 DEF Environment, Merge, UnitEnds, FetchEnds, InstallEnds, TestsEnd, Ends,
                ApiExits, ApiStarts, ApiAges, AdminUnmounts
  <2> QED BY <1>1, <2>1, <2>2, <2>3, <2>4, <2>5, <2>6, Cases DEF Publishing, TakingBack
<1> QED BY <1>1, DeployInvariant, PTL DEF Spec, NeverBackwards

-----------------------------------------------------------------------------
(* The checks that GitHub asks of the host (TrustedOffline).                *)

CONSTANTS
    Shas, Revision, OfflineKinds, Settings, MaxJobs

VARIABLES
    offlineTip, green, jobs, queued, started, markers, status, unfinished, installed, host, reports,
    proved, invoked, posted, accepted

T == INSTANCE TrustedOffline WITH tip <- offlineTip, Kinds <- OfflineKinds

Single(S) == \A a, b \in S : a = b
Revisions == {Revision[s] : s \in Shas}
OfflineEvents == T!Requests \cup [sha : Shas \cup {0}]
OfflineSteps == {"resolve", "recheck", "listing", "mark", "pending", "ssh", "waiting", "final"}
OfflineJobs ==
    [id : Nat, kind : {"auto", "comment", "release"}, event : OfflineEvents,
     sha : Shas \cup {0}, step : OfflineSteps, result : {"error", "success", "failure"}, tips : SUBSET Shas]
Asking == {"ssh", "waiting", "final"}
Earned(s) == \E r \in Revisions : <<s, r>> \in proved

\* A job was started under some tip and has seen every one since; once resolved it is at a commit, which for a
\* pull request was its head meanwhile; the marker precedes everything that a CI attempt asks for, and only the
\* job that set it goes on; a success is one that the host reported.
JobHolds(j) ==
    /\ j \in OfflineJobs /\ j.id <= started /\ offlineTip \in j.tips
    /\ j.kind = "auto" => j.event \in T!Requests
    /\ j.kind = "release" => j.event.sha \in Shas /\ j.step \in {"resolve", "recheck"} \cup Asking
    /\ j.step \in {"listing", "mark"} => j.kind = "auto"
    /\ j.step # "resolve" => j.sha \in Shas /\ (j.kind # "release" => j.sha \in j.tips)
    /\ j.step = "mark" => ~T!Marked(j)
    /\ j.kind = "auto" /\ j.step \in {"pending", "ssh"} => T!Marked(j) /\ invoked[T!RequestMarker(j)] = 0
    /\ j.result = "success" => j.step = "final" /\ Earned(j.sha)
JobsHold ==
    /\ Single(jobs) /\ \A j \in jobs : JobHolds(j)
    /\ Single(queued) /\ \A j \in queued : JobHolds(j) /\ j.step = "resolve"

\* A request that reached the host has its marker.
RequestsHold ==
    /\ markers \subseteq T!Requests /\ invoked \in [T!Requests -> {0, 1}]
    /\ \A q \in T!Requests : invoked[q] # 0 => q \in markers

\* What the host is at, and what it has answered.
HostHolds ==
    /\ \A v \in host : v \in [job : Nat, sha : Shas, revision : Revisions, locked : BOOLEAN]
    /\ \A r \in reports :
          /\ r \in [job : Nat, sha : Shas, result : {"PASS", "FAIL", "BUSY"}, revision : Revisions]
          /\ r.result = "PASS" => <<r.sha, r.revision>> \in proved

\* A pending status has a job that asks for a pull request and will post the answer.
StatusesHold ==
    /\ status \in [Shas -> T!States] /\ unfinished \subseteq Shas
    /\ T!StatusOnHead /\ T!SuccessEarned
    /\ \A s \in Shas : status[s] = "pending" =>
          \/ s \in unfinished
          \/ \E j \in jobs : j.sha = s /\ j.step \in Asking /\ j.kind # "release"

OfflineInv ==
    /\ offlineTip \in Shas /\ green \subseteq T!CiAttempts /\ started \in Nat /\ installed \in Revisions
    /\ JobsHold /\ RequestsHold /\ HostHolds /\ StatusesHold
    /\ accepted \subseteq Shas /\ T!ReleaseProved

\* A job is as sound in a later state that has the same markers and calls.
LEMMA JobStays ==
    ASSUME NEW j, JobHolds(j), started \in Nat, started' \in Nat, started <= started',
           offlineTip' = offlineTip, markers' = markers, invoked' = invoked, proved \subseteq proved'
    PROVE  JobHolds(j)'
BY SMTT(30) DEF JobHolds, OfflineJobs, Earned, T!Marked, T!RequestMarker

\* One that waits for its turn does not depend on them.
LEMMA WaitingStays ==
    ASSUME NEW j, JobHolds(j), j.step = "resolve", started \in Nat, started' \in Nat, started <= started',
           offlineTip' = offlineTip
    PROVE  JobHolds(j)'
BY DEF JobHolds, OfflineJobs, Asking

\* The one job takes a step, or ends and the next one starts.
LEMMA Proceeds ==
    ASSUME JobsHold, NEW j \in jobs, NEW k, T!Goes(j, k), JobHolds(k)',
           \A q \in queued : JobHolds(q)'
    PROVE  JobsHold' /\ jobs' = {k}
BY DEF T!Goes, JobsHold, Single

LEMMA GivesWay ==
    ASSUME JobsHold, NEW j \in jobs, T!Ends(j), \A q \in queued : JobHolds(q)'
    PROVE  JobsHold' /\ jobs' = queued
BY DEF T!Ends, JobsHold, Single

\* The statuses stay sound while every job that owes an answer still does.
LEMMA StatusesStay ==
    ASSUME StatusesHold, status' = status, posted' = posted, proved \subseteq proved',
           unfinished \subseteq unfinished', unfinished' \subseteq Shas,
           \A j \in jobs : j.step \in Asking /\ j.kind # "release" =>
              \/ j.sha \in unfinished'
              \/ \E k \in jobs' : k.sha = j.sha /\ k.step \in Asking /\ k.kind # "release"
    PROVE  StatusesHold'
<1>1. T!StatusOnHead' /\ T!SuccessEarned'
  BY DEF StatusesHold, T!StatusOnHead, T!SuccessEarned
<1>. QED
  BY <1>1 DEF StatusesHold

LEMMA RequestsStay ==
    ASSUME RequestsHold, markers' = markers, invoked' = invoked
    PROVE  RequestsHold'
BY DEF RequestsHold

LEMMA HostStays ==
    ASSUME HostHolds, host' = host, reports' = reports, proved' = proved
    PROVE  HostHolds'
BY DEF HostHolds

\* A job that takes a step which posts nothing and asks for nothing, or ends.
LEMMA OfflineQuiet ==
    ASSUME OfflineInv, NEW j \in jobs,
           UNCHANGED <<offlineTip, green, installed, started, markers, status, unfinished, host, reports, proved,
                       invoked, posted, accepted>>,
           \/ T!Ends(j) /\ (j.step \in Asking => j.kind = "release")
           \/ \E k : /\ T!Goes(j, k) /\ JobHolds(k)
                     /\ j.step \in Asking /\ j.kind # "release" =>
                          k.sha = j.sha /\ k.step \in Asking /\ k.kind # "release"
    PROVE  OfflineInv'
<1>. USE DEF OfflineInv
<1>1. \A q \in queued : JobHolds(q)'
  BY JobStays DEF JobsHold
<1>2. \A i \in jobs : i = j
  BY DEF JobsHold, Single
<1>3. JobsHold' /\ StatusesHold'
  BY <1>1, <1>2, GivesWay, StatusesStay, JobStays, Proceeds DEF StatusesHold
<1>4. RequestsHold' /\ HostHolds'
  BY RequestsStay, HostStays
<1>. QED
  BY <1>3, <1>4 DEF T!ReleaseProved

\* The first state has no job.
LEMMA OfflineStarts ==
    ASSUME T!Init PROVE OfflineInv
BY DEF T!Init, OfflineInv, JobsHold, Single, RequestsHold, HostHolds, StatusesHold, T!States,
       T!StatusOnHead, T!SuccessEarned, T!ReleaseProved, Revisions

\* A new head, a green attempt and an installation.
LEMMA RepositoryHolds ==
    ASSUME OfflineInv,
           \/ \E s \in Shas : T!Move(s) \/ T!Install(Revision[s])
           \/ \E ci \in T!CiAttempts : T!CiPasses(ci)
    PROVE  OfflineInv'
<1>. USE DEF OfflineInv
<1>1. ASSUME NEW s \in Shas, T!Move(s) PROVE OfflineInv'
  <2>. DEFINE seen(j) == [j EXCEPT !.tips = @ \cup {s}]
  <2>1. /\ offlineTip' = s /\ jobs' = {seen(j) : j \in jobs} /\ queued' = {seen(j) : j \in queued}
        /\ UNCHANGED <<green, started, markers, status, unfinished, installed, host, reports, proved,
                       invoked, posted, accepted>>
    BY <1>1 DEF T!Move, T!remote
  <2>2. ASSUME NEW j, JobHolds(j)
        PROVE  /\ JobHolds(seen(j))'
               /\ seen(j).sha = j.sha /\ seen(j).step = j.step /\ seen(j).kind = j.kind
    BY <2>1, <2>2 DEF JobHolds, OfflineJobs, Earned, T!Marked, T!RequestMarker
  <2>. HIDE DEF seen
  <2>3. JobsHold'
    BY <2>1, <2>2 DEF JobsHold, Single
  <2>4. \A j \in jobs : \E k \in jobs' : k.sha = j.sha /\ k.step = j.step /\ k.kind = j.kind
    BY <2>1, <2>2 DEF JobsHold
  <2>5. StatusesHold'
    BY <2>1, <2>4, StatusesStay DEF StatusesHold
  <2>6. RequestsHold' /\ HostHolds'
    BY <2>1, RequestsStay, HostStays
  <2>. QED
    BY <2>1, <2>3, <2>5, <2>6 DEF T!ReleaseProved
<1>2. ASSUME green' \subseteq T!CiAttempts, installed' \in Revisions,
             UNCHANGED <<offlineTip, jobs, queued, started, markers, status, unfinished, host, reports, proved,
                         invoked, posted, accepted>>
      PROVE  OfflineInv'
  BY <1>2, JobStays, StatusesStay, RequestsStay, HostStays DEF JobsHold, StatusesHold, T!ReleaseProved
<1>3. ASSUME NEW s \in Shas, T!Install(Revision[s]) PROVE OfflineInv'
  BY <1>2, <1>3 DEF T!Install, T!github, T!remote, Revisions
<1>4. ASSUME NEW ci \in T!CiAttempts, T!CiPasses(ci) PROVE OfflineInv'
  BY <1>2, <1>4 DEF T!CiPasses, T!github, T!remote
<1>. QED
  BY <1>1, <1>3, <1>4

\* An event starts a job, or replaces the one that waits.
LEMMA TriggerHolds ==
    ASSUME OfflineInv, NEW kind, NEW event, T!Trigger(kind, event),
           \/ kind = "auto" /\ event \in T!Requests
           \/ kind = "comment" /\ event = [sha |-> 0]
           \/ kind = "release" /\ event \in [sha : Shas]
    PROVE  OfflineInv'
<1>. USE DEF OfflineInv
<1>. PICK j : j = T!Job(kind, event)
  OBVIOUS
<1>1. /\ started' = started + 1
      /\ \/ jobs = {} /\ jobs' = {j} /\ queued' = queued
         \/ queued' = {j} /\ jobs' = jobs
      /\ UNCHANGED <<offlineTip, green, installed, markers, status, unfinished, host, reports, proved,
                     invoked, posted, accepted>>
  BY DEF T!Trigger, T!repository, T!remote
<1>2. event \in OfflineEvents
  BY DEF OfflineEvents
<1>3. j \in OfflineJobs /\ j.step = "resolve" /\ j.kind = kind /\ j.event = event /\ j.id = started + 1
      /\ j.tips = {offlineTip} /\ j.result = "error"
  BY <1>2 DEF T!Job, OfflineJobs, OfflineSteps
<1>4. JobHolds(j)'
  BY <1>1, <1>3 DEF JobHolds, Asking
<1>5. \A q : JobHolds(q) => JobHolds(q)'
  BY <1>1, JobStays
<1>6. JobsHold'
  BY <1>1, <1>3, <1>4, <1>5 DEF JobsHold, Single
<1>7. StatusesHold'
  BY <1>1, StatusesStay DEF StatusesHold
<1>8. RequestsHold' /\ HostHolds'
  BY <1>1, RequestsStay, HostStays
<1>. QED
  BY <1>1, <1>6, <1>7, <1>8 DEF T!ReleaseProved

\* Resolving, authorising again, listing the markers, reading the answer; and every job that ends with nothing.
LEMMA ReadingHolds ==
    ASSUME OfflineInv, NEW j \in jobs,
           T!Resolve(j) \/ T!Recheck(j) \/ T!AlreadyRequested(j) \/ T!Answer(j) \/ T!Unverified(j)
    PROVE  OfflineInv'
<1>1. JobHolds(j) /\ j \in OfflineJobs
  BY DEF OfflineInv, JobsHold, JobHolds
<1>2. UNCHANGED <<offlineTip, green, installed, started, markers, status, unfinished, host, reports, proved,
                  invoked, posted, accepted>>
  BY DEF T!Resolve, T!Recheck, T!AlreadyRequested, T!Answer, T!Unverified, T!Fails, T!repository, T!remote
<1>3. CASE T!Resolve(j)
  <2>1. CASE T!Ends(j)
    BY <1>1, <1>2, <1>3, <2>1, OfflineQuiet DEF T!Resolve, Asking
  <2>2. ASSUME NEW s \in T!Identity(j), T!Goes(j, [j EXCEPT !.sha = s, !.step = "recheck"]) PROVE OfflineInv'
    <3>. DEFINE k == [j EXCEPT !.sha = s, !.step = "recheck"]
    <3>1. s \in Shas /\ (j.kind # "release" => s = offlineTip)
      BY <1>1, <2>2 DEF T!Identity, JobHolds, OfflineJobs, OfflineInv
    <3>2. /\ k \in OfflineJobs /\ k.id = j.id /\ k.kind = j.kind /\ k.event = j.event
          /\ k.sha = s /\ k.step = "recheck" /\ k.result = j.result /\ k.tips = j.tips
      BY <1>1, <3>1 DEF OfflineJobs, OfflineSteps
    <3>. HIDE DEF k
    <3>3. JobHolds(k)
      BY <1>1, <1>3, <3>1, <3>2 DEF JobHolds, T!Resolve
    <3>4. T!Goes(j, k) /\ j.step = "resolve"
      BY <1>3, <2>2 DEF T!Resolve, k
    <3>. QED
      BY <1>2, <3>3, <3>4, OfflineQuiet DEF Asking
  <2>. QED
    BY <1>3, <2>1, <2>2 DEF T!Resolve
<1>4. CASE T!Recheck(j)
  <2>1. CASE T!Ends(j)
    BY <1>1, <1>2, <1>4, <2>1, OfflineQuiet DEF T!Recheck, Asking
  <2>2. ASSUME NEW step,
               \/ j.kind = "auto" /\ step = "listing"
               \/ j.kind = "comment" /\ step = "pending"
               \/ j.kind = "release" /\ step = "ssh",
               T!Goes(j, [j EXCEPT !.step = step])
        PROVE  OfflineInv'
    <3>. DEFINE k == [j EXCEPT !.step = step]
    <3>2. /\ k \in OfflineJobs /\ k.id = j.id /\ k.kind = j.kind /\ k.event = j.event
          /\ k.sha = j.sha /\ k.step = step /\ k.result = j.result /\ k.tips = j.tips
      BY <1>1, <2>2 DEF OfflineJobs, OfflineSteps
    <3>. HIDE DEF k
    <3>3. j.step = "recheck"
      BY <1>4 DEF T!Recheck
    <3>4. JobHolds(k)
      BY <1>1, <2>2, <3>2, <3>3 DEF JobHolds, Asking
    <3>5. T!Goes(j, k)
      BY <2>2 DEF k
    <3>. QED
      BY <1>2, <3>3, <3>4, <3>5, OfflineQuiet DEF Asking
  <2>3. j.kind \in {"auto", "comment", "release"}
    BY <1>1 DEF OfflineJobs
  <2>. QED
    BY <1>4, <2>1, <2>2, <2>3 DEF T!Recheck
<1>5. CASE T!AlreadyRequested(j)
  <2>1. CASE T!Ends(j)
    BY <1>1, <1>2, <1>5, <2>1, OfflineQuiet DEF T!AlreadyRequested, Asking
  <2>2. CASE ~T!Marked(j) /\ T!Goes(j, [j EXCEPT !.step = "mark"])
    <3>. DEFINE k == [j EXCEPT !.step = "mark"]
    <3>2. /\ k \in OfflineJobs /\ k.id = j.id /\ k.kind = j.kind /\ k.event = j.event
          /\ k.sha = j.sha /\ k.step = "mark" /\ k.result = j.result /\ k.tips = j.tips
      BY <1>1 DEF OfflineJobs, OfflineSteps
    <3>. HIDE DEF k
    <3>3. j.step = "listing"
      BY <1>5 DEF T!AlreadyRequested
    <3>4. JobHolds(k)
      BY <1>1, <2>2, <3>2, <3>3 DEF JobHolds, Asking, T!Marked, T!RequestMarker
    <3>5. T!Goes(j, k)
      BY <2>2 DEF k
    <3>. QED
      BY <1>2, <3>3, <3>4, <3>5, OfflineQuiet DEF Asking
  <2>. QED
    BY <1>5, <2>1, <2>2 DEF T!AlreadyRequested
<1>6. CASE T!Answer(j)
  <2>1. ASSUME NEW result \in {"success", "failure", "error"}, result = "success" => Earned(j.sha),
               T!Goes(j, [j EXCEPT !.step = "final", !.result = result])
        PROVE  OfflineInv'
    <3>. DEFINE k == [j EXCEPT !.step = "final", !.result = result]
    <3>2. /\ k \in OfflineJobs /\ k.id = j.id /\ k.kind = j.kind /\ k.event = j.event
          /\ k.sha = j.sha /\ k.step = "final" /\ k.result = result /\ k.tips = j.tips
      BY <1>1 DEF OfflineJobs, OfflineSteps
    <3>. HIDE DEF k
    <3>3. j.step = "waiting" /\ j.kind # "release"
      BY <1>6 DEF T!Answer
    <3>4. JobHolds(k)
      BY <1>1, <2>1, <3>2, <3>3 DEF JobHolds, Asking
    <3>5. T!Goes(j, k)
      BY <2>1 DEF k
    <3>. QED
      BY <1>2, <3>2, <3>3, <3>4, <3>5, OfflineQuiet DEF Asking
  <2>2. ASSUME NEW r \in reports, r.job = j.id, r.sha = j.sha,
               T!Goes(j, [j EXCEPT !.step = "final", !.result = T!Conclusion(r)])
        PROVE  OfflineInv'
    BY <2>1, <2>2 DEF T!Conclusion, OfflineInv, HostHolds, Earned
  <2>3. CASE T!Goes(j, [j EXCEPT !.step = "final"])
    BY <1>1, <1>6, <2>1, <2>3 DEF OfflineJobs, JobHolds, T!Answer
  <2>. QED
    BY <1>6, <2>2, <2>3 DEF T!Answer
<1>7. CASE T!Unverified(j)
  BY <1>2, <1>7, OfflineQuiet DEF T!Unverified, T!Fails
<1>. QED
  BY <1>3, <1>4, <1>5, <1>6, <1>7

\* The marker: whatever the call answers, the request is marked, and only this job goes on.
LEMMA MarkHolds ==
    ASSUME OfflineInv, NEW j \in jobs, T!Mark(j) PROVE OfflineInv'
<1>. USE DEF OfflineInv
<1>1. JobHolds(j) /\ j \in OfflineJobs /\ j.step = "mark" /\ j.kind = "auto" /\ T!RequestMarker(j) \in T!Requests
  BY DEF JobsHold, JobHolds, T!Mark, T!RequestMarker, T!Requests
<1>2. /\ markers' = markers \cup {T!RequestMarker(j)}
      /\ T!Goes(j, [j EXCEPT !.step = "pending"]) \/ T!Ends(j)
      /\ UNCHANGED <<offlineTip, green, installed, started, status, unfinished, host, reports, proved,
                     invoked, posted, accepted>>
  BY DEF T!Mark, T!repository, T!remote
<1>3. \A q \in queued : JobHolds(q)'
  BY <1>2, WaitingStays DEF JobsHold
<1>4. invoked[T!RequestMarker(j)] = 0
  BY <1>1 DEF JobHolds, RequestsHold, T!Marked
<1>5. JobsHold'
  <2>1. CASE T!Ends(j)
    BY <1>3, <2>1, GivesWay
  <2>2. CASE T!Goes(j, [j EXCEPT !.step = "pending"])
    <3>. DEFINE k == [j EXCEPT !.step = "pending"]
    <3>1. /\ k \in OfflineJobs /\ k.id = j.id /\ k.kind = j.kind /\ k.event = j.event
          /\ k.sha = j.sha /\ k.step = "pending" /\ k.result = j.result /\ k.tips = j.tips
      BY <1>1 DEF OfflineJobs, OfflineSteps
    <3>2. T!Goes(j, k)
      BY <2>2
    <3>. HIDE DEF k
    <3>3. JobHolds(k)'
      BY <1>1, <1>2, <1>4, <3>1 DEF JobHolds, Asking, T!Marked, T!RequestMarker
    <3>. QED
      BY <1>3, <3>2, <3>3, Proceeds
  <2>. QED
    BY <1>2, <2>1, <2>2
<1>6. StatusesHold'
  BY <1>1, <1>2, StatusesStay DEF JobsHold, Single, Asking, StatusesHold
<1>7. RequestsHold'
  BY <1>1, <1>2 DEF RequestsHold
<1>8. HostHolds'
  BY <1>2, HostStays
<1>. QED
  BY <1>2, <1>5, <1>6, <1>7, <1>8 DEF T!ReleaseProved

\* The pending status, after which either the job owes the answer or the commit is unfinished.
LEMMA PendingHolds ==
    ASSUME OfflineInv, NEW j \in jobs, T!Pending(j) PROVE OfflineInv'
<1>. USE DEF OfflineInv
<1>1. JobHolds(j) /\ j \in OfflineJobs /\ j.step = "pending" /\ j.kind # "release" /\ j.sha \in Shas
      /\ j.sha \in j.tips
  BY DEF JobsHold, JobHolds, T!Pending, Asking
<1>2. /\ status' = [status EXCEPT ![j.sha] = "pending"]
      /\ posted' = posted \cup {[sha |-> j.sha, tips |-> j.tips]}
      /\ \/ T!Goes(j, [j EXCEPT !.step = "ssh"]) /\ unfinished' = unfinished
         \/ T!Ends(j) /\ unfinished' = unfinished \cup {j.sha}
      /\ UNCHANGED <<offlineTip, green, installed, started, markers, host, reports, proved, invoked, accepted>>
  BY DEF T!Pending, T!Post, T!repository, T!remote
<1>3. \A q \in queued : JobHolds(q)'
  BY <1>2, JobStays DEF JobsHold
<1>4. T!StatusOnHead' /\ T!SuccessEarned' /\ status' \in [Shas -> T!States]
  <2>1. T!StatusOnHead'
    BY <1>1, <1>2 DEF StatusesHold, T!StatusOnHead
  <2>2. status' \in [Shas -> T!States] /\ \A s \in Shas : status'[s] = "success" => status[s] = "success"
    BY <1>1, <1>2 DEF StatusesHold, T!States
  <2>. QED
    BY <1>2, <2>1, <2>2 DEF StatusesHold, T!SuccessEarned
<1>5. \A i \in jobs : i.step \notin Asking
  BY <1>1 DEF JobsHold, Single, Asking
<1>6. \A s \in Shas : status'[s] = "pending" => s \in unfinished \/ s = j.sha
  BY <1>2, <1>5 DEF StatusesHold
<1>7. JobsHold' /\ StatusesHold'
  <2>1. CASE T!Ends(j) /\ unfinished' = unfinished \cup {j.sha}
    BY <1>1, <1>3, <1>4, <1>6, <2>1, GivesWay DEF StatusesHold
  <2>2. CASE T!Goes(j, [j EXCEPT !.step = "ssh"]) /\ unfinished' = unfinished
    <3>. DEFINE k == [j EXCEPT !.step = "ssh"]
    <3>1. /\ k \in OfflineJobs /\ k.id = j.id /\ k.kind = j.kind /\ k.event = j.event
          /\ k.sha = j.sha /\ k.step = "ssh" /\ k.result = j.result /\ k.tips = j.tips
      BY <1>1 DEF OfflineJobs, OfflineSteps
    <3>2. T!Goes(j, k)
      BY <2>2
    <3>. HIDE DEF k
    <3>3. JobHolds(k)
      BY <1>1, <3>1 DEF JobHolds, Asking, T!Marked, T!RequestMarker
    <3>4. JobHolds(k)'
      BY <1>2, <3>3, JobStays
    <3>5. JobsHold' /\ jobs' = {k}
      BY <1>3, <3>2, <3>4, Proceeds
    <3>. QED
      BY <1>1, <1>4, <1>6, <2>2, <3>1, <3>5 DEF StatusesHold, Asking
  <2>. QED
    BY <1>2, <2>1, <2>2
<1>8. RequestsHold' /\ HostHolds'
  BY <1>2, RequestsStay, HostStays
<1>. QED
  BY <1>2, <1>7, <1>8 DEF T!ReleaseProved

\* The one call of the host, or no transport.
LEMMA SshHolds ==
    ASSUME OfflineInv, NEW j \in jobs, T!Ssh(j) PROVE OfflineInv'
<1>. USE DEF OfflineInv
<1>1. JobHolds(j) /\ j \in OfflineJobs /\ j.step = "ssh" /\ j.sha \in Shas
  BY DEF JobsHold, JobHolds, T!Ssh
<1>2. UNCHANGED <<offlineTip, green, installed, started, markers, status, unfinished, reports, proved,
                  posted, accepted>>
  BY DEF T!Ssh, T!repository
<1>3. ASSUME NEW step \in {"waiting", "final"}, T!Goes(j, [j EXCEPT !.step = step]),
             \/ host' = host /\ invoked' = invoked
             \/ /\ host' = host \cup {[job |-> j.id, sha |-> j.sha, revision |-> installed, locked |-> FALSE]}
                /\ invoked' = IF j.kind = "auto" THEN [invoked EXCEPT ![T!RequestMarker(j)] = @ + 1] ELSE invoked
      PROVE  OfflineInv'
  <2>. DEFINE k == [j EXCEPT !.step = step]
  <2>1. /\ k \in OfflineJobs /\ k.id = j.id /\ k.kind = j.kind /\ k.event = j.event
        /\ k.sha = j.sha /\ k.step = step /\ k.result = j.result /\ k.tips = j.tips
    BY <1>1 DEF OfflineJobs, OfflineSteps
  <2>2. T!Goes(j, k)
    BY <1>3
  <2>. HIDE DEF k
  <2>3. JobHolds(k)'
    BY <1>1, <1>2, <2>1 DEF JobHolds, Asking
  <2>4. \A q \in queued : JobHolds(q)'
    BY <1>2, WaitingStays DEF JobsHold
  <2>5. JobsHold' /\ jobs' = {k}
    BY <2>2, <2>3, <2>4, Proceeds
  <2>6. \A i \in jobs : i = j
    BY DEF JobsHold, Single
  <2>7. StatusesHold'
    BY <1>2, <2>1, <2>5, <2>6, StatusesStay DEF StatusesHold, Asking
  <2>8. RequestsHold'
    BY <1>1, <1>2, <1>3, RequestsStay DEF JobHolds, RequestsHold, T!Marked
  <2>9. HostHolds'
    <3>1. [job |-> j.id, sha |-> j.sha, revision |-> installed, locked |-> FALSE]
             \in [job : Nat, sha : Shas, revision : Revisions, locked : BOOLEAN]
      BY <1>1 DEF OfflineJobs
    <3>. QED
      BY <1>2, <1>3, <3>1 DEF HostHolds
  <2>. QED
    BY <1>2, <2>5, <2>7, <2>8, <2>9 DEF T!ReleaseProved
<1>. QED
  BY <1>3 DEF T!Ssh

\* The final status, of the commit that was validated.
LEMMA FinalHolds ==
    ASSUME OfflineInv, NEW j \in jobs, T!Final(j), j.kind # "release" PROVE OfflineInv'
<1>. USE DEF OfflineInv
<1>1. JobHolds(j) /\ j \in OfflineJobs /\ j.step = "final" /\ j.sha \in Shas /\ j.sha \in j.tips
  BY DEF JobsHold, JobHolds, T!Final
<1>2. /\ T!Ends(j)
      /\ \/ /\ status' = [status EXCEPT ![j.sha] = j.result]
            /\ posted' = posted \cup {[sha |-> j.sha, tips |-> j.tips]} /\ unfinished' = unfinished
         \/ unfinished' = unfinished \cup {j.sha} /\ status' = status /\ posted' = posted
      /\ UNCHANGED <<offlineTip, green, installed, started, markers, host, reports, proved, invoked, accepted>>
  BY DEF T!Final, T!Post, T!repository, T!remote
<1>3. JobsHold'
  BY <1>2, JobStays, GivesWay DEF JobsHold
<1>4. \A i \in jobs : i = j
  BY DEF JobsHold, Single
<1>5. StatusesHold'
  <2>1. CASE unfinished' = unfinished \cup {j.sha} /\ status' = status /\ posted' = posted
    BY <1>1, <1>2, <1>4, <2>1, StatusesStay DEF StatusesHold
  <2>2. CASE /\ status' = [status EXCEPT ![j.sha] = j.result]
             /\ posted' = posted \cup {[sha |-> j.sha, tips |-> j.tips]} /\ unfinished' = unfinished
    <3>1. T!StatusOnHead'
      BY <1>1, <2>2 DEF StatusesHold, T!StatusOnHead
    <3>2. j.result \in {"error", "success", "failure"} /\ (j.result = "success" => Earned(j.sha))
      BY <1>1 DEF OfflineJobs, JobHolds
    <3>3. /\ status' \in [Shas -> T!States] /\ status'[j.sha] = j.result
          /\ \A s \in Shas : s # j.sha => status'[s] = status[s]
      BY <1>1, <2>2, <3>2 DEF StatusesHold, T!States
    <3>4. T!SuccessEarned'
      BY <1>2, <3>2, <3>3 DEF StatusesHold, T!SuccessEarned, Earned, Revisions
    <3>5. \A s \in Shas : status'[s] = "pending" => s \in unfinished
      BY <1>4, <3>2, <3>3 DEF StatusesHold
    <3>. QED
      BY <2>2, <3>1, <3>3, <3>4, <3>5 DEF StatusesHold
  <2>. QED
    BY <1>2, <2>1, <2>2
<1>6. RequestsHold' /\ HostHolds'
  BY <1>2, RequestsStay, HostStays
<1>. QED
  BY <1>2, <1>3, <1>5, <1>6 DEF T!ReleaseProved

\* The result of a release, and a runner that is lost.
LEMMA EndingHolds ==
    ASSUME OfflineInv, NEW j \in jobs, T!ReleaseAnswer(j) \/ T!RunnerLost(j) PROVE OfflineInv'
<1>. USE DEF OfflineInv
<1>1. JobHolds(j) /\ j \in OfflineJobs
  BY DEF JobsHold, JobHolds
<1>2. /\ T!Ends(j)
      /\ UNCHANGED <<offlineTip, green, installed, started, markers, status, host, reports, proved, invoked,
                     posted>>
  BY DEF T!ReleaseAnswer, T!RunnerLost, T!repository, T!remote
<1>3. JobsHold'
  BY <1>2, JobStays, GivesWay DEF JobsHold
<1>4. \A i \in jobs : i = j
  BY DEF JobsHold, Single
<1>5. RequestsHold' /\ HostHolds'
  BY <1>2, RequestsStay, HostStays
<1>6. CASE T!ReleaseAnswer(j)
  <2>1. j.step = "waiting" /\ j.kind = "release" /\ unfinished' = unfinished /\ j.sha \in Shas
    BY <1>1, <1>6 DEF T!ReleaseAnswer, JobHolds
  <2>2. StatusesHold'
    BY <1>2, <1>4, <2>1, StatusesStay DEF StatusesHold
  <2>3. accepted' \subseteq Shas /\ T!ReleaseProved'
    BY <1>2, <1>6, <2>1 DEF T!ReleaseAnswer, HostHolds, T!ReleaseProved
  <2>. QED
    BY <1>2, <1>3, <1>5, <2>2, <2>3
<1>7. CASE T!RunnerLost(j)
  <2>1. accepted' = accepted
        /\ unfinished' = IF j.step \in {"ssh", "waiting", "final"} /\ j.kind # "release"
                         THEN unfinished \cup {j.sha} ELSE unfinished
    BY <1>7 DEF T!RunnerLost
  <2>2. j.step \in Asking => j.sha \in Shas
    BY <1>1 DEF JobHolds, Asking
  <2>3. StatusesHold'
    BY <1>2, <1>4, <2>1, <2>2, StatusesStay DEF StatusesHold, Asking
  <2>. QED
    BY <1>2, <1>3, <1>5, <2>1, <2>3 DEF T!ReleaseProved
<1>. QED
  BY <1>6, <1>7

\* The host takes the lock, is busy, passes or fails.
LEMMA ValidateHolds ==
    ASSUME OfflineInv, NEW v \in host, T!Validate(v) PROVE OfflineInv'
<1>. USE DEF OfflineInv
<1>1. /\ v \in [job : Nat, sha : Shas, revision : Revisions, locked : BOOLEAN]
      /\ v.job \in Nat /\ v.sha \in Shas /\ v.revision \in Revisions
  BY DEF HostHolds
<1>2. /\ UNCHANGED <<offlineTip, green, installed, jobs, queued, started, markers, status, unfinished, posted,
                     accepted, invoked>>
      /\ \/ host' = (host \ {v}) \cup {[v EXCEPT !.locked = TRUE]} /\ reports' = reports /\ proved' = proved
         \/ \E result \in {"PASS", "FAIL", "BUSY"} :
              /\ T!Reply(v, result)
              /\ proved' = proved \/ proved' = proved \cup {<<v.sha, v.revision>>}
              /\ result = "PASS" => proved' = proved \cup {<<v.sha, v.revision>>}
  BY DEF T!Validate, T!repository, T!github
<1>3. proved \subseteq proved'
  BY <1>2
<1>4. JobsHold'
  BY <1>2, <1>3, JobStays DEF JobsHold
<1>5. StatusesHold'
  BY <1>2, <1>3, StatusesStay DEF StatusesHold
<1>6. RequestsHold'
  BY <1>2, RequestsStay
<1>7. T!ReleaseProved'
  BY <1>2, <1>3 DEF T!ReleaseProved
<1>8. HostHolds'
  <2>1. CASE host' = (host \ {v}) \cup {[v EXCEPT !.locked = TRUE]} /\ reports' = reports /\ proved' = proved
    BY <1>1, <2>1 DEF HostHolds
  <2>2. ASSUME NEW result \in {"PASS", "FAIL", "BUSY"}, T!Reply(v, result),
               result = "PASS" => proved' = proved \cup {<<v.sha, v.revision>>}
        PROVE  HostHolds'
    <3>. DEFINE r == [job |-> v.job, sha |-> v.sha, result |-> result, revision |-> v.revision]
    <3>1. /\ r \in [job : Nat, sha : Shas, result : {"PASS", "FAIL", "BUSY"}, revision : Revisions]
          /\ r.sha = v.sha /\ r.result = result /\ r.revision = v.revision
      BY <1>1
    <3>2. host' \subseteq host /\ reports' \subseteq reports \cup {r}
      BY <2>2 DEF T!Reply
    <3>3. r.result = "PASS" => <<r.sha, r.revision>> \in proved'
      BY <2>2, <3>1
    <3>. HIDE DEF r
    <3>4. \A x \in reports' :
             /\ x \in [job : Nat, sha : Shas, result : {"PASS", "FAIL", "BUSY"}, revision : Revisions]
             /\ x.result = "PASS" => <<x.sha, x.revision>> \in proved'
      BY <1>3, <3>1, <3>2, <3>3 DEF HostHolds
    <3>. QED
      BY <3>2, <3>4 DEF HostHolds, Revisions
  <2>. QED
    BY <1>2, <2>1, <2>2
<1>. QED
  BY <1>2, <1>4, <1>5, <1>6, <1>7, <1>8

\* No step of GitHub, of a job or of the host takes anything back.
LEMMA OfflineStep ==
    ASSUME OfflineInv, [T!Next]_T!vars PROVE OfflineInv'
<1>1. ASSUME NEW s \in Shas, T!Move(s) \/ T!Install(Revision[s]) PROVE OfflineInv'
  BY <1>1, RepositoryHolds
<1>2. ASSUME NEW ci \in T!CiAttempts, T!CiPasses(ci) PROVE OfflineInv'
  BY <1>2, RepositoryHolds
<1>3. ASSUME NEW q \in T!Requests, T!Trigger("auto", q) PROVE OfflineInv'
  BY <1>3, TriggerHolds
<1>4. CASE T!Trigger("comment", [sha |-> 0])
  BY <1>4, TriggerHolds
<1>5. ASSUME NEW s \in Shas, T!Trigger("release", [sha |-> s]) PROVE OfflineInv'
  BY <1>5, TriggerHolds
<1>6. ASSUME NEW j \in jobs,
             \/ T!Resolve(j) \/ T!Recheck(j) \/ T!AlreadyRequested(j) \/ T!Mark(j) \/ T!Pending(j) \/ T!Ssh(j)
             \/ T!Answer(j) \/ (j.kind # "release" /\ T!Final(j)) \/ T!ReleaseAnswer(j) \/ T!Unverified(j)
             \/ T!RunnerLost(j)
      PROVE  OfflineInv'
  BY <1>6, ReadingHolds, MarkHolds, PendingHolds, SshHolds, FinalHolds, EndingHolds
<1>7. ASSUME NEW v \in host, T!Validate(v) PROVE OfflineInv'
  BY <1>7, ValidateHolds
<1>8. CASE UNCHANGED T!vars
  <2>1. UNCHANGED <<offlineTip, green, jobs, queued, started, markers, status, unfinished, installed, host,
                    reports, proved, invoked, posted, accepted>>
    BY <1>8 DEF T!vars
  <2>2. JobsHold'
    BY <2>1, JobStays DEF JobsHold, OfflineInv
  <2>3. StatusesHold'
    BY <2>1, StatusesStay DEF StatusesHold, OfflineInv
  <2>4. RequestsHold' /\ HostHolds'
    BY <2>1, RequestsStay, HostStays DEF OfflineInv
  <2>. QED
    BY <2>1, <2>2, <2>3, <2>4 DEF OfflineInv, T!ReleaseProved
<1>. QED
  BY <1>1, <1>2, <1>3, <1>4, <1>5, <1>6, <1>7, <1>8 DEF T!Next

LEMMA OneAtMost ==
    ASSUME NEW S, Single(S) PROVE T!Cardinality(S) <= 1
<1>1. CASE S = {}
  <2>1. Cardinality(S) = 0
    BY <1>1, FS_EmptySet
  <2>2. T!Cardinality(S) = Cardinality(S)
    BY Zenon DEF T!Cardinality, Cardinality
  <2>. QED
    BY <2>1, <2>2
<1>2. CASE S # {}
  <2>1. PICK x : S = {x}
    BY <1>2 DEF Single
  <2>2. Cardinality(S) = 1
    BY <2>1, FS_Singleton
  <2>3. T!Cardinality(S) = Cardinality(S)
    BY Zenon DEF T!Cardinality, Cardinality
  <2>. QED
    BY <2>2, <2>3
<1>. QED
  BY <1>1, <1>2

\* For any number of commits, CI attempts and jobs, whatever is delivered again, lost, or failed after it took
\* effect: under one configuration a CI attempt reaches the host at most once, a success is of a commit that passed, a status stands on
\* a commit that was the head while its job lived, a pending one will be answered or is known to be unfinished,
\* and a release passes only under the validator it carries.
THEOREM OfflineSafety ==
    T!Spec => [](/\ T!TypeOK /\ T!OneRunPerRequest /\ T!SuccessEarned /\ T!StatusOnHead /\ T!PendingAnswered
                 /\ T!ReleaseProved)
<1>1. T!Init => OfflineInv
  BY OfflineStarts
<1>2. OfflineInv /\ [T!Next]_T!vars => OfflineInv'
  BY OfflineStep
<1>3. OfflineInv => /\ T!TypeOK /\ T!OneRunPerRequest /\ T!SuccessEarned /\ T!StatusOnHead /\ T!PendingAnswered
                    /\ T!ReleaseProved
  <2>. SUFFICES ASSUME OfflineInv
                PROVE  /\ T!TypeOK /\ T!OneRunPerRequest /\ T!SuccessEarned /\ T!StatusOnHead
                       /\ T!PendingAnswered /\ T!ReleaseProved
    OBVIOUS
  <2>1. T!Cardinality(jobs) <= 1 /\ T!Cardinality(queued) <= 1
    BY OneAtMost DEF OfflineInv, JobsHold
  <2>2. T!TypeOK
    BY <2>1 DEF OfflineInv, JobsHold, JobHolds, RequestsHold, StatusesHold, T!TypeOK, Asking
  <2>3. T!OneRunPerRequest
    BY DEF OfflineInv, RequestsHold, T!OneRunPerRequest
  <2>4. T!SuccessEarned /\ T!StatusOnHead /\ T!PendingAnswered
    BY DEF OfflineInv, StatusesHold, T!PendingAnswered, Asking
  <2>. QED
    BY <2>2, <2>3, <2>4 DEF OfflineInv
<1>. QED
  BY <1>1, <1>2, <1>3, PTL DEF T!Spec

-----------------------------------------------------------------------------
(* The validator on its host (ValidatorRuns).                               *)

CONSTANTS
    Runs, Releases, Files, MaxMoves, MaxDeaths, Maintained

VARIABLES
    sha, validatorsTip, validatorsLock, parent, worker, podman, post, dirs, validatorsRunning, exited,
    validatorsListed, code, bound, asked, verdict, files, harness, installer, cache, validatorsProved, deaths

V == INSTANCE ValidatorRuns WITH
    tip <- validatorsTip, lock <- validatorsLock, running <- validatorsRunning, listed <- validatorsListed,
    proved <- validatorsProved

Unmixed(installation) == \A f, g \in Files : installation[f] = installation[g]
Bindings == [files : [Files -> V!Versions], harness : V!Versions]
Things == {"container", "directory"} \X Runs
Verdicts == {"unset", "PASS", "FAIL", "BUSY", "CLEANUP_FAILED", "INVALID_CONFIGURATION"}

ValidatorTyped ==
    /\ V!TypeOK /\ installer \in {V!Nobody, "replacing", "installed", "rolled back", "broken"}
    /\ bound \in [Runs -> Bindings] /\ asked \in [Runs -> Bindings] /\ code \in [Runs -> {0, 1, 2}]
    /\ sha \in [Runs -> 0 .. MaxMoves]
    /\ validatorsListed \in [V!Cleaners -> [Runs -> SUBSET Things]]

\* A container passed for this revision under this binding and the harness in it; the files of the binding are
\* of one version, unless an installer broke half-way.
Genuine(s, b) ==
    /\ \E p \in validatorsProved : p.sha = s /\ p.binding = b /\ p.code = b.harness
    /\ installer # "broken" => Unmixed(b.files)

\* What a run has established by the place its processes are at.
Unpinned == {V!Nobody, "begin", "bound", "locked", "sweeping", "swept", "prepared"}
Judged == {"collected", "cleaning", "cleaned"}
Returned == {"cleaning", "saving", "printed"}
Remains(r) == V!Items({r})
Told(r) == verdict[r] = "CLEANUP_FAILED" \/ (verdict[r] = "INVALID_CONFIGURATION" /\ r \in Releases)
AttemptHolds(r) ==
    /\ worker[r] \in V!Active => validatorsLock = r
    /\ podman[r] # V!Nobody => worker[r] \in {"launched", "killed"}
    /\ parent[r] = "new" => worker[r] = V!Nobody
    /\ worker[r] \in Unpinned => code[r] = 0
    /\ worker[r] = "launched" => code[r] # 0
    /\ bound[r].harness <= harness
    /\ code[r] # 0 => bound[r].harness <= code[r] /\ code[r] <= harness
    /\ verdict[r] = "PASS" =>
          /\ worker[r] \in Judged \cup {"ended", "killed"}
          /\ worker[r] \in Judged => V!Passed(r) /\ code[r] # 0
          /\ worker[r] = "ended" =>
                IF r \in Releases THEN Genuine(sha[r], bound[r])
                                  ELSE \E p \in validatorsProved : p.sha = sha[r]
          /\ parent[r] \in Returned =>
                worker[r] = "ended" /\ (r \in Releases => bound[r] = asked[r])
    /\ parent[r] \in Returned => V!ProcessesGone(r)
    /\ parent[r] = "cleaning" => Remains(r) \subseteq validatorsListed["parent"][r]
    /\ parent[r] \in {"saving", "printed"} => Remains(r) = {} \/ Told(r)
    /\ parent[r] = "saving" => r \in Releases /\ verdict[r] = "PASS"

\* The installer holds the lock while it replaces files, and leaves them of one version unless it breaks.
InstallationHolds ==
    /\ installer = "replacing" <=> validatorsLock = "installer"
    /\ installer \notin {"replacing", "broken"} => Unmixed(files)

CacheHolds ==
    \A c \in cache :
       Genuine(c.sha, c.binding) /\ c.by \in Runs /\ parent[c.by] = "printed" /\ Remains(c.by) = {}

ValidatorInv ==
    /\ ValidatorTyped /\ InstallationHolds /\ CacheHolds
    /\ \A r \in Runs : AttemptHolds(r)

\* A step adds nothing to what is there of a run, and what its parent has listed stays complete.
Settles(r) ==
    /\ Remains(r)' \subseteq Remains(r)
    /\ Remains(r) \subseteq validatorsListed["parent"][r] =>
          Remains(r)' \subseteq validatorsListed'["parent"][r]

\* What a step of one run leaves as it is.
OnlyRun(r) ==
    /\ sha' = sha /\ files' = files /\ harness' = harness /\ installer' = installer
    /\ validatorsProved \subseteq validatorsProved'
    /\ \A q \in Runs \ {r} :
          /\ parent'[q] = parent[q] /\ worker'[q] = worker[q] /\ podman'[q] = podman[q]
          /\ bound'[q] = bound[q] /\ asked'[q] = asked[q] /\ code'[q] = code[q]
          /\ verdict'[q] = verdict[q] /\ Settles(q)
          /\ validatorsLock = q => validatorsLock' = q
    /\ validatorsLock = "installer" <=> validatorsLock' = "installer"
    /\ parent[r] = "printed" => parent'[r] = "printed" /\ Remains(r)' \subseteq Remains(r)

\* The assumption, and what the types say of one run.
LEMMA ValidatorNames ==
    ASSUME V!ConstantsAssumption
    PROVE  /\ V!Nobody \notin Runs /\ "installer" \notin Runs /\ Releases \subseteq Runs
           /\ MaxMoves \in Nat /\ MaxDeaths \in Nat /\ V!Nobody # "installer"
BY DEF V!ConstantsAssumption, V!Nobody

LEMMA RunTyped ==
    ASSUME ValidatorTyped, NEW r \in Runs
    PROVE  /\ bound[r] \in Bindings /\ bound[r].harness \in {1, 2} /\ asked[r] \in Bindings
           /\ code[r] \in {0, 1, 2} /\ harness \in {1, 2} /\ files \in [Files -> {1, 2}]
           /\ sha[r] \in 0 .. MaxMoves
           /\ V!Binding \in Bindings /\ V!Binding.harness = harness /\ V!Binding.files = files
<1>1. harness \in {1, 2} /\ files \in [Files -> {1, 2}]
  BY DEF ValidatorTyped, V!TypeOK, V!Versions
<1>2. V!Binding \in Bindings /\ V!Binding.harness = harness /\ V!Binding.files = files
  BY <1>1 DEF V!Binding, Bindings, V!Versions
<1>3. bound[r] \in Bindings /\ asked[r] \in Bindings /\ code[r] \in {0, 1, 2} /\ sha[r] \in 0 .. MaxMoves
  BY DEF ValidatorTyped
<1>4. bound[r].harness \in {1, 2}
  BY <1>3 DEF Bindings, V!Versions
<1>. QED
  BY <1>1, <1>2, <1>3, <1>4

LEMMA GenuineStays ==
    ASSUME NEW s, NEW b, Genuine(s, b), validatorsProved \subseteq validatorsProved',
           installer = "broken" => installer' = "broken"
    PROVE  Genuine(s, b)'
BY DEF Genuine, Unmixed

\* A run stays as sound as it was while the others move on.
LEMMA AttemptStays ==
    ASSUME NEW q \in Runs, AttemptHolds(q), ValidatorTyped,
           sha' = sha, parent'[q] = parent[q], worker'[q] = worker[q], podman'[q] = podman[q],
           bound'[q] = bound[q], asked'[q] = asked[q], code'[q] = code[q], verdict'[q] = verdict[q],
           Settles(q),
           validatorsLock = q => validatorsLock' = q,
           harness' \in {1, 2}, harness <= harness', validatorsProved \subseteq validatorsProved',
           installer = "broken" => installer' = "broken"
    PROVE  AttemptHolds(q)'
<1>1. bound[q].harness \in {1, 2} /\ code[q] \in {0, 1, 2} /\ harness \in {1, 2}
  BY RunTyped
<1>2. bound'[q].harness <= harness' /\ (code'[q] # 0 => bound'[q].harness <= code'[q] /\ code'[q] <= harness')
  BY <1>1 DEF AttemptHolds
<1>3. V!Passed(q) => V!Passed(q)'
  BY DEF V!Passed
<1>4. Genuine(sha[q], bound[q]) => Genuine(sha[q], bound[q])'
  BY GenuineStays DEF Genuine
<1>. QED
  BY <1>2, <1>3, <1>4 DEF AttemptHolds, V!ProcessesGone, Settles, Told

\* A step of one run: it suffices to look at that run.
LEMMA OneRunMoves ==
    ASSUME ValidatorInv, NEW r \in Runs, OnlyRun(r), ValidatorTyped', AttemptHolds(r)',
           cache' = cache \/ CacheHolds'
    PROVE  ValidatorInv'
<1>1. ValidatorTyped /\ InstallationHolds /\ CacheHolds /\ \A q \in Runs : AttemptHolds(q)
  BY DEF ValidatorInv
<1>2. /\ sha' = sha /\ files' = files /\ harness' = harness /\ installer' = installer
      /\ validatorsProved \subseteq validatorsProved'
      /\ validatorsLock = "installer" <=> validatorsLock' = "installer"
      /\ \A q \in Runs \ {r} : Settles(q) /\ parent'[q] = parent[q]
      /\ parent[r] = "printed" => parent'[r] = "printed" /\ Remains(r)' \subseteq Remains(r)
  BY DEF OnlyRun
<1>3. \A q \in Runs : AttemptHolds(q)'
  BY <1>1, <1>2, RunTyped, AttemptStays DEF OnlyRun
<1>4. InstallationHolds'
  BY <1>1, <1>2 DEF InstallationHolds, Unmixed
<1>5. ASSUME cache' = cache PROVE CacheHolds'
  <2>. SUFFICES ASSUME NEW c \in cache
                PROVE  Genuine(c.sha, c.binding)' /\ c.by \in Runs /\ parent'[c.by] = "printed" /\ Remains(c.by)' = {}
    BY <1>5 DEF CacheHolds
  <2>1. Genuine(c.sha, c.binding) /\ c.by \in Runs /\ parent[c.by] = "printed" /\ Remains(c.by) = {}
    BY <1>1 DEF CacheHolds
  <2>2. Genuine(c.sha, c.binding)'
    BY <1>2, <2>1, GenuineStays
  <2>3. parent'[c.by] = "printed" /\ Remains(c.by)' \subseteq Remains(c.by)
    BY <1>2, <2>1 DEF Settles
  <2>. QED
    BY <2>1, <2>2, <2>3
<1>. QED
  BY <1>3, <1>4, <1>5 DEF ValidatorInv

\* What is there of a run does not grow while it starts nothing.
LEMMA RemainsStay ==
    ASSUME NEW q, q \in dirs' => q \in dirs,
           q \in validatorsRunning' \cup exited' => q \in validatorsRunning \cup exited
    PROVE  Remains(q)' \subseteq Remains(q)
BY DEF Remains, V!Items, V!Containers

LEMMA StillThere ==
    ASSUME NEW q, validatorsListed'["parent"][q] = validatorsListed["parent"][q],
           q \in dirs' => q \in dirs,
           q \in validatorsRunning' \cup exited' => q \in validatorsRunning \cup exited
    PROVE  Settles(q)
BY RemainsStay DEF Settles

\* A cleaner changes only what it has listed itself.
LEMMA ListChanges ==
    ASSUME ValidatorTyped, NEW r \in Runs, NEW c \in V!Cleaners, NEW found \in SUBSET Things,
           validatorsListed' = [validatorsListed EXCEPT ![c][r] = found]
    PROVE  /\ validatorsListed' \in [V!Cleaners -> [Runs -> SUBSET Things]]
           /\ validatorsListed'[c][r] = found
           /\ \A q \in Runs : q # r \/ c # "parent" =>
                 validatorsListed'["parent"][q] = validatorsListed["parent"][q]
<1>. PICK row : row = [validatorsListed[c] EXCEPT ![r] = found]
  OBVIOUS
<1>1. validatorsListed \in [V!Cleaners -> [Runs -> SUBSET Things]] /\ "parent" \in V!Cleaners
  BY DEF ValidatorTyped, V!Cleaners
<1>2. validatorsListed' = [validatorsListed EXCEPT ![c] = row]
  BY <1>1
<1>3. /\ row \in [Runs -> SUBSET Things] /\ row[r] = found
      /\ \A q \in Runs : q # r => row[q] = validatorsListed[c][q]
  BY <1>1
<1>. QED
  BY <1>1, <1>2, <1>3

LEMMA Lists ==
    ASSUME ValidatorTyped, NEW r \in Runs, NEW c \in V!Cleaners, NEW S \in SUBSET Runs, V!List(c, r, S)
    PROVE  /\ validatorsListed' \in [V!Cleaners -> [Runs -> SUBSET Things]]
           /\ validatorsListed'[c][r] = V!Items(S)
           /\ \A q \in Runs : q # r \/ c # "parent" =>
                 validatorsListed'["parent"][q] = validatorsListed["parent"][q]
<1>1. V!Items(S) \subseteq Things
  BY DEF V!Items, Things
<1>. PICK found \in SUBSET Things : found = V!Items(S)
  BY <1>1
<1>2. validatorsListed' = [validatorsListed EXCEPT ![c][r] = found]
  BY DEF V!List
<1>. QED
  BY <1>2, ListChanges

\* One that concludes has nothing left to remove, or no longer removes it.
LEMMA Concluding ==
    ASSUME V!ConstantsAssumption, ValidatorTyped, NEW r \in Runs, NEW c \in V!Cleaners,
           V!Succeeds(c, r) \/ V!GivesUp(c, r)
    PROVE  /\ validatorsListed' \in [V!Cleaners -> [Runs -> SUBSET Things]] /\ deaths' \in 0 .. MaxDeaths
           /\ \A q \in Runs : q # r \/ c # "parent" =>
                 validatorsListed'["parent"][q] = validatorsListed["parent"][q]
<1>. PICK found \in SUBSET Things : found = {}
  OBVIOUS
<1>1. deaths \in 0 .. MaxDeaths /\ MaxDeaths \in Nat
  BY ValidatorNames DEF ValidatorTyped, V!TypeOK
<1>2. CASE V!Succeeds(c, r)
  BY <1>1, <1>2 DEF V!Succeeds, ValidatorTyped
<1>3. CASE V!GivesUp(c, r)
  <2>1. validatorsListed' = [validatorsListed EXCEPT ![c][r] = found]
    BY <1>3 DEF V!GivesUp
  <2>2. deaths' = deaths \/ (deaths < MaxDeaths /\ deaths' = deaths + 1)
    BY <1>3 DEF V!GivesUp
  <2>3. deaths' \in 0 .. MaxDeaths
    BY ONLY <1>1, <2>2
  <2>. QED
    BY <2>1, <2>3, ListChanges
<1>. QED
  BY <1>2, <1>3

\* A cleaner removes one item, which is then neither on its list nor on the host.
LEMMA CleanerRemoves ==
    ASSUME V!ConstantsAssumption, ValidatorInv, NEW r \in Runs, NEW c \in V!Cleaners, V!Remove(c, r)
    PROVE  ValidatorInv'
<1>1. ValidatorTyped /\ InstallationHolds /\ CacheHolds
  BY DEF ValidatorInv
<1>2. UNCHANGED <<sha, deaths, validatorsTip, validatorsLock, parent, worker, podman, post, code, bound, asked,
                  verdict, files, harness, installer, cache, validatorsProved>>
  BY DEF V!Remove, V!identity, V!install
<1>3. PICK x \in validatorsListed[c][r] :
         /\ validatorsListed' = [validatorsListed EXCEPT ![c][r] = @ \ {x}]
         /\ IF x[1] = "directory"
            THEN dirs' = dirs \ {x[2]} /\ validatorsRunning' = validatorsRunning /\ exited' = exited
            ELSE validatorsRunning' = validatorsRunning \ {x[2]} /\ exited' = exited \ {x[2]} /\ dirs' = dirs
  BY DEF V!Remove, V!Ready
<1>4. validatorsListed[c][r] \subseteq Things
  BY <1>1 DEF ValidatorTyped
<1>5. PICK found \in SUBSET Things : found = validatorsListed[c][r] \ {x}
  BY <1>4
<1>6. validatorsListed' = [validatorsListed EXCEPT ![c][r] = found]
  BY <1>1, <1>3, <1>5 DEF ValidatorTyped
<1>7. /\ validatorsListed' \in [V!Cleaners -> [Runs -> SUBSET Things]]
      /\ validatorsListed'[c][r] = found
      /\ \A q \in Runs : q # r \/ c # "parent" =>
            validatorsListed'["parent"][q] = validatorsListed["parent"][q]
  BY <1>1, <1>6, ListChanges
<1>8. \A q : Remains(q)' \subseteq Remains(q)
  BY <1>3, RemainsStay
<1>9. \A q : x \notin Remains(q)'
  <2>1. x[1] \in {"container", "directory"} /\ x = <<x[1], x[2]>>
    BY <1>3, <1>4 DEF Things
  <2>. QED
    BY <1>3, <2>1 DEF Remains, V!Items, V!Containers
<1>10. \A q \in Runs : Settles(q)
  BY <1>5, <1>7, <1>8, <1>9 DEF Settles
<1>11. ValidatorTyped'
  <2>1. dirs' \subseteq Runs /\ validatorsRunning' \subseteq Runs /\ exited' \subseteq Runs
    BY <1>1, <1>3 DEF ValidatorTyped, V!TypeOK
  <2>. QED
    BY <1>1, <1>2, <1>7, <2>1 DEF ValidatorTyped, V!TypeOK
<1>12. harness \in {1, 2}
  BY <1>1, RunTyped
<1>13. \A q \in Runs : AttemptHolds(q)'
  BY <1>1, <1>2, <1>10, <1>12, AttemptStays DEF ValidatorInv
<1>14. InstallationHolds' /\ CacheHolds'
  BY <1>1, <1>2, <1>8, GenuineStays DEF InstallationHolds, CacheHolds, Unmixed
<1>. QED
  BY <1>11, <1>13, <1>14 DEF ValidatorInv

\* What the worker does before it launches the container.
LEMMA WorkerBegins ==
    ASSUME V!ConstantsAssumption, ValidatorInv, NEW r \in Runs, V!Begin(r) \/ V!Lock(r)
    PROVE  ValidatorInv'
<1>. USE ValidatorNames DEF V!identity, V!install, V!remains
<1>1. ValidatorTyped /\ AttemptHolds(r) /\ InstallationHolds
  BY DEF ValidatorInv
<1>2. V!Binding \in Bindings /\ V!Binding.harness = harness
  BY <1>1, RunTyped
<1>3. CASE V!Begin(r)
  <2>1. /\ bound' = [bound EXCEPT ![r] = V!Binding] /\ worker' = [worker EXCEPT ![r] = "bound"]
        /\ worker[r] = "begin"
        /\ UNCHANGED <<sha, deaths, validatorsTip, validatorsLock, parent, podman, post, dirs, validatorsRunning,
                       exited, validatorsListed, code, asked, verdict, files, harness, installer, cache,
                       validatorsProved>>
    BY <1>3 DEF V!Begin
  <2>2. ValidatorTyped'
    BY <1>1, <1>2, <2>1 DEF ValidatorTyped, V!TypeOK
  <2>3. OnlyRun(r)
    <3>1. \A q : Settles(q) /\ Remains(q)' = Remains(q)
      BY <2>1 DEF Settles, Remains, V!Items, V!Containers
    <3>. QED
      BY <1>1, <2>1, <3>1 DEF OnlyRun, ValidatorTyped, V!TypeOK
  <2>4. bound'[r] = V!Binding /\ worker'[r] = "bound"
    BY <1>1, <2>1 DEF ValidatorTyped, V!TypeOK
  <2>5. AttemptHolds(r)'
    BY <1>1, <1>2, <2>1, <2>4, RunTyped DEF AttemptHolds, V!Active, V!Nobody, Unpinned, Judged, Returned,
       V!ProcessesGone, Told, Remains, V!Items, V!Containers
  <2>. QED
    BY <2>1, <2>2, <2>3, <2>5, OneRunMoves
<1>4. CASE V!Lock(r)
  <2>1. /\ worker[r] = "bound"
        /\ \/ /\ verdict' = [verdict EXCEPT ![r] = "BUSY"] /\ worker' = [worker EXCEPT ![r] = "ended"]
              /\ validatorsLock # V!Nobody
              /\ validatorsLock' = IF validatorsLock = r THEN V!Nobody ELSE validatorsLock
           \/ /\ validatorsLock = V!Nobody /\ validatorsLock' = r
              /\ worker' = [worker EXCEPT ![r] = "locked"] /\ verdict' = verdict
        /\ UNCHANGED <<sha, deaths, validatorsTip, parent, podman, post, dirs, validatorsRunning,
                       exited, validatorsListed, code, bound, asked, files, harness, installer, cache,
                       validatorsProved>>
    BY <1>4 DEF V!Lock, V!Ends
  <2>2. ValidatorTyped'
    BY <1>1, <2>1 DEF ValidatorTyped, V!TypeOK, V!Active
  <2>3. OnlyRun(r)
    <3>1. \A q \in Runs \ {r} : worker'[q] = worker[q] /\ verdict'[q] = verdict[q]
      BY <1>1, <2>1 DEF ValidatorTyped, V!TypeOK
    <3>2. /\ validatorsLock = "installer" <=> validatorsLock' = "installer"
          /\ \A q \in Runs \ {r} : validatorsLock = q => validatorsLock' = q
      BY <2>1
    <3>. QED
      BY <1>1, <2>1, <3>1, <3>2 DEF OnlyRun, Settles, Remains, V!Items, V!Containers
  <2>4. \/ worker'[r] = "ended" /\ verdict'[r] = "BUSY"
        \/ worker'[r] = "locked" /\ verdict'[r] = verdict[r] /\ validatorsLock' = r
    BY <1>1, <2>1 DEF ValidatorTyped, V!TypeOK
  <2>5. AttemptHolds(r)'
    BY <1>1, <2>1, <2>4, RunTyped DEF AttemptHolds, V!Active, V!Nobody, Unpinned, Judged, Returned,
       V!ProcessesGone, Told, Remains, V!Items, V!Containers
  <2>. QED
    BY <2>1, <2>2, <2>3, <2>5, OneRunMoves
<1>. QED
  BY <1>3, <1>4

LEMMA WorkerSweeps ==
    ASSUME V!ConstantsAssumption, ValidatorInv, NEW r \in Runs, V!SweepList(r) \/ V!Sweep(r)
    PROVE  ValidatorInv'
<1>. USE ValidatorNames DEF V!identity, V!install, V!remains
<1>1. ValidatorTyped /\ AttemptHolds(r) /\ InstallationHolds
  BY DEF ValidatorInv
<1>2. "sweep" \in V!Cleaners /\ "sweep" # "parent"
  BY DEF V!Cleaners
<1>3. CASE V!SweepList(r)
  <2>1. /\ V!List("sweep", r, Runs)
        /\ worker' = [worker EXCEPT ![r] = "sweeping"] /\ worker[r] = "locked"
        /\ UNCHANGED <<sha, deaths, validatorsTip, validatorsLock, parent, podman, post, dirs, validatorsRunning,
                       exited, code, bound, asked, verdict, files, harness, installer, cache, validatorsProved>>
    BY <1>3 DEF V!SweepList
  <2>2. /\ validatorsListed' \in [V!Cleaners -> [Runs -> SUBSET Things]]
        /\ \A q \in Runs : validatorsListed'["parent"][q] = validatorsListed["parent"][q]
    BY <1>1, <1>2, <2>1, Lists
  <2>3. ValidatorTyped'
    BY <1>1, <2>1, <2>2 DEF ValidatorTyped, V!TypeOK, V!Active
  <2>4. OnlyRun(r)
    <3>1. \A q \in Runs : Settles(q) /\ Remains(q)' = Remains(q)
      BY <2>1, <2>2 DEF Settles, Remains, V!Items, V!Containers
    <3>2. \A q \in Runs \ {r} : worker'[q] = worker[q]
      BY <1>1, <2>1 DEF ValidatorTyped, V!TypeOK
    <3>. QED
      BY <2>1, <3>1, <3>2 DEF OnlyRun
  <2>5. worker'[r] = "sweeping"
    BY <1>1, <2>1 DEF ValidatorTyped, V!TypeOK
  <2>6. AttemptHolds(r)'
    BY <1>1, <2>1, <2>5, RunTyped DEF AttemptHolds, V!Active, V!Nobody, Unpinned, Judged, Returned,
       V!ProcessesGone, Told, Remains, V!Items, V!Containers
  <2>. QED
    BY <2>1, <2>3, <2>4, <2>6, OneRunMoves
<1>4. CASE V!Sweep(r)
  <2>1. /\ V!Succeeds("sweep", r) \/ V!GivesUp("sweep", r)
        /\ worker[r] = "sweeping"
        /\ \/ worker' = [worker EXCEPT ![r] = "swept"] /\ verdict' = verdict /\ validatorsLock' = validatorsLock
           \/ /\ verdict' = [verdict EXCEPT ![r] = "FAIL"] /\ worker' = [worker EXCEPT ![r] = "ended"]
              /\ validatorsLock' = IF validatorsLock = r THEN V!Nobody ELSE validatorsLock
        /\ UNCHANGED <<sha, validatorsTip, parent, podman, post, dirs, validatorsRunning, exited, code, bound,
                       asked, files, harness, installer, cache, validatorsProved>>
    BY <1>4 DEF V!Sweep, V!Ends
  <2>2. /\ validatorsListed' \in [V!Cleaners -> [Runs -> SUBSET Things]] /\ deaths' \in 0 .. MaxDeaths
        /\ \A q \in Runs : validatorsListed'["parent"][q] = validatorsListed["parent"][q]
        /\ \A q \in Runs : Settles(q) /\ Remains(q)' = Remains(q)
    BY <1>1, <1>2, <2>1, Concluding DEF Settles, Remains, V!Items, V!Containers
  <2>3. /\ worker' \in [Runs -> V!Active \cup {V!Nobody, "begin", "bound", "ended", "killed"}]
        /\ verdict' \in [Runs -> Verdicts]
        /\ validatorsLock' \in Runs \cup {V!Nobody, "installer"}
    BY <1>1, <2>1 DEF ValidatorTyped, V!TypeOK, V!Active, Verdicts
  <2>4. ValidatorTyped'
    BY <1>1, <2>1, <2>2, <2>3 DEF ValidatorTyped, V!TypeOK, Verdicts
  <2>5. OnlyRun(r)
    <3>1. \A q \in Runs \ {r} : worker'[q] = worker[q] /\ verdict'[q] = verdict[q]
      BY <1>1, <2>1 DEF ValidatorTyped, V!TypeOK
    <3>2. /\ validatorsLock = "installer" <=> validatorsLock' = "installer"
          /\ \A q \in Runs \ {r} : validatorsLock = q => validatorsLock' = q
      BY <2>1
    <3>. QED
      BY <1>1, <2>1, <2>2, <3>1, <3>2 DEF OnlyRun
  <2>6. \/ worker'[r] = "swept" /\ verdict'[r] = verdict[r] /\ validatorsLock' = validatorsLock
        \/ worker'[r] = "ended" /\ verdict'[r] = "FAIL"
    BY <1>1, <2>1 DEF ValidatorTyped, V!TypeOK
  <2>7. AttemptHolds(r)'
    BY <1>1, <2>1, <2>2, <2>6, RunTyped DEF AttemptHolds, V!Active, V!Nobody, Unpinned, Judged, Returned,
       V!ProcessesGone
  <2>. QED
    BY <2>1, <2>4, <2>5, <2>7, OneRunMoves
<1>. QED
  BY <1>3, <1>4

LEMMA WorkerPrepares ==
    ASSUME V!ConstantsAssumption, ValidatorInv, NEW r \in Runs, V!Prepare(r)
    PROVE  ValidatorInv'
<1>. USE ValidatorNames DEF V!identity, V!install, V!remains
<1>1. ValidatorTyped /\ AttemptHolds(r) /\ InstallationHolds
  BY DEF ValidatorInv
<1>2. /\ worker[r] = "swept"
      /\ \/ /\ verdict' = [verdict EXCEPT ![r] = "FAIL"] /\ worker' = [worker EXCEPT ![r] = "ended"]
            /\ dirs' = dirs
            /\ validatorsLock' = IF validatorsLock = r THEN V!Nobody ELSE validatorsLock
         \/ /\ verdict' = [verdict EXCEPT ![r] = "PASS"] /\ worker' = [worker EXCEPT ![r] = "ended"]
            /\ dirs' = dirs /\ V!Reusable(r)
            /\ validatorsLock' = IF validatorsLock = r THEN V!Nobody ELSE validatorsLock
         \/ /\ dirs' = dirs \cup {r} /\ worker' = [worker EXCEPT ![r] = "prepared"]
            /\ verdict' = verdict /\ validatorsLock' = validatorsLock
      /\ UNCHANGED <<sha, deaths, validatorsTip, parent, podman, post, validatorsRunning, exited,
                     validatorsListed, code, bound, asked, files, harness, installer, cache, validatorsProved>>
  BY DEF V!Prepare, V!Ends
<1>3. ValidatorTyped'
  <2>1. worker' \in [Runs -> V!Active \cup {V!Nobody, "begin", "bound", "ended", "killed"}]
    <3>1. worker' = [worker EXCEPT ![r] = "ended"] \/ worker' = [worker EXCEPT ![r] = "prepared"]
      BY <1>2
    <3>. QED
      BY <1>1, <3>1 DEF ValidatorTyped, V!TypeOK, V!Active
  <2>2. verdict' \in [Runs -> Verdicts]
    BY <1>1, <1>2 DEF ValidatorTyped, V!TypeOK, Verdicts
  <2>3. validatorsLock' \in Runs \cup {V!Nobody, "installer"} /\ dirs' \subseteq Runs
    BY <1>1, <1>2 DEF ValidatorTyped, V!TypeOK
  <2>. QED
    BY <1>1, <1>2, <2>1, <2>2, <2>3 DEF ValidatorTyped, V!TypeOK, Verdicts
<1>4. OnlyRun(r)
  <2>1. \A q \in Runs \ {r} : /\ worker'[q] = worker[q] /\ verdict'[q] = verdict[q]
                              /\ Settles(q)
    BY <1>1, <1>2, StillThere DEF ValidatorTyped, V!TypeOK
  <2>2. /\ validatorsLock = "installer" <=> validatorsLock' = "installer"
        /\ \A q \in Runs \ {r} : validatorsLock = q => validatorsLock' = q
    BY <1>2
  <2>3. parent[r] # "printed"
    BY <1>1, <1>2 DEF AttemptHolds, V!ProcessesGone, Returned
  <2>. QED
    BY <1>2, <2>1, <2>2, <2>3 DEF OnlyRun
<1>5. V!Reusable(r) => r \in Releases /\ Genuine(sha[r], bound[r])
  BY DEF V!Reusable, ValidatorInv, CacheHolds
<1>6. \/ worker'[r] = "prepared" /\ verdict'[r] = verdict[r] /\ validatorsLock' = validatorsLock
      \/ worker'[r] = "ended" /\ verdict'[r] = "FAIL"
      \/ worker'[r] = "ended" /\ verdict'[r] = "PASS" /\ V!Reusable(r)
  BY <1>1, <1>2 DEF ValidatorTyped, V!TypeOK
<1>7. parent'[r] \notin Returned /\ podman'[r] = V!Nobody
  BY <1>1, <1>2 DEF AttemptHolds, V!ProcessesGone
<1>8. Genuine(sha[r], bound[r]) => Genuine(sha[r], bound[r])'
  BY <1>2 DEF Genuine, Unmixed
<1>9. AttemptHolds(r)'
  BY <1>1, <1>2, <1>5, <1>6, <1>7, <1>8, RunTyped DEF AttemptHolds, V!Active, V!Nobody, Unpinned, Judged,
     Returned
<1>. QED
  BY <1>2, <1>3, <1>4, <1>9, OneRunMoves

LEMMA WorkerLaunches ==
    ASSUME V!ConstantsAssumption, ValidatorInv, NEW r \in Runs, V!Launch(r)
    PROVE  ValidatorInv'
<1>. USE ValidatorNames DEF V!identity, V!install, V!remains
<1>1. ValidatorTyped /\ AttemptHolds(r) /\ InstallationHolds
  BY DEF ValidatorInv
<1>2. /\ worker[r] = "prepared"
      /\ \/ /\ worker' = [worker EXCEPT ![r] = "collected"] /\ verdict' = [verdict EXCEPT ![r] = "FAIL"]
            /\ podman' = podman /\ code' = code
         \/ /\ podman' = [podman EXCEPT ![r] = "starting"] /\ code' = [code EXCEPT ![r] = harness]
            /\ worker' = [worker EXCEPT ![r] = "launched"] /\ verdict' = verdict
      /\ UNCHANGED <<sha, deaths, validatorsTip, validatorsLock, parent, post, dirs, validatorsRunning, exited,
                     validatorsListed, bound, asked, files, harness, installer, cache, validatorsProved>>
  BY DEF V!Launch
<1>3. harness \in {1, 2} /\ bound[r].harness \in {1, 2}
  BY <1>1, RunTyped
<1>4. ValidatorTyped'
  <2>1. worker' \in [Runs -> V!Active \cup {V!Nobody, "begin", "bound", "ended", "killed"}]
    <3>1. PICK x \in V!Active : worker' = [worker EXCEPT ![r] = x]
      BY <1>2 DEF V!Active
    <3>. QED
      BY <1>1, <3>1 DEF ValidatorTyped, V!TypeOK
  <2>4. verdict' \in [Runs -> Verdicts]
    BY <1>1, <1>2 DEF ValidatorTyped, V!TypeOK, Verdicts
  <2>2. podman' \in [Runs -> {V!Nobody, "starting", "attached"}]
    BY <1>1, <1>2 DEF ValidatorTyped, V!TypeOK
  <2>3. code' \in [Runs -> {0, 1, 2}]
    BY <1>1, <1>2, <1>3 DEF ValidatorTyped
  <2>. QED
    BY <1>1, <1>2, <2>1, <2>2, <2>3, <2>4 DEF ValidatorTyped, V!TypeOK, Verdicts
<1>5. OnlyRun(r)
  <2>1. \A q \in Runs \ {r} : /\ worker'[q] = worker[q] /\ verdict'[q] = verdict[q] /\ podman'[q] = podman[q]
                              /\ code'[q] = code[q]
    BY ZenonT(60), <1>1, <1>2 DEF ValidatorTyped, V!TypeOK
  <2>. QED
    BY <1>2, <2>1 DEF OnlyRun, Settles, Remains, V!Items, V!Containers
<1>6. \/ worker'[r] = "collected" /\ verdict'[r] = "FAIL" /\ podman'[r] = podman[r] /\ code'[r] = code[r]
      \/ /\ worker'[r] = "launched" /\ verdict'[r] = verdict[r] /\ podman'[r] = "starting"
         /\ code'[r] = harness
  BY ZenonT(60), <1>1, <1>2 DEF ValidatorTyped, V!TypeOK
<1>7. parent'[r] \notin Returned /\ verdict[r] # "PASS"
  BY <1>1, <1>2 DEF AttemptHolds, V!ProcessesGone, Judged
<1>8. AttemptHolds(r)'
  BY <1>1, <1>2, <1>3, <1>6, <1>7, RunTyped DEF AttemptHolds, V!Active, V!Nobody, Unpinned, Judged, Returned
<1>. QED
  BY <1>2, <1>4, <1>5, <1>8, OneRunMoves

\* The container starts, ends, and its report is collected.
LEMMA ContainerMoves ==
    ASSUME V!ConstantsAssumption, ValidatorInv, NEW r \in Runs,
           V!Starts(r) \/ V!ContainerEnds(r) \/ V!PodmanGone(r)
    PROVE  ValidatorInv'
<1>. USE ValidatorNames DEF V!identity, V!install, V!remains
<1>1. ValidatorTyped /\ AttemptHolds(r) /\ InstallationHolds
  BY DEF ValidatorInv
<1>2. /\ podman \in [Runs -> {V!Nobody, "starting", "attached"}]
      /\ validatorsRunning \subseteq Runs /\ exited \subseteq Runs /\ dirs \subseteq Runs
  BY <1>1 DEF ValidatorTyped, V!TypeOK
<1>3. CASE V!Starts(r)
  <2>1. /\ podman[r] = "starting" /\ podman' = [podman EXCEPT ![r] = "attached"]
        /\ \/ validatorsRunning' = validatorsRunning \cup {r} /\ exited' = exited
           \/ exited' = exited \cup {r} /\ validatorsRunning' = validatorsRunning
        /\ UNCHANGED <<sha, deaths, validatorsTip, validatorsLock, parent, worker, post, dirs, validatorsListed,
                       code, bound, asked, verdict, files, harness, installer, cache, validatorsProved>>
    BY <1>3 DEF V!Starts
  <2>2. podman' \in [Runs -> {V!Nobody, "starting", "attached"}] /\ validatorsRunning' \subseteq Runs
        /\ exited' \subseteq Runs /\ podman'[r] = "attached" /\ \A q \in Runs \ {r} : podman'[q] = podman[q]
    BY <1>2, <2>1
  <2>3. ValidatorTyped'
    BY <1>1, <2>1, <2>2 DEF ValidatorTyped, V!TypeOK
  <2>5. worker[r] \in {"launched", "killed"} /\ parent[r] \notin Returned
    BY <1>1, <2>1 DEF AttemptHolds, V!ProcessesGone, V!Nobody
  <2>4. OnlyRun(r)
    <3>1. \A q \in Runs \ {r} : Settles(q)
      BY <2>1, StillThere
    <3>. QED
      BY <2>1, <2>2, <2>5, <3>1 DEF OnlyRun, Returned
  <2>6. AttemptHolds(r)'
    BY <1>1, <2>1, <2>2, <2>5, RunTyped DEF AttemptHolds, V!Active, V!Nobody, Unpinned, Judged, Returned, V!Passed,
       Genuine, Unmixed
  <2>. QED
    BY <2>1, <2>3, <2>4, <2>6, OneRunMoves
<1>4. CASE V!ContainerEnds(r)
  <2>1. /\ r \in validatorsRunning
        /\ validatorsRunning' = validatorsRunning \ {r} /\ exited' = exited \cup {r}
        /\ validatorsProved \subseteq validatorsProved'
        /\ UNCHANGED <<sha, deaths, validatorsTip, validatorsLock, parent, worker, podman, post, dirs,
                       validatorsListed, code, bound, asked, verdict, files, harness, installer, cache>>
    BY <1>4 DEF V!ContainerEnds
  <2>2. ValidatorTyped'
    BY <1>1, <2>1 DEF ValidatorTyped, V!TypeOK
  <2>3. \A q : Remains(q)' = Remains(q)
    BY <2>1 DEF Remains, V!Items, V!Containers
  <2>4. (\A q : Settles(q)) /\ OnlyRun(r)
    BY <2>1, <2>3 DEF OnlyRun, Settles
  <2>5. harness' \in {1, 2} /\ harness <= harness'
    BY <1>1, <2>1, RunTyped
  <2>6. AttemptHolds(r)'
    BY <1>1, <2>1, <2>4, <2>5, AttemptStays
  <2>. QED
    BY <2>1, <2>2, <2>4, <2>6, OneRunMoves
<1>5. CASE V!PodmanGone(r)
  <2>1. /\ worker[r] = "killed" /\ podman' = [podman EXCEPT ![r] = V!Nobody]
        /\ UNCHANGED <<sha, deaths, validatorsTip, validatorsLock, parent, worker, post, dirs, validatorsRunning,
                       exited, validatorsListed, code, bound, asked, verdict, files, harness, installer, cache,
                       validatorsProved>>
    BY <1>5 DEF V!PodmanGone
  <2>2. podman' \in [Runs -> {V!Nobody, "starting", "attached"}]
        /\ podman'[r] = V!Nobody /\ \A q \in Runs \ {r} : podman'[q] = podman[q]
    BY <1>2, <2>1
  <2>3. ValidatorTyped'
    BY <1>1, <2>1, <2>2 DEF ValidatorTyped, V!TypeOK
  <2>4. OnlyRun(r)
    BY <2>1, <2>2 DEF OnlyRun, Settles, Remains, V!Items, V!Containers
  <2>5. AttemptHolds(r)'
    BY <1>1, <2>1, <2>2, RunTyped DEF AttemptHolds, V!ProcessesGone, Told, Remains, V!Items, V!Containers, V!Passed, Genuine,
       Unmixed
  <2>. QED
    BY <2>1, <2>3, <2>4, <2>5, OneRunMoves
<1>. QED
  BY <1>3, <1>4, <1>5

LEMMA WorkerCollects ==
    ASSUME V!ConstantsAssumption, ValidatorInv, NEW r \in Runs, V!Collect(r)
    PROVE  ValidatorInv'
<1>. USE ValidatorNames DEF V!identity, V!install, V!remains
<1>1. ValidatorTyped /\ AttemptHolds(r) /\ InstallationHolds
  BY DEF ValidatorInv
<1>2. /\ worker[r] = "launched" /\ worker' = [worker EXCEPT ![r] = "collected"]
      /\ podman' = [podman EXCEPT ![r] = V!Nobody]
      /\ \/ verdict' = [verdict EXCEPT ![r] = "PASS"] /\ V!Passed(r)
         \/ verdict' = [verdict EXCEPT ![r] = "FAIL"]
      /\ UNCHANGED <<sha, deaths, validatorsTip, validatorsLock, parent, post, dirs, validatorsRunning, exited,
                     validatorsListed, code, bound, asked, files, harness, installer, cache, validatorsProved>>
  BY DEF V!Collect
<1>3. ValidatorTyped'
  BY ZenonT(60), <1>1, <1>2 DEF ValidatorTyped, V!TypeOK, V!Active
<1>4. OnlyRun(r)
  <2>1. \A q : Settles(q) /\ Remains(q)' = Remains(q)
    BY <1>2 DEF Settles, Remains, V!Items, V!Containers
  <2>2. \A q \in Runs \ {r} : worker'[q] = worker[q] /\ verdict'[q] = verdict[q] /\ podman'[q] = podman[q]
    BY <1>1, <1>2 DEF ValidatorTyped, V!TypeOK
  <2>. QED
    BY <1>2, <2>1, <2>2 DEF OnlyRun
<1>5. /\ worker'[r] = "collected" /\ podman'[r] = V!Nobody
      /\ verdict'[r] = "FAIL" \/ (verdict'[r] = "PASS" /\ V!Passed(r))
  BY <1>1, <1>2 DEF ValidatorTyped, V!TypeOK
<1>6. parent'[r] \notin Returned /\ code'[r] # 0
  BY <1>1, <1>2 DEF AttemptHolds, V!ProcessesGone
<1>7. V!Passed(r) => V!Passed(r)'
  BY <1>2 DEF V!Passed
<1>8. AttemptHolds(r)'
  BY <1>1, <1>2, <1>5, <1>6, <1>7, RunTyped DEF AttemptHolds, V!Active, V!Nobody, Unpinned, Judged, Returned
<1>. QED
  BY <1>2, <1>3, <1>4, <1>8, OneRunMoves

\* The worker cleans its run and hands in the report.
LEMMA WorkerLeaves ==
    ASSUME V!ConstantsAssumption, ValidatorInv, NEW r \in Runs, V!WorkerLists(r) \/ V!WorkerCleans(r)
    PROVE  ValidatorInv'
<1>. USE ValidatorNames DEF V!identity, V!install, V!remains
<1>1. ValidatorTyped /\ AttemptHolds(r) /\ InstallationHolds
  BY DEF ValidatorInv
<1>2. "worker" \in V!Cleaners /\ "worker" # "parent"
  BY DEF V!Cleaners
<1>3. CASE V!WorkerLists(r)
  <2>1. /\ V!List("worker", r, {r})
        /\ worker' = [worker EXCEPT ![r] = "cleaning"] /\ worker[r] = "collected"
        /\ UNCHANGED <<sha, deaths, validatorsTip, validatorsLock, parent, podman, post, dirs, validatorsRunning,
                       exited, code, bound, asked, verdict, files, harness, installer, cache, validatorsProved>>
    BY <1>3 DEF V!WorkerLists
  <2>2. /\ validatorsListed' \in [V!Cleaners -> [Runs -> SUBSET Things]]
        /\ \A q \in Runs : validatorsListed'["parent"][q] = validatorsListed["parent"][q]
    BY <1>1, <1>2, <2>1, Lists
  <2>3. ValidatorTyped'
    BY <1>1, <2>1, <2>2 DEF ValidatorTyped, V!TypeOK, V!Active
  <2>4. OnlyRun(r)
    <3>1. \A q \in Runs : Settles(q) /\ Remains(q)' = Remains(q)
      BY <2>1, <2>2 DEF Settles, Remains, V!Items, V!Containers
    <3>2. \A q \in Runs \ {r} : worker'[q] = worker[q]
      BY <1>1, <2>1 DEF ValidatorTyped, V!TypeOK
    <3>. QED
      BY <2>1, <3>1, <3>2 DEF OnlyRun
  <2>5. worker'[r] = "cleaning"
    BY <1>1, <2>1 DEF ValidatorTyped, V!TypeOK
  <2>6. AttemptHolds(r)'
    BY <1>1, <2>1, <2>5, RunTyped DEF AttemptHolds, V!Active, V!Nobody, Unpinned, Judged, Returned,
       V!ProcessesGone, Told, Remains, V!Items, V!Containers, V!Passed
  <2>. QED
    BY <2>1, <2>3, <2>4, <2>6, OneRunMoves
<1>4. CASE V!WorkerCleans(r)
  <2>1. /\ V!Succeeds("worker", r) \/ V!GivesUp("worker", r)
        /\ worker[r] = "cleaning" /\ worker' = [worker EXCEPT ![r] = "cleaned"]
        /\ verdict' = verdict \/ verdict' = [verdict EXCEPT ![r] = "CLEANUP_FAILED"]
        /\ UNCHANGED <<sha, validatorsTip, validatorsLock, parent, podman, post, dirs, validatorsRunning, exited,
                       code, bound, asked, files, harness, installer, cache, validatorsProved>>
    BY <1>4 DEF V!WorkerCleans
  <2>2. /\ validatorsListed' \in [V!Cleaners -> [Runs -> SUBSET Things]] /\ deaths' \in 0 .. MaxDeaths
        /\ \A q \in Runs : validatorsListed'["parent"][q] = validatorsListed["parent"][q]
        /\ \A q \in Runs : Settles(q) /\ Remains(q)' = Remains(q)
    BY <1>1, <1>2, <2>1, Concluding DEF Settles, Remains, V!Items, V!Containers
  <2>3. /\ worker' \in [Runs -> V!Active \cup {V!Nobody, "begin", "bound", "ended", "killed"}]
        /\ verdict' \in [Runs -> Verdicts]
    <3>1. verdict' \in [Runs -> Verdicts]
      BY <1>1, <2>1 DEF ValidatorTyped, V!TypeOK, Verdicts
    <3>. QED
      BY <1>1, <2>1, <3>1 DEF ValidatorTyped, V!TypeOK, V!Active
  <2>4. ValidatorTyped'
    BY <1>1, <2>1, <2>2, <2>3 DEF ValidatorTyped, V!TypeOK, Verdicts
  <2>5. \A q \in Runs \ {r} : worker'[q] = worker[q] /\ verdict'[q] = verdict[q]
    BY <1>1, <2>1 DEF ValidatorTyped, V!TypeOK
  <2>6. OnlyRun(r)
    BY <1>1, <2>1, <2>2, <2>5 DEF OnlyRun
  <2>7. worker'[r] = "cleaned" /\ (verdict'[r] = verdict[r] \/ verdict'[r] = "CLEANUP_FAILED")
    BY <1>1, <2>1 DEF ValidatorTyped, V!TypeOK
  <2>8. parent'[r] \notin Returned
    BY <1>1, <2>1 DEF AttemptHolds, V!ProcessesGone
  <2>9. AttemptHolds(r)'
    BY <1>1, <2>1, <2>7, <2>8, RunTyped DEF AttemptHolds, V!Active, V!Nobody, Unpinned, Judged, Returned, V!Passed
  <2>. QED
    BY <2>1, <2>4, <2>6, <2>9, OneRunMoves
<1>. QED
  BY <1>3, <1>4

LEMMA WorkerFinishes ==
    ASSUME V!ConstantsAssumption, ValidatorInv, NEW r \in Runs, V!Finish(r)
    PROVE  ValidatorInv'
<1>. USE ValidatorNames DEF V!identity, V!install, V!remains
<1>1. ValidatorTyped /\ AttemptHolds(r) /\ InstallationHolds
  BY DEF ValidatorInv
<1>2. PICK outcome : outcome = IF r \in Releases /\ V!Binding # bound[r] THEN "FAIL" ELSE verdict[r]
  OBVIOUS
<1>3. /\ worker[r] = "cleaned" /\ worker' = [worker EXCEPT ![r] = "ended"]
      /\ verdict' = [verdict EXCEPT ![r] = outcome]
      /\ validatorsLock' = IF validatorsLock = r THEN V!Nobody ELSE validatorsLock
      /\ UNCHANGED <<sha, deaths, validatorsTip, parent, podman, post, dirs, validatorsRunning, exited,
                     validatorsListed, code, bound, asked, files, harness, installer, cache, validatorsProved>>
  BY <1>2 DEF V!Finish, V!Ends
<1>4. ValidatorTyped'
  BY <1>1, <1>2, <1>3 DEF ValidatorTyped, V!TypeOK, V!Active
<1>5. OnlyRun(r)
  <2>1. \A q : Settles(q) /\ Remains(q)' = Remains(q)
    BY <1>3 DEF Settles, Remains, V!Items, V!Containers
  <2>2. \A q \in Runs \ {r} : worker'[q] = worker[q] /\ verdict'[q] = verdict[q]
    BY <1>1, <1>3 DEF ValidatorTyped, V!TypeOK
  <2>3. /\ validatorsLock = "installer" <=> validatorsLock' = "installer"
        /\ \A q \in Runs \ {r} : validatorsLock = q => validatorsLock' = q
    BY <1>3
  <2>. QED
    BY <1>3, <2>1, <2>2, <2>3 DEF OnlyRun
<1>6. worker'[r] = "ended" /\ verdict'[r] = outcome /\ parent[r] \notin Returned
  BY <1>1, <1>3 DEF ValidatorTyped, V!TypeOK, AttemptHolds, V!ProcessesGone
<1>7. ASSUME outcome = "PASS"
      PROVE  IF r \in Releases THEN Genuine(sha[r], bound[r]) ELSE \E p \in validatorsProved : p.sha = sha[r]
  <2>1. /\ verdict[r] = "PASS" /\ (r \in Releases => V!Binding = bound[r])
    BY <1>2, <1>7
  <2>2. V!Passed(r) /\ code[r] # 0
    BY <1>1, <1>3, <2>1 DEF AttemptHolds, Judged
  <2>3. PICK p \in validatorsProved : p.sha = sha[r] /\ p.binding = bound[r] /\ p.code = code[r]
    BY <2>2 DEF V!Passed
  <2>4. CASE r \in Releases
    <3>1. bound[r].harness = harness /\ bound[r].files = files
      BY <1>1, <2>1, <2>4, RunTyped
    <3>2. code[r] = bound[r].harness
      BY <1>1, <2>2, <3>1, RunTyped DEF AttemptHolds
    <3>3. validatorsLock = r
      BY <1>1, <1>3 DEF AttemptHolds, V!Active
    <3>4. installer # "broken" => Unmixed(bound[r].files)
      BY <1>1, <3>1, <3>3 DEF InstallationHolds
    <3>. QED
      BY <2>3, <2>4, <3>2, <3>4 DEF Genuine
  <2>. QED
    BY <2>3, <2>4
<1>8. AttemptHolds(r)'
  <2>1. Genuine(sha[r], bound[r]) => Genuine(sha[r], bound[r])'
    BY <1>3 DEF Genuine, Unmixed
  <2>. QED
    BY <1>1, <1>3, <1>6, <1>7, <2>1, RunTyped DEF AttemptHolds, V!Active, V!Nobody, Unpinned, Judged, Returned
<1>. QED
  BY <1>3, <1>4, <1>5, <1>8, OneRunMoves

\* ExecStopPost, and processes that are killed.
LEMMA StopPostMoves ==
    ASSUME V!ConstantsAssumption, ValidatorInv, NEW r \in Runs, V!StopPost(r) \/ V!StopPostCleans(r)
    PROVE  ValidatorInv'
<1>. USE ValidatorNames DEF V!identity, V!install, V!remains
<1>1. ValidatorTyped /\ AttemptHolds(r) /\ InstallationHolds
  BY DEF ValidatorInv
<1>2. "post" \in V!Cleaners /\ "post" # "parent"
  BY DEF V!Cleaners
<1>3. UNCHANGED <<sha, validatorsTip, validatorsLock, parent, worker, podman, dirs, validatorsRunning, exited, code,
                  bound, asked, verdict, files, harness, installer, cache, validatorsProved>>
  BY DEF V!StopPost, V!StopPostCleans
<1>4. /\ validatorsListed' \in [V!Cleaners -> [Runs -> SUBSET Things]] /\ deaths' \in 0 .. MaxDeaths
      /\ \A q \in Runs : validatorsListed'["parent"][q] = validatorsListed["parent"][q]
      /\ post' \in [Runs -> {V!Nobody, "cleaning", "done", "failed"}]
  <2>1. CASE V!StopPost(r)
    <3>1. PICK S \in SUBSET Runs : S = {r}
      OBVIOUS
    <3>2. V!List("post", r, S) /\ post' = [post EXCEPT ![r] = "cleaning"] /\ deaths' = deaths
      BY <2>1, <3>1 DEF V!StopPost
    <3>3. post' \in [Runs -> {V!Nobody, "cleaning", "done", "failed"}] /\ deaths' \in 0 .. MaxDeaths
      BY <1>1, <3>2 DEF ValidatorTyped, V!TypeOK
    <3>. QED
      BY <1>1, <1>2, <3>2, <3>3, Lists
  <2>2. CASE V!StopPostCleans(r)
    <3>1. /\ V!Succeeds("post", r) \/ V!GivesUp("post", r)
          /\ post' = [post EXCEPT ![r] = "done"] \/ post' = [post EXCEPT ![r] = "failed"]
      BY <2>2 DEF V!StopPostCleans
    <3>2. post' \in [Runs -> {V!Nobody, "cleaning", "done", "failed"}]
      BY <1>1, <3>1 DEF ValidatorTyped, V!TypeOK
    <3>. QED
      BY <1>1, <1>2, <3>1, <3>2, Concluding
  <2>. QED
    BY <2>1, <2>2
<1>5. ValidatorTyped'
  BY <1>1, <1>3, <1>4 DEF ValidatorTyped, V!TypeOK
<1>6. \A q \in Runs : Settles(q) /\ Remains(q)' = Remains(q)
  BY <1>3, <1>4 DEF Settles, Remains, V!Items, V!Containers
<1>7. harness' \in {1, 2} /\ harness <= harness'
  BY <1>1, <1>3, RunTyped
<1>8. AttemptHolds(r)'
  BY <1>1, <1>3, <1>6, <1>7, AttemptStays
<1>9. OnlyRun(r)
  BY <1>3, <1>6 DEF OnlyRun
<1>. QED
  BY <1>3, <1>5, <1>8, <1>9, OneRunMoves

LEMMA ProcessesDie ==
    ASSUME V!ConstantsAssumption, ValidatorInv, NEW r \in Runs, V!WorkerKilled(r) \/ V!ParentDies(r)
    PROVE  ValidatorInv'
<1>. USE ValidatorNames DEF V!identity, V!install, V!remains
<1>1. ValidatorTyped /\ AttemptHolds(r) /\ InstallationHolds
  BY DEF ValidatorInv
<1>2. deaths' \in 0 .. MaxDeaths
  <2>1. deaths < MaxDeaths /\ deaths' = deaths + 1
    BY DEF V!WorkerKilled, V!ParentDies
  <2>2. deaths \in 0 .. MaxDeaths
    BY <1>1 DEF ValidatorTyped, V!TypeOK
  <2>. QED
    BY <2>1, <2>2
<1>3. CASE V!WorkerKilled(r)
  <2>1. /\ worker[r] \in V!Active \cup {"begin", "bound"} /\ worker' = [worker EXCEPT ![r] = "killed"]
        /\ validatorsLock' = IF validatorsLock = r THEN V!Nobody ELSE validatorsLock
        /\ validatorsListed' = [validatorsListed EXCEPT !["worker"][r] = {}, !["sweep"][r] = {}]
        /\ UNCHANGED <<sha, validatorsTip, parent, podman, post, dirs, validatorsRunning, exited, code, bound, asked,
                       verdict, files, harness, installer, cache, validatorsProved>>
    BY <1>3 DEF V!WorkerKilled
  <2>2. /\ worker' \in [Runs -> V!Active \cup {V!Nobody, "begin", "bound", "ended", "killed"}]
        /\ worker'[r] = "killed" /\ \A q \in Runs \ {r} : worker'[q] = worker[q]
    BY <1>1, <2>1 DEF ValidatorTyped, V!TypeOK
  <2>3. /\ validatorsListed' \in [V!Cleaners -> [Runs -> SUBSET Things]]
        /\ validatorsListed'["parent"] = validatorsListed["parent"]
    <3>1. /\ validatorsListed \in [V!Cleaners -> [Runs -> SUBSET Things]] /\ {} \in SUBSET Things
          /\ {"worker", "parent", "sweep"} \subseteq V!Cleaners
      BY <1>1 DEF ValidatorTyped, V!Cleaners
    <3>2. PICK first : first = [validatorsListed EXCEPT !["worker"][r] = {}]
      OBVIOUS
    <3>3. first \in [V!Cleaners -> [Runs -> SUBSET Things]] /\ first["parent"] = validatorsListed["parent"]
      BY <3>1, <3>2
    <3>4. validatorsListed' = [first EXCEPT !["sweep"][r] = {}]
      BY <2>1, <3>2
    <3>. QED
      BY <3>1, <3>3, <3>4
  <2>7. ValidatorTyped'
    BY <1>1, <1>2, <2>1, <2>2, <2>3 DEF ValidatorTyped, V!TypeOK
  <2>4. OnlyRun(r)
    BY <2>1, <2>2, <2>3 DEF OnlyRun, Settles, Remains, V!Items, V!Containers
  <2>5. parent'[r] \notin Returned
    BY <1>1, <2>1 DEF AttemptHolds, V!ProcessesGone, V!Active
  <2>6. AttemptHolds(r)'
    BY <1>1, <2>1, <2>2, <2>5, RunTyped DEF AttemptHolds, V!Active, V!Nobody, Unpinned, Judged, Returned
  <2>. QED
    BY <2>1, <2>4, <2>6, <2>7, OneRunMoves
<1>4. CASE V!ParentDies(r)
  <2>1. /\ parent[r] \in {"waiting", "cleaning", "saving"} /\ parent' = [parent EXCEPT ![r] = "dead"]
        /\ validatorsListed' = [validatorsListed EXCEPT !["parent"][r] = {}]
        /\ UNCHANGED <<sha, validatorsTip, validatorsLock, worker, podman, post, dirs, validatorsRunning, exited,
                       code, bound, asked, verdict, files, harness, installer, cache, validatorsProved>>
    BY <1>4 DEF V!ParentDies
  <2>2. /\ parent' \in [Runs -> {"new", "waiting", "cleaning", "saving", "printed", "dead"}]
        /\ parent'[r] = "dead" /\ \A q \in Runs \ {r} : parent'[q] = parent[q]
    BY <1>1, <2>1 DEF ValidatorTyped, V!TypeOK
  <2>3. ValidatorTyped'
    BY <1>1, <1>2, <2>1, <2>2 DEF ValidatorTyped, V!TypeOK
  <2>4. OnlyRun(r)
    BY <2>1, <2>2 DEF OnlyRun, Settles, Remains, V!Items, V!Containers
  <2>5. /\ V!Passed(r) => V!Passed(r)'
        /\ Genuine(sha[r], bound[r]) => Genuine(sha[r], bound[r])'
    BY <2>1 DEF V!Passed, Genuine, Unmixed
  <2>6. AttemptHolds(r)'
    BY <1>1, <2>1, <2>2, <2>5, RunTyped DEF AttemptHolds, V!Active, V!Nobody, Unpinned, Judged, Returned
  <2>. QED
    BY <2>1, <2>3, <2>4, <2>6, OneRunMoves
<1>. QED
  BY <1>3, <1>4

\* The parent starts the service, and judges it once its processes are gone.
LEMMA ParentRequests ==
    ASSUME V!ConstantsAssumption, ValidatorInv, NEW r \in Runs, V!Request(r)
    PROVE  ValidatorInv'
<1>. USE ValidatorNames DEF V!identity, V!install, V!remains
<1>1. ValidatorTyped /\ AttemptHolds(r) /\ InstallationHolds
  BY DEF ValidatorInv
<1>2. /\ parent[r] = "new" /\ worker[r] = V!Nobody
      /\ parent' = [parent EXCEPT ![r] = "waiting"] /\ worker' = [worker EXCEPT ![r] = "begin"]
      /\ asked' = [asked EXCEPT ![r] = V!Binding]
      /\ UNCHANGED <<sha, deaths, validatorsTip, validatorsLock, podman, post, dirs, validatorsRunning, exited,
                     validatorsListed, code, bound, verdict, files, harness, installer, cache, validatorsProved>>
  BY DEF V!Request
<1>3. /\ parent' \in [Runs -> {"new", "waiting", "cleaning", "saving", "printed", "dead"}]
      /\ parent'[r] = "waiting" /\ \A q \in Runs \ {r} : parent'[q] = parent[q]
  BY <1>1, <1>2 DEF ValidatorTyped, V!TypeOK
<1>4. /\ worker' \in [Runs -> V!Active \cup {V!Nobody, "begin", "bound", "ended", "killed"}]
      /\ worker'[r] = "begin" /\ \A q \in Runs \ {r} : worker'[q] = worker[q]
  BY <1>1, <1>2 DEF ValidatorTyped, V!TypeOK
<1>5. asked' \in [Runs -> Bindings] /\ \A q \in Runs \ {r} : asked'[q] = asked[q]
  BY <1>1, <1>2, RunTyped DEF ValidatorTyped
<1>6. ValidatorTyped'
  BY <1>1, <1>2, <1>3, <1>4, <1>5 DEF ValidatorTyped, V!TypeOK
<1>7. OnlyRun(r)
  BY <1>2, <1>3, <1>4, <1>5 DEF OnlyRun, Settles, Remains, V!Items, V!Containers
<1>8. AttemptHolds(r)'
  BY <1>1, <1>2, <1>3, <1>4, RunTyped DEF AttemptHolds, V!Active, V!Nobody, Unpinned, Judged, Returned
<1>. QED
  BY <1>2, <1>6, <1>7, <1>8, OneRunMoves

LEMMA ParentReturns ==
    ASSUME V!ConstantsAssumption, ValidatorInv, NEW r \in Runs, V!Return(r)
    PROVE  ValidatorInv'
<1>. USE ValidatorNames DEF V!identity, V!install, V!remains
<1>1. ValidatorTyped /\ AttemptHolds(r) /\ InstallationHolds
  BY DEF ValidatorInv
<1>2. PICK outcome :
         /\ \/ outcome = "FAIL"
            \/ /\ outcome = verdict[r]
               /\ outcome = "PASS" => worker[r] # "killed" /\ (r \in Releases => bound[r] = asked[r])
         /\ verdict' = [verdict EXCEPT ![r] = outcome]
  BY <1>1 DEF ValidatorTyped, V!TypeOK, V!Return
<1>3. /\ parent[r] = "waiting" /\ V!ProcessesGone(r) /\ V!List("parent", r, {r})
      /\ parent' = [parent EXCEPT ![r] = "cleaning"]
      /\ UNCHANGED <<sha, deaths, validatorsTip, validatorsLock, worker, podman, post, dirs, validatorsRunning,
                     exited, code, bound, asked, files, harness, installer, cache, validatorsProved>>
  BY DEF V!Return
<1>4. /\ parent' \in [Runs -> {"new", "waiting", "cleaning", "saving", "printed", "dead"}]
      /\ parent'[r] = "cleaning" /\ \A q \in Runs \ {r} : parent'[q] = parent[q]
  BY <1>1, <1>3 DEF ValidatorTyped, V!TypeOK
<1>5. /\ verdict' \in [Runs -> Verdicts]
      /\ verdict'[r] = outcome /\ \A q \in Runs \ {r} : verdict'[q] = verdict[q]
  BY <1>1, <1>2 DEF ValidatorTyped, V!TypeOK, Verdicts
<1>6. /\ validatorsListed' \in [V!Cleaners -> [Runs -> SUBSET Things]]
      /\ validatorsListed'["parent"][r] = Remains(r)
      /\ \A q \in Runs \ {r} : validatorsListed'["parent"][q] = validatorsListed["parent"][q]
  <2>1. PICK c \in V!Cleaners : c = "parent"
    BY DEF V!Cleaners
  <2>2. /\ validatorsListed' \in [V!Cleaners -> [Runs -> SUBSET Things]]
        /\ validatorsListed'[c][r] = V!Items({r})
        /\ \A q \in Runs : q # r \/ c # "parent" =>
              validatorsListed'["parent"][q] = validatorsListed["parent"][q]
    BY <1>1, <1>3, <2>1, Lists
  <2>. QED
    BY <2>1, <2>2 DEF Remains
<1>7. ValidatorTyped'
  BY <1>1, <1>3, <1>4, <1>5, <1>6 DEF ValidatorTyped, V!TypeOK, Verdicts
<1>8. \A q : Remains(q)' = Remains(q)
  BY <1>3 DEF Remains, V!Items, V!Containers
<1>9. OnlyRun(r)
  BY <1>3, <1>4, <1>5, <1>6, <1>8 DEF OnlyRun, Settles
<1>10. /\ V!Passed(r) => V!Passed(r)'
       /\ Genuine(sha[r], bound[r]) => Genuine(sha[r], bound[r])'
  BY <1>3 DEF V!Passed, Genuine, Unmixed
<1>11. worker'[r] \in {"ended", "killed"} /\ podman'[r] = V!Nobody
  BY <1>3 DEF V!ProcessesGone
<1>12. AttemptHolds(r)'
  BY <1>1, <1>2, <1>3, <1>4, <1>5, <1>6, <1>8, <1>10, <1>11, RunTyped
     DEF AttemptHolds, V!Active, V!Nobody, Unpinned, Judged, Returned, V!ProcessesGone
<1>. QED
  BY <1>3, <1>7, <1>9, <1>12, OneRunMoves

LEMMA ParentCleans ==
    ASSUME V!ConstantsAssumption, ValidatorInv, NEW r \in Runs, V!Clean(r)
    PROVE  ValidatorInv'
<1>. USE ValidatorNames DEF V!identity, V!install, V!remains
<1>1. ValidatorTyped /\ AttemptHolds(r) /\ InstallationHolds
  BY DEF ValidatorInv
<1>2. /\ parent[r] = "cleaning"
      /\ parent' = [parent EXCEPT ![r] =
            IF r \in Releases /\ verdict'[r] = "PASS" THEN "saving" ELSE "printed"]
      /\ UNCHANGED <<sha, validatorsTip, validatorsLock, worker, podman, post, dirs, validatorsRunning, exited, code,
                     bound, asked, files, harness, installer, cache, validatorsProved>>
  BY DEF V!Clean
<1>3. PICK outcome :
         /\ verdict' = [verdict EXCEPT ![r] = outcome]
         /\ \/ outcome = "INVALID_CONFIGURATION" /\ r \in Releases
            \/ outcome = verdict[r] /\ V!Succeeds("parent", r)
            \/ outcome = "CLEANUP_FAILED"
  BY DEF V!Clean, V!Concludes
<1>4. /\ verdict' \in [Runs -> Verdicts]
      /\ verdict'[r] = outcome /\ \A q \in Runs \ {r} : verdict'[q] = verdict[q]
  <2>1. outcome \in Verdicts
    BY <1>1, <1>3 DEF ValidatorTyped, V!TypeOK, Verdicts
  <2>. QED
    BY <1>1, <1>3, <2>1 DEF ValidatorTyped, V!TypeOK, Verdicts
<1>5. PICK place \in {"saving", "printed"} :
         /\ parent' = [parent EXCEPT ![r] = place]
         /\ place = "saving" => r \in Releases /\ outcome = "PASS"
  BY <1>2, <1>4
<1>6. /\ parent' \in [Runs -> {"new", "waiting", "cleaning", "saving", "printed", "dead"}]
      /\ parent'[r] = place /\ \A q \in Runs \ {r} : parent'[q] = parent[q]
  BY <1>1, <1>5 DEF ValidatorTyped, V!TypeOK
<1>7. PICK c \in V!Cleaners : c = "parent"
  BY DEF V!Cleaners
<1>8. /\ validatorsListed' \in [V!Cleaners -> [Runs -> SUBSET Things]]
      /\ \A q \in Runs \ {r} : validatorsListed'["parent"][q] = validatorsListed["parent"][q]
      /\ deaths' \in 0 .. MaxDeaths
  BY <1>1, <1>7, Concluding DEF V!Clean
<1>9. ValidatorTyped'
  BY <1>1, <1>2, <1>4, <1>6, <1>8 DEF ValidatorTyped, V!TypeOK, Verdicts
<1>10. OnlyRun(r)
  <2>1. \A p : Remains(p)' = Remains(p)
    BY <1>2 DEF Remains, V!Items, V!Containers
  <2>. QED
    BY <1>2, <1>4, <1>6, <1>8, <2>1 DEF OnlyRun, Settles
<1>11. Remains(r)' = {} \/ Told(r)'
  <2>1. CASE outcome = verdict[r] /\ V!Succeeds("parent", r)
    BY <1>1, <1>2, <2>1 DEF V!Succeeds, AttemptHolds, Remains, V!Items, V!Containers
  <2>. QED
    BY <1>3, <1>4, <2>1 DEF Told
<1>12. /\ V!Passed(r) => V!Passed(r)'
       /\ Genuine(sha[r], bound[r]) => Genuine(sha[r], bound[r])'
       /\ V!ProcessesGone(r)' /\ worker[r] \in {"ended", "killed"} /\ podman[r] = V!Nobody
  BY <1>1, <1>2 DEF V!Passed, Genuine, Unmixed, V!ProcessesGone, AttemptHolds, Returned
<1>13. parent'[r] \in {"saving", "printed"}
  BY <1>6
<1>14. AttemptHolds(r)'
  BY <1>1, <1>2, <1>3, <1>4, <1>5, <1>6, <1>11, <1>12, <1>13, RunTyped
     DEF AttemptHolds, V!Active, V!Nobody, Unpinned, Judged, Returned
<1>. QED
  BY <1>2, <1>9, <1>10, <1>14, OneRunMoves

\* A success is kept for reuse only once nothing of its run is left.
LEMMA ParentSaves ==
    ASSUME V!ConstantsAssumption, ValidatorInv, NEW r \in Runs, V!Save(r)
    PROVE  ValidatorInv'
<1>. USE ValidatorNames DEF V!identity, V!install, V!remains
<1>1. ValidatorTyped /\ AttemptHolds(r) /\ InstallationHolds
  BY DEF ValidatorInv
<1>2. /\ parent[r] = "saving" /\ parent' = [parent EXCEPT ![r] = "printed"]
      /\ UNCHANGED <<sha, deaths, validatorsTip, validatorsLock, worker, podman, post, dirs, validatorsRunning, exited,
                     validatorsListed, code, bound, asked, files, harness, installer, validatorsProved>>
  BY DEF V!Save
<1>3. PICK outcome \in {"INVALID_CONFIGURATION", verdict[r]} : verdict' = [verdict EXCEPT ![r] = outcome]
  BY <1>1 DEF ValidatorTyped, V!TypeOK, V!Save
<1>4. /\ verdict' \in [Runs -> Verdicts]
      /\ verdict'[r] = outcome /\ \A q \in Runs \ {r} : verdict'[q] = verdict[q]
  <2>1. outcome \in Verdicts
    BY <1>1 DEF ValidatorTyped, V!TypeOK, Verdicts
  <2>. QED
    BY <1>1, <1>3, <2>1 DEF ValidatorTyped, V!TypeOK, Verdicts
<1>5. /\ parent' \in [Runs -> {"new", "waiting", "cleaning", "saving", "printed", "dead"}]
      /\ parent'[r] = "printed" /\ \A q \in Runs \ {r} : parent'[q] = parent[q]
  BY <1>1, <1>2 DEF ValidatorTyped, V!TypeOK
<1>6. ValidatorTyped'
  BY <1>1, <1>2, <1>4, <1>5 DEF ValidatorTyped, V!TypeOK, Verdicts
<1>7. \A q : Remains(q)' = Remains(q)
  BY <1>2 DEF Remains, V!Items, V!Containers
<1>8. OnlyRun(r)
  BY <1>2, <1>4, <1>5, <1>7 DEF OnlyRun, Settles
<1>9. /\ V!Passed(r) => V!Passed(r)'
      /\ Genuine(sha[r], bound[r]) => Genuine(sha[r], bound[r])'
      /\ V!ProcessesGone(r)' /\ worker[r] \in {"ended", "killed"} /\ podman[r] = V!Nobody
  BY <1>1, <1>2 DEF V!Passed, Genuine, Unmixed, V!ProcessesGone, AttemptHolds, Returned
<1>10. AttemptHolds(r)'
  BY <1>1, <1>2, <1>3, <1>4, <1>5, <1>7, <1>9, RunTyped
     DEF AttemptHolds, V!Active, V!Nobody, Unpinned, Judged, Returned, Told
<1>11. cache' = cache \/ CacheHolds'
  <2>1. verdict[r] = "PASS" /\ r \in Releases /\ Remains(r) = {}
    BY <1>1, <1>2 DEF AttemptHolds, Told
  <2>2. Genuine(sha[r], asked[r])
    BY <1>1, <1>2, <2>1 DEF AttemptHolds, Returned
  <2>3. Genuine(sha[r], asked[r])'
    BY <1>2, <2>2 DEF Genuine, Unmixed
  <2>4. cache' = cache \/ cache' = {[sha |-> sha[r], binding |-> asked[r], by |-> r]}
    BY DEF V!Save
  <2>. QED
    BY <1>2, <1>5, <1>7, <2>1, <2>3, <2>4 DEF CacheHolds
<1>. QED
  BY <1>6, <1>8, <1>10, <1>11, OneRunMoves

\* The installer works under the lock; root may replace the harness at any time, and the branch moves.
LEMMA InstallationMoves ==
    ASSUME V!ConstantsAssumption, ValidatorInv,
           V!Install \/ (\E f \in Files : V!Replace(f)) \/ V!Installed \/ V!ReplaceHarness \/ V!TipMoves
    PROVE  ValidatorInv'
<1>. USE ValidatorNames DEF V!identity, V!install, V!remains
<1>1. ValidatorTyped /\ InstallationHolds /\ CacheHolds
  BY DEF ValidatorInv
<1>2. /\ UNCHANGED <<sha, deaths, parent, worker, podman, post, dirs, validatorsRunning, exited, validatorsListed,
                     code, bound, asked, verdict, cache, validatorsProved>>
      /\ validatorsLock \in Runs => validatorsLock' = validatorsLock
      /\ installer = "broken" => installer' = "broken"
  BY <1>1 DEF V!Install, V!Replace, V!Installed, V!ReplaceHarness, V!TipMoves, InstallationHolds, V!Nobody
<1>3. /\ harness' \in {1, 2} /\ harness <= harness' /\ files' \in [Files -> {1, 2}]
      /\ validatorsTip' \in 0 .. MaxMoves
      /\ validatorsLock' \in Runs \cup {V!Nobody, "installer"}
      /\ installer' \in {V!Nobody, "replacing", "installed", "rolled back", "broken"}
  <2>1. /\ harness \in {1, 2} /\ files \in [Files -> {1, 2}] /\ validatorsTip \in 0 .. MaxMoves
        /\ validatorsLock \in Runs \cup {V!Nobody, "installer"}
        /\ installer \in {V!Nobody, "replacing", "installed", "rolled back", "broken"}
    BY <1>1 DEF ValidatorTyped, V!TypeOK, V!Versions
  <2>2. harness' = harness \/ (harness = 1 /\ harness' = 2)
    BY DEF V!Install, V!Replace, V!Installed, V!ReplaceHarness, V!TipMoves
  <2>3. validatorsTip' = validatorsTip \/ (validatorsTip < MaxMoves /\ validatorsTip' = validatorsTip + 1)
    BY DEF V!Install, V!Replace, V!Installed, V!ReplaceHarness, V!TipMoves
  <2>4. validatorsLock' \in {validatorsLock, V!Nobody, "installer"}
    BY DEF V!Install, V!Replace, V!Installed, V!ReplaceHarness, V!TipMoves
  <2>5. installer' \in {installer, "replacing", "installed", "rolled back", "broken"}
    BY DEF V!Install, V!Replace, V!Installed, V!ReplaceHarness, V!TipMoves
  <2>6. files' \in [Files -> {1, 2}]
    BY <2>1 DEF V!Install, V!Replace, V!Installed, V!ReplaceHarness, V!TipMoves, V!Restored
  <2>7. harness' \in {1, 2} /\ harness <= harness'
    <3>1. harness \in {1, 2}
      BY <2>1
    <3>. QED
      BY ONLY <2>2, <3>1
  <2>8. validatorsTip' \in 0 .. MaxMoves
    <3>1. validatorsTip \in 0 .. MaxMoves /\ MaxMoves \in Nat
      BY <2>1
    <3>. QED
      BY ONLY <2>3, <3>1
  <2>. QED
    BY <2>1, <2>4, <2>5, <2>6, <2>7, <2>8
<1>4. ValidatorTyped'
  BY <1>1, <1>2, <1>3 DEF ValidatorTyped, V!TypeOK, V!Versions
<1>5. \A q : Remains(q)' = Remains(q)
  BY <1>2 DEF Remains, V!Items, V!Containers
<1>6. \A q \in Runs : AttemptHolds(q)'
  <2>1. \A q \in Runs : Settles(q)
    BY <1>2, <1>5 DEF Settles
  <2>. QED
    BY <1>1, <1>2, <1>3, <2>1, AttemptStays DEF ValidatorInv
<1>7. CacheHolds'
  BY <1>1, <1>2, <1>5, GenuineStays DEF CacheHolds
<1>8. InstallationHolds'
  <2>1. CASE V!Install
    BY <2>1 DEF V!Install, InstallationHolds
  <2>2. CASE \E f \in Files : V!Replace(f)
    BY <1>1, <2>2 DEF V!Replace, InstallationHolds
  <2>3. CASE V!Installed
    BY <1>1, <2>3 DEF V!Installed, InstallationHolds, Unmixed, V!Restored, V!Nobody
  <2>4. CASE V!ReplaceHarness \/ V!TipMoves
    BY <1>1, <2>4 DEF V!ReplaceHarness, V!TipMoves, InstallationHolds, Unmixed
  <2>. QED
    BY <2>1, <2>2, <2>3, <2>4
<1>. QED
  BY <1>4, <1>6, <1>7, <1>8 DEF ValidatorInv

\* At first nothing was asked, and the installation is of one version.
LEMMA ValidatorStarts ==
    ASSUME V!ConstantsAssumption, V!Init PROVE ValidatorInv
<1>. USE ValidatorNames
<1>1. V!Binding \in Bindings /\ V!Binding.harness = 1
  BY DEF V!Init, V!Binding, Bindings, V!Versions
<1>2. ValidatorTyped
  BY <1>1 DEF V!Init, V!TypeOK, V!Versions, ValidatorTyped
<1>3. InstallationHolds /\ CacheHolds
  BY DEF V!Init, InstallationHolds, CacheHolds, Unmixed, V!Nobody
<1>4. \A r \in Runs : AttemptHolds(r)
  BY <1>1 DEF V!Init, AttemptHolds, V!Active, V!Nobody, Returned, Unpinned
<1>. QED
  BY <1>2, <1>3, <1>4 DEF ValidatorInv

LEMMA ValidatorStep ==
    ASSUME V!ConstantsAssumption, ValidatorInv, [V!Next]_V!vars PROVE ValidatorInv'
<1>1. ASSUME NEW r \in Runs, V!ServiceStep(r) PROVE ValidatorInv'
  <2>1. ASSUME V!WorkerStep(r) PROVE ValidatorInv'
    BY <2>1, WorkerBegins, WorkerSweeps, WorkerPrepares, WorkerLaunches, WorkerCollects, WorkerLeaves,
       WorkerFinishes DEF V!WorkerStep
  <2>. QED
    BY <1>1, <2>1, ContainerMoves, StopPostMoves, CleanerRemoves DEF V!ServiceStep
<1>2. ASSUME NEW r \in Runs, V!Request(r) \/ V!ParentGoesOn(r) PROVE ValidatorInv'
  <2>1. "parent" \in V!Cleaners
    BY DEF V!Cleaners
  <2>. QED
    BY <1>2, <2>1, ParentRequests, ParentReturns, CleanerRemoves, ParentCleans, ParentSaves DEF V!ParentGoesOn
<1>3. ASSUME NEW r \in Runs, V!WorkerKilled(r) \/ V!ParentDies(r) PROVE ValidatorInv'
  BY <1>3, ProcessesDie
<1>4. CASE V!Install \/ (\E f \in Files : V!Replace(f)) \/ V!Installed \/ V!ReplaceHarness \/ V!TipMoves
  BY <1>4, InstallationMoves
<1>5. CASE UNCHANGED V!vars
  <2>1. UNCHANGED <<sha, validatorsTip, validatorsLock, parent, worker, podman, post, dirs, validatorsRunning, exited,
                    validatorsListed, code, bound, asked, verdict, files, harness, installer, cache,
                    validatorsProved, deaths>>
    BY <1>5 DEF V!vars
  <2>2. ValidatorTyped'
    BY <2>1 DEF ValidatorInv, ValidatorTyped, V!TypeOK
  <2>4. \A q : Remains(q)' = Remains(q) /\ Settles(q)
    BY <2>1 DEF Settles, Remains, V!Items, V!Containers
  <2>3. InstallationHolds' /\ CacheHolds'
    BY <2>1, <2>4 DEF ValidatorInv, InstallationHolds, CacheHolds, Unmixed, Genuine
  <2>5. ASSUME NEW q \in Runs PROVE AttemptHolds(q)'
    BY <2>1, <2>4, RunTyped, AttemptStays DEF ValidatorInv
  <2>. QED
    BY <2>2, <2>3, <2>5 DEF ValidatorInv
<1>. QED
  BY <1>1, <1>2, <1>3, <1>4, <1>5 DEF V!Next

\* What the invariant says of what is printed, kept and left.
LEMMA ValidatorIsSound ==
    ASSUME V!ConstantsAssumption, ValidatorInv
    PROVE  V!TypeOK /\ V!PassIsReal /\ V!CacheIsReal /\ V!MixedNeverPasses /\ V!NothingLeft
<1>1. ValidatorTyped /\ CacheHolds /\ \A r \in Runs : AttemptHolds(r)
  BY DEF ValidatorInv
<1>2. ASSUME NEW r \in Runs, parent[r] = "printed", verdict[r] = "PASS"
      PROVE  IF r \in Releases THEN Genuine(sha[r], asked[r]) ELSE \E p \in validatorsProved : p.sha = sha[r]
  BY <1>1, <1>2 DEF AttemptHolds, Returned
<1>3. V!PassIsReal
  BY <1>2 DEF V!PassIsReal, Genuine
<1>7. \A r : Remains(r) = {} => r \notin V!Present
  <2>. SUFFICES ASSUME NEW r, r \in V!Present PROVE Remains(r) # {}
    OBVIOUS
  <2>1. CASE r \in dirs
    <3>1. <<"directory", r>> \in Remains(r)
      BY <2>1 DEF Remains, V!Items
    <3>. QED
      BY <3>1
  <2>2. CASE r \in V!Containers
    <3>1. <<"container", r>> \in Remains(r)
      BY <2>2 DEF Remains, V!Items
    <3>. QED
      BY <3>1
  <2>. QED
    BY <2>1, <2>2 DEF V!Present
<1>4. V!NothingLeft
  BY <1>1, <1>7 DEF V!NothingLeft, AttemptHolds, Told
<1>5. V!CacheIsReal
  BY <1>1, <1>7 DEF V!CacheIsReal, CacheHolds, Genuine
<1>6. V!MixedNeverPasses
  BY <1>2 DEF V!MixedNeverPasses, Genuine, Unmixed
<1>. QED
  BY <1>1, <1>3, <1>4, <1>5, <1>6 DEF ValidatorTyped

\* For any number of requests, whoever dies and whatever is installed meanwhile: a printed PASS and the evidence
\* kept for reuse stand for a container that passed for that revision, for a release under the unmixed
\* installation that was asked for, and nothing is left of a run that has printed, unless it told of a failed
\* clean-up or, for a release, of an installation that changed meanwhile.
THEOREM ValidatorSafety ==
    ASSUME V!ConstantsAssumption
    PROVE  V!Spec => [](V!TypeOK /\ V!PassIsReal /\ V!CacheIsReal /\ V!MixedNeverPasses /\ V!NothingLeft)
<1>1. V!Init => ValidatorInv
  BY ValidatorStarts
<1>2. ValidatorInv /\ [V!Next]_V!vars => ValidatorInv'
  BY ValidatorStep
<1>3. ValidatorInv => V!TypeOK /\ V!PassIsReal /\ V!CacheIsReal /\ V!MixedNeverPasses /\ V!NothingLeft
  BY ValidatorIsSound
<1>. QED
  BY <1>1, <1>2, <1>3, PTL DEF V!Spec

\* The validator's own files change only while no worker is at work: a worker at work holds the lock that the
\* installer needs.
THEOREM InstallExcludes ==
    ASSUME V!ConstantsAssumption
    PROVE  V!Spec => [][V!InstallExcludesWorkers]_V!vars
<1>1. V!Init => ValidatorInv
  BY ValidatorStarts
<1>2. ValidatorInv /\ [V!Next]_V!vars => ValidatorInv'
  BY ValidatorStep
<1>3. ValidatorInv /\ [V!Next]_V!vars => [V!InstallExcludesWorkers]_V!vars
  <2>. SUFFICES ASSUME ValidatorInv, V!Next, files' # files, NEW r \in Runs, worker[r] \in V!Active
                PROVE  FALSE
    BY DEF V!InstallExcludesWorkers
  <2>1. installer = "replacing"
    <3>1. ASSUME NEW q \in Runs, V!Request(q) \/ V!ServiceStep(q) \/ V!ParentGoesOn(q) \/ V!WorkerKilled(q) \/ V!ParentDies(q)
          PROVE  files' = files
      BY <3>1 DEF V!ServiceStep, V!WorkerStep, V!ParentGoesOn, V!Remove, V!WorkerKilled, V!ParentDies, V!Begin, V!Lock,
         V!SweepList, V!Sweep, V!Prepare, V!Launch, V!Collect, V!WorkerLists, V!WorkerCleans, V!Finish, V!Starts,
         V!ContainerEnds, V!PodmanGone, V!StopPost, V!StopPostCleans, V!Request, V!Return, V!Clean, V!Save,
         V!install
    <3>. QED
      BY <3>1 DEF V!Next, V!Install, V!Replace, V!Installed, V!ReplaceHarness, V!TipMoves, V!install
  <2>2. validatorsLock = "installer" /\ validatorsLock = r
    BY <2>1 DEF ValidatorInv, InstallationHolds, AttemptHolds
  <2>. QED
    BY <2>2, ValidatorNames
<1>. QED
  BY <1>1, <1>2, <1>3, PTL DEF V!Spec

-----------------------------------------------------------------------------
(* What is told of a deployment (DeploymentStatus): a report the job lets through can be   *)
(* read by the observer, and what an observer listed before it writes is still there.       *)

CONSTANTS
    Raw, Comments, Deliveries

VARIABLES
    selected, stampAttempts, promoted, stampRunning, pending, deliveries, comments

D == INSTANCE DeploymentStatus WITH attempts <- stampAttempts, running <- stampRunning

LEMMA OneElement ==
    ASSUME NEW S, Single(S) PROVE IsFiniteSet(S) /\ Cardinality(S) <= 1
<1>1. CASE S = {}
  BY <1>1, FS_EmptySet
<1>2. CASE S # {}
  <2>1. PICK x : S = {x}
    BY <1>2 DEF Single
  <2>2. Cardinality(S) = 1 /\ IsFiniteSet(S)
    BY <2>1, FS_Singleton
  <2>. QED
    BY <2>2
<1>. QED
  BY <1>1, <1>2

Outcomes == {"success", "failure", "cancelled", "skipped"}
RunJobs == {D!Jobs(b, f, o, d) : b, f, o, d \in Outcomes}
AllPassed(js) == js = D!Jobs("success", "success", "success", "success")
Says(a, st, reason) == \E r \in a.artifact : r.status = st /\ r.reason = reason

\* a run attempt has a report that can be read, or none
RunAttemptHolds(a) ==
    /\ a = [sha |-> a.sha, attempt |-> a.attempt, jobs |-> a.jobs, artifact |-> a.artifact]
    /\ a.sha \in Shas /\ a.attempt \in 1 .. MaxAttempts /\ a.jobs \in RunJobs
    /\ Single(a.artifact) /\ \A r \in a.artifact : D!ReadReport(r, a.sha)

\* an observer was started for an attempt; what it listed is still there
ObserverHolds(o) ==
    /\ o \in [sha : Shas, attempt : Nat, step : {"evidence", "listing", "writing"}, seen : {o.seen}]
    /\ \E a \in stampAttempts : a.sha = o.sha /\ a.attempt = o.attempt
    /\ o.step = "writing" => o.seen = {c \in comments : c.sha = o.sha}

CommentsHold ==
    /\ IsFiniteSet(comments)
    /\ \A c \in comments : c.attempt \in Nat /\ c.id \in 1 .. Cardinality(comments)
    /\ \A c, d \in comments : c.id = d.id => c = d
    /\ D!OneComment
    /\ D!CommentsTrue

StampInv ==
    /\ selected \in Shas \cup {0} /\ deliveries \in 0 .. Deliveries
    /\ IsFiniteSet(stampAttempts)
    /\ \A a \in stampAttempts : RunAttemptHolds(a)
    /\ Single(stampRunning) /\ Single(pending)
    /\ \A o \in stampRunning \cup pending : ObserverHolds(o)
    /\ \A o \in pending : o.step = "evidence"
    /\ CommentsHold

\* what the controller alone writes: a report of a promotion is one
PromotionsHold ==
    \A a \in stampAttempts : AllPassed(a.jobs) /\ Says(a, "PASS", "OK") => <<a.sha, a.attempt>> \in promoted

\* what the controller may report: only a promotion passes with the reason OK
Honest(c, d) ==
    /\ d.selected \in {selected, c}
    /\ d.report.run \in {0, 1}
    /\ d.report.status = "PASS" /\ d.report.reason = "OK" => d.selected = c /\ c # selected

Words == D!Reasons \cup {"PASS", "FAIL", "SUPERSEDED", "PROMOTED", "INSTALLED", "NOT_ATTEMPTED", "NOT_RUN",
                        "INVALID_REQUEST"}

LEMMA TheWords ==
    /\ "PASS" \in Words /\ "FAIL" \in Words /\ "SUPERSEDED" \in Words /\ "PROMOTED" \in Words
    /\ "INSTALLED" \in Words /\ "NOT_ATTEMPTED" \in Words /\ "NOT_RUN" \in Words
    /\ "INVALID_REQUEST" \in Words /\ "INTERNAL_ERROR" \in Words /\ "OK" \in Words
    /\ "ALREADY_CURRENT" \in Words /\ "STATE_BOUNDARY_FAILED" \in Words /\ "PROMOTION_FAILED" \in Words
    /\ "FETCH_FAILED" \in Words /\ "TESTS_FAILED" \in Words /\ "ADMISSION_QUERY_FAILED" \in Words
    /\ "ADMISSION_TARGET_SUPERSEDED" \in Words
BY DEF Words, D!Reasons, D!AdmissionReasons

\* a report of a deployment: a record, that does not announce a promotion
Recorded(r) ==
    r \in [status : Words, requested : Nat, previous : Nat, final : Nat, fetched : BOOLEAN, created : BOOLEAN,
          deps : Words, tests : Words, run : {0, 1}, promotion : Words, boundary : BOOLEAN, reason : Words]
Plain(r) == Recorded(r) /\ r.status = "FAIL"
Unannounced(r) == Recorded(r) /\ ~ (r.status = "PASS" /\ r.reason = "OK")

LEMMA PlainReports ==
    ASSUME NEW c \in Nat, NEW r, Plain(r)
    PROVE  /\ Plain([r EXCEPT !.boundary = TRUE]) /\ Plain([r EXCEPT !.fetched = TRUE])
           /\ Plain([r EXCEPT !.previous = c, !.final = c]) /\ Plain([r EXCEPT !.created = TRUE])
           /\ Plain([r EXCEPT !.deps = "INSTALLED"]) /\ Plain([r EXCEPT !.tests = "PASS", !.run = 1])
BY TheWords DEF Plain, Recorded

LEMMA QuietReports ==
    ASSUME NEW r, Plain(r)
    PROVE  /\ \A x \in Words : x # "OK" => Unannounced(D!Failing(r, x))
           /\ Unannounced(D!Superseding(r)) /\ Unannounced(D!Passing(r, "ALREADY_CURRENT", "ALREADY_CURRENT"))
           /\ Recorded(D!Passing(r, "OK", "PROMOTED"))
<1>1. ASSUME NEW x \in Words, x # "OK" PROVE Unannounced(D!Failing(r, x))
  BY <1>1, TheWords DEF Plain, Recorded, Unannounced, D!Failing
<1>2. Unannounced(D!Superseding(r))
  BY TheWords DEF Plain, Recorded, Unannounced, D!Superseding
<1>3. Unannounced(D!Passing(r, "ALREADY_CURRENT", "ALREADY_CURRENT"))
  BY TheWords DEF Plain, Recorded, Unannounced, D!Passing
<1>4. Recorded(D!Passing(r, "OK", "PROMOTED"))
  BY TheWords DEF Plain, Recorded, D!Passing
<1>. QED
  BY <1>1, <1>2, <1>3, <1>4

LEMMA QuietStays ==
    ASSUME NEW r, Unannounced(r)
    PROVE  /\ Unannounced([r EXCEPT !.tests = "FAIL"]) /\ \A c \in Nat : Unannounced([r EXCEPT !.final = c])
           /\ Unannounced([r EXCEPT !.status = "FAIL", !.reason = "INTERNAL_ERROR"])
BY TheWords DEF Unannounced, Recorded

LEMMA DeploysAreHonest ==
    ASSUME NEW c \in Nat, selected \in Nat, NEW d \in D!Deploys(c) PROVE Honest(c, d)
<1>. DEFINE bounded == [D!BlankReport(c) EXCEPT !.boundary = TRUE]
            known == [bounded EXCEPT !.previous = selected, !.final = selected]
            fetched == [known EXCEPT !.fetched = TRUE]
            created == [fetched EXCEPT !.created = TRUE]
            installed0 == [created EXCEPT !.deps = "INSTALLED"]
            passed == [installed0 EXCEPT !.tests = "PASS", !.run = 1]
<1>0. Plain(D!BlankReport(c))
  BY TheWords DEF Plain, Recorded, D!BlankReport
<1>1. Plain(bounded)
  BY <1>0, PlainReports
<1>2. Plain(known)
  BY <1>1, PlainReports
<1>3. Plain(fetched)
  BY <1>2, PlainReports
<1>4. Plain(created)
  BY <1>3, PlainReports
<1>5. Plain(installed0)
  BY <1>4, PlainReports
<1>6. Plain(passed)
  BY <1>5, PlainReports
<1>. DEFINE Kept(R) == \E r \in R : d = [report |-> r, selected |-> selected]
            Early == {D!Failing(D!BlankReport(c), "STATE_BOUNDARY_FAILED"),
                      D!Failing(bounded, "STATE_BOUNDARY_FAILED"), D!Failing(known, "STATE_BOUNDARY_FAILED")}
            Current == {D!Superseding(fetched),
                        D!Passing(known, "ALREADY_CURRENT", "ALREADY_CURRENT"),
                        D!Failing(known, "PROMOTION_FAILED")}
            Behind == {D!Failing(known, "FETCH_FAILED"), D!Superseding(fetched)}
            Tried == {D!Superseding(created), D!Failing(created, "FETCH_FAILED"),
                      D!Failing(installed0, "ADMISSION_QUERY_FAILED"),
                      IF selected = 0 THEN D!Failing(installed0, "ADMISSION_TARGET_SUPERSEDED")
                                      ELSE D!Superseding(installed0),
                      [D!Failing(installed0, "TESTS_FAILED") EXCEPT !.tests = "FAIL"],
                      D!Superseding(passed)}
            Promoting == D!Failing(passed, "PROMOTION_FAILED")
            Promoted == [D!Passing(passed, "OK", "PROMOTED") EXCEPT !.final = c]
<1>7. \/ Kept(Early) \/ Kept(Current) \/ Kept(Behind) \/ Kept({D!Failing(known, "FETCH_FAILED")})
      \/ Kept(D!WithCleanup(Tried))
      \/ d = [report |-> Promoting, selected |-> selected]
      \/ d = [report |-> [Promoting EXCEPT !.final = c], selected |-> c]
      \/ selected # c /\ d = [report |-> Promoted, selected |-> c]
  BY Zenon DEF D!Deploys
<1>. HIDE DEF bounded, known, fetched, created, installed0, passed
<1>8. ASSUME NEW R, Kept(R), \A r \in R : Unannounced(r) PROVE Honest(c, d)
  BY <1>8 DEF Honest, Unannounced, Recorded
<1>9. \A r \in Early \cup Current \cup Behind \cup {D!Failing(known, "FETCH_FAILED")} : Unannounced(r)
  BY <1>0, <1>1, <1>2, <1>3, QuietReports, TheWords
<1>10. \A r \in D!WithCleanup(Tried) : Unannounced(r)
  <2>1. Unannounced(D!Superseding(created)) /\ Unannounced(D!Failing(created, "FETCH_FAILED"))
    BY <1>4, QuietReports, TheWords
  <2>2. /\ Unannounced(D!Failing(installed0, "ADMISSION_QUERY_FAILED")) /\ Unannounced(D!Superseding(installed0))
        /\ Unannounced(D!Failing(installed0, "ADMISSION_TARGET_SUPERSEDED"))
        /\ Unannounced(D!Failing(installed0, "TESTS_FAILED"))
    BY <1>5, QuietReports, TheWords
  <2>3. Unannounced(D!Superseding(passed))
    BY <1>6, QuietReports, TheWords
  <2>4. \A r \in Tried : Unannounced(r)
    BY <2>1, <2>2, <2>3, QuietStays
  <2>. QED
    BY <2>4, QuietStays DEF D!WithCleanup
<1>11. Unannounced(Promoting) /\ Unannounced([Promoting EXCEPT !.final = c]) /\ Recorded(Promoted)
  BY <1>6, QuietReports, TheWords, QuietStays DEF Recorded
<1>12. ASSUME d = [report |-> Promoting, selected |-> selected] PROVE Honest(c, d)
  BY <1>11, <1>12 DEF Honest, Unannounced, Recorded
<1>13. ASSUME d = [report |-> [Promoting EXCEPT !.final = c], selected |-> c] PROVE Honest(c, d)
  BY <1>11, <1>13 DEF Honest, Unannounced, Recorded
<1>14. ASSUME selected # c, d = [report |-> Promoted, selected |-> c] PROVE Honest(c, d)
  BY <1>11, <1>14 DEF Honest, Unannounced, Recorded
<1>. HIDE DEF Early, Current, Behind, Tried, Promoting, Promoted, Kept
<1>15. Kept({D!Failing(known, "FETCH_FAILED")}) => Honest(c, d)
  BY <1>8, <1>9
<1>. QED
  BY <1>7, <1>8, <1>9, <1>10, <1>12, <1>13, <1>14, <1>15

\* whatever the deploy job lets through or writes itself can be read
LEMMA SanitizedIsRead ==
    ASSUME NEW c, NEW ssh, NEW r, r.run \in Nat PROVE D!ReadReport(D!Sanitized(r, c, ssh), c)
<1>1. CASE ssh # "unconfigured" /\ D!WorkflowAccepts(r, c, ssh)
  <2>1. D!Sanitized(r, c, ssh) = r
    BY <1>1 DEF D!Sanitized
  <2>2. D!ReadReport(r, c)
    BY <1>1 DEF D!WorkflowAccepts, D!ReadReport, D!AdmissionConsistent, D!Reasons, D!RunnerFailures, D!AdmissionReasons
  <2>. QED
    BY <2>1, <2>2
<1>2. CASE ~ (ssh # "unconfigured" /\ D!WorkflowAccepts(r, c, ssh))
  BY <1>2 DEF D!Sanitized, D!RunnerFailures, D!ReadReport, D!AdmissionConsistent, D!Reasons,
     D!AdmissionReasons, D!Failing, D!BlankReport
<1>. QED
  BY <1>1, <1>2

LEMMA EvidenceStatus ==
    ASSUME NEW a PROVE D!DeploymentEvidence(a).status \in D!Statuses
BY Zenon DEF D!DeploymentEvidence, D!Statuses

\* SUCCESS needs every job, and a report that says OK
LEMMA EvidenceSuccess ==
    ASSUME NEW a, a.jobs \in RunJobs, D!DeploymentEvidence(a).status = "SUCCESS"
    PROVE  AllPassed(a.jobs) /\ Says(a, "PASS", "OK")
<1>. PICK b, f, o, d \in Outcomes : a.jobs = D!Jobs(b, f, o, d)
  BY DEF RunJobs
<1>1. a.jobs.test = b /\ a.jobs.frontend = f /\ a.jobs.release_offline = o /\ a.jobs.deploy = d
  BY DEF D!Jobs
<1>. DEFINE SaysReadable(st, reason) == \E r \in D!Report(a) : r.status = st /\ r.reason = reason
<1>2. b = "success" /\ f = "success" /\ o = "success" /\ d = "success" /\ SaysReadable("PASS", "OK")
  BY <1>1 DEF D!DeploymentEvidence
<1>. QED
  BY <1>2 DEF AllPassed, Says, D!Report

RawReports == \A r \in Raw : r.run \in Nat

LEMMA CommentsHoldStays ==
    ASSUME CommentsHold, UNCHANGED comments, stampAttempts \subseteq stampAttempts'
    PROVE  CommentsHold'
<1>1. IsFiniteSet(comments') /\ Cardinality(comments') = Cardinality(comments)
  BY DEF CommentsHold
<1>2. D!OneComment'
  BY DEF CommentsHold, D!OneComment
<1>3. D!CommentsTrue'
  BY DEF CommentsHold, D!CommentsTrue
<1>4. \A c \in comments' : c.attempt \in Nat /\ c.id \in 1 .. Cardinality(comments')
  BY DEF CommentsHold
<1>5. \A c, d \in comments' : c.id = d.id => c = d
  BY DEF CommentsHold
<1>. QED
  BY <1>1, <1>2, <1>3, <1>4, <1>5 DEF CommentsHold

LEMMA ObserverStays ==
    ASSUME NEW o, ObserverHolds(o), stampAttempts \subseteq stampAttempts',
           UNCHANGED comments \/ o.step # "writing"
    PROVE  ObserverHolds(o)'
BY DEF ObserverHolds

LEMMA NumberOfAttempts ==
    ASSUME D!ConstantsAssumption, StampInv, NEW c, D!Attempt(c) <= MaxAttempts
    PROVE  D!Attempt(c) \in 1 .. MaxAttempts
<1>. DEFINE Of == {a \in stampAttempts : a.sha = c}
<1>1. IsFiniteSet(Of)
  BY FS_Subset DEF StampInv
<1>2. Cardinality(Of) \in Nat
  BY <1>1, FS_CardinalityType
<1>3. D!Cardinality(Of) = Cardinality(Of)
  BY Zenon DEF D!Cardinality, Cardinality
<1>4. D!Attempt(c) = Cardinality(Of) + 1
  BY <1>3 DEF D!Attempt
<1>. QED
  BY <1>2, <1>4 DEF D!ConstantsAssumption

LEMMA CompleteHolds ==
    ASSUME D!ConstantsAssumption, StampInv, NEW c \in Shas, D!Attempt(c) <= MaxAttempts,
           NEW works \in RunJobs, NEW artifact, Single(artifact),
           \A r \in artifact : D!ReadReport(r, c),
           D!Complete(c, works, artifact), selected' \in Shas \cup {0}
    PROVE  StampInv'
<1>. DEFINE new == [sha |-> c, attempt |-> D!Attempt(c), jobs |-> works, artifact |-> artifact]
<1>1. stampAttempts' = stampAttempts \cup {new}
  BY DEF D!Complete
<1>2. RunAttemptHolds(new)
  BY NumberOfAttempts DEF RunAttemptHolds
<1>3. IsFiniteSet(stampAttempts')
  BY <1>1, FS_AddElement DEF StampInv
<1>. HIDE DEF new
<1>4. UNCHANGED <<stampRunning, pending, deliveries, comments>>
  BY DEF D!Complete
<1>5. \A a \in stampAttempts' : RunAttemptHolds(a)
  BY <1>1, <1>2 DEF StampInv
<1>6. CommentsHold'
  BY <1>1, <1>4, CommentsHoldStays DEF StampInv
<1>7. \A o \in stampRunning \cup pending : ObserverHolds(o)'
  BY <1>1, <1>4, ObserverStays DEF StampInv
<1>. QED
  BY <1>3, <1>4, <1>5, <1>6, <1>7 DEF StampInv, Single

LEMMA JobsOfRun ==
    ASSUME NEW b \in Outcomes, NEW f \in Outcomes, NEW o \in Outcomes, NEW d \in Outcomes
    PROVE  D!Jobs(b, f, o, d) \in RunJobs
BY DEF RunJobs

LEMMA UndeployedHolds ==
    ASSUME D!ConstantsAssumption, StampInv, NEW c \in Shas, D!Attempt(c) <= MaxAttempts, D!Undeployed(c)
    PROVE  StampInv'
<1>1. PICK b, f, o \in {"success", "failure", "cancelled"} :
        LET ready == b = "success" /\ f = "success"
            offline == IF ready THEN o ELSE "skipped" IN
        D!Complete(c, D!Jobs(b, f, offline, IF ready /\ o = "success" THEN "cancelled" ELSE "skipped"), {})
  BY Zenon DEF D!Undeployed
<1>2. PICK offline, d \in Outcomes : D!Complete(c, D!Jobs(b, f, offline, d), {})
  BY <1>1 DEF Outcomes
<1>3. D!Jobs(b, f, offline, d) \in RunJobs
  BY JobsOfRun DEF Outcomes
<1>4. selected' \in Shas \cup {0}
  BY DEF D!Undeployed, StampInv
<1>. QED
  BY <1>2, <1>3, <1>4, CompleteHolds DEF Single

LEMMA DeployedHolds ==
    ASSUME D!ConstantsAssumption, StampInv, NEW c \in Shas, D!Attempt(c) <= MaxAttempts, D!Deployed(c)
    PROVE  StampInv'
<1>1. PICK d \in D!Deploys(c), ssh \in {"ok", "broken", "unconfigured"}, kept \in BOOLEAN :
        LET r == D!Sanitized(d.report, c, ssh) IN
        /\ D!Complete(c, D!Jobs("success", "success", "success",
                               IF r.status = "FAIL" THEN "failure" ELSE "success"),
                      IF kept THEN {r} ELSE {})
        /\ selected' = IF ssh = "unconfigured" THEN selected ELSE d.selected
  BY Zenon DEF D!Deployed
<1>. DEFINE r == D!Sanitized(d.report, c, ssh)
            end == IF r.status = "FAIL" THEN "failure" ELSE "success"
            kind == IF kept THEN {r} ELSE {}
<1>2. Honest(c, d)
  BY DeploysAreHonest DEF D!ConstantsAssumption, StampInv
<1>3. D!ReadReport(r, c)
  BY <1>2, SanitizedIsRead DEF Honest
<1>. HIDE DEF r
<1>4. Single(kind) /\ \A q \in kind : D!ReadReport(q, c)
  BY <1>3 DEF Single
<1>5. D!Jobs("success", "success", "success", end) \in RunJobs
  BY JobsOfRun DEF Outcomes
<1>6. selected' \in Shas \cup {0}
  BY <1>1, <1>2 DEF Honest, StampInv
<1>7. D!Complete(c, D!Jobs("success", "success", "success", end), kind)
  BY Zenon, <1>1 DEF r
<1>. HIDE DEF end, kind
<1>. QED
  BY <1>4, <1>5, <1>6, <1>7, CompleteHolds

LEMMA StrangeHolds ==
    ASSUME D!ConstantsAssumption, RawReports, StampInv, NEW c \in Shas, D!Attempt(c) <= MaxAttempts,
           D!Strange(c)
    PROVE  StampInv'
<1>1. PICK raw \in Raw, ssh \in {"ok", "broken"} :
        LET r == D!Sanitized(raw, c, ssh) IN
        D!Complete(c, D!Jobs("success", "success", "success",
                             IF r.status = "FAIL" THEN "failure" ELSE "success"), {r})
  BY Zenon DEF D!Strange
<1>. DEFINE r == D!Sanitized(raw, c, ssh)
            end == IF r.status = "FAIL" THEN "failure" ELSE "success"
<1>2. D!ReadReport(r, c)
  BY SanitizedIsRead DEF RawReports
<1>. HIDE DEF r
<1>3. Single({r}) /\ \A q \in {r} : D!ReadReport(q, c)
  BY <1>2 DEF Single
<1>4. D!Jobs("success", "success", "success", end) \in RunJobs
  BY JobsOfRun DEF Outcomes
<1>5. selected' \in Shas \cup {0}
  BY DEF D!Strange, StampInv
<1>6. D!Complete(c, D!Jobs("success", "success", "success", end), {r})
  BY Zenon, <1>1 DEF r
<1>. HIDE DEF end
<1>. QED
  BY <1>3, <1>4, <1>5, <1>6, CompleteHolds

StampQuiet == UNCHANGED <<selected, stampAttempts, deliveries>>

LEMMA DeliverHolds ==
    ASSUME D!ConstantsAssumption, StampInv, NEW a \in stampAttempts, D!Deliver(a)
    PROVE  StampInv'
<1>1. UNCHANGED <<selected, stampAttempts, comments>> /\ deliveries' \in 0 .. Deliveries
  BY DEF D!Deliver, StampInv, D!ConstantsAssumption
<1>2. CommentsHold'
  BY <1>1, CommentsHoldStays DEF StampInv
<1>3. \A o \in stampRunning \cup pending : ObserverHolds(o)'
  BY <1>1, ObserverStays DEF StampInv
<1>4. ObserverHolds(D!Observer(a))' /\ D!Observer(a).step = "evidence"
  BY <1>1 DEF StampInv, ObserverHolds, D!Observer, RunAttemptHolds
<1>5. stampRunning' \subseteq stampRunning \cup {D!Observer(a)} /\ Single(stampRunning')
  BY DEF D!Deliver, StampInv, Single
<1>6. pending' \subseteq pending \cup {D!Observer(a)} /\ Single(pending')
  BY DEF D!Deliver, StampInv, Single
<1>7. \A o \in stampRunning' \cup pending' : ObserverHolds(o)'
  BY <1>3, <1>4, <1>5, <1>6
<1>8. \A o \in pending' : o.step = "evidence"
  BY <1>4, <1>6 DEF StampInv
<1>. QED
  BY <1>1, <1>2, <1>5, <1>6, <1>7, <1>8 DEF StampInv

LEMMA DoneHolds ==
    ASSUME StampInv, NEW o \in stampRunning, D!Done(o), CommentsHold'
    PROVE  StampInv'
BY ObserverStays DEF D!Done, StampInv, Single, StampQuiet

LEMMA GoesHolds ==
    ASSUME StampInv, NEW o \in stampRunning, NEW step \in {"listing", "writing"}, NEW seen,
           D!Goes(o, step, seen), UNCHANGED comments,
           step = "writing" => seen = {c \in comments : c.sha = o.sha}
    PROVE  StampInv'
<1>. DEFINE new == [o EXCEPT !.step = step, !.seen = seen]
<1>1. stampRunning' = {new} /\ UNCHANGED pending /\ StampQuiet
  BY DEF D!Goes, StampInv, Single, StampQuiet
<1>2. CommentsHold'
  BY <1>1, CommentsHoldStays DEF StampInv, StampQuiet
<1>3. \A p \in pending : ObserverHolds(p)'
  BY <1>1, ObserverStays DEF StampInv, StampQuiet
<1>4. ObserverHolds(new)'
  <2>1. ObserverHolds(o)
    BY DEF StampInv
  <2>2. /\ new \in [sha : Shas, attempt : Nat, step : {"evidence", "listing", "writing"}, seen : {seen}]
        /\ new.sha = o.sha /\ new.attempt = o.attempt /\ new.step = step /\ new.seen = seen
    BY <2>1 DEF ObserverHolds
  <2>. HIDE DEF new
  <2>. QED
    BY <1>1, <2>1, <2>2 DEF ObserverHolds, StampQuiet
<1>. HIDE DEF new
<1>. QED
  BY <1>1, <1>2, <1>3, <1>4 DEF StampInv, StampQuiet, Single

LEMMA LaterIsKnown ==
    ASSUME CommentsHold, NEW o, ObserverHolds(o), o.step = "writing", o.seen # {}
    PROVE  LET latest == CHOOSE c \in o.seen : \A d \in o.seen : D!Later(c, d)
           IN  latest \in comments /\ latest.sha = o.sha /\ \A d \in comments : d.sha = o.sha => d = latest
<1>1. PICK l \in comments : l \in o.seen
  BY DEF ObserverHolds
<1>2. \A d \in o.seen : d = l
  BY <1>1 DEF ObserverHolds, CommentsHold, D!OneComment
<1>3. D!Later(l, l)
  BY <1>1 DEF CommentsHold, D!Later
<1>4. \E c \in o.seen : \A d \in o.seen : D!Later(c, d)
  BY <1>1, <1>2, <1>3
<1>. DEFINE latest == CHOOSE c \in o.seen : \A d \in o.seen : D!Later(c, d)
<1>5. latest \in o.seen
  BY <1>4
<1>. HIDE DEF latest
<1>6. latest \in comments /\ latest.sha = o.sha /\ \A d \in comments : d.sha = o.sha => d = latest
  BY <1>2, <1>5 DEF ObserverHolds
<1>. QED
  BY Zenon, <1>6 DEF latest

\* what an observer writes is what the evidence of its attempt says
LEMMA CommentIsTrue ==
    ASSUME NEW o, ObserverHolds(o), NEW id
    PROVE  \E a \in stampAttempts : /\ a.sha = D!Comment(o, id).sha /\ a.attempt = D!Comment(o, id).attempt
                                  /\ D!DeploymentEvidence(a).status = D!Comment(o, id).status
<1>1. \E a \in stampAttempts : a.sha = o.sha /\ a.attempt = o.attempt
  BY DEF ObserverHolds
<1>. DEFINE mine == CHOOSE a \in stampAttempts : a.sha = o.sha /\ a.attempt = o.attempt
<1>2. mine \in stampAttempts /\ mine.sha = o.sha /\ mine.attempt = o.attempt
  BY <1>1
<1>3. D!Comment(o, id).status = D!DeploymentEvidence(mine).status
  BY DEF D!Comment, D!Status
<1>. HIDE DEF mine
<1>. QED
  BY <1>2, <1>3 DEF D!Comment

LEMMA CommentRewritten ==
    ASSUME CommentsHold, NEW o, ObserverHolds(o), NEW l \in comments, l.sha = o.sha,
           \A d \in comments : d.sha = o.sha => d = l,
           comments' = {c \in comments : c.id # l.id} \cup {D!Comment(o, l.id)},
           UNCHANGED stampAttempts
    PROVE  CommentsHold'
<1>. DEFINE new == D!Comment(o, l.id)
            rest == comments \ {l}
<1>1. new.sha = o.sha /\ new.attempt = o.attempt /\ new.id = l.id
  BY DEF D!Comment
<1>2. \E a \in stampAttempts : a.sha = new.sha /\ a.attempt = new.attempt /\ D!DeploymentEvidence(a).status = new.status
  BY CommentIsTrue
<1>. HIDE DEF new
<1>3. comments' = rest \cup {new}
  BY DEF CommentsHold, new
<1>4. new \notin rest
  BY <1>1
<1>5. IsFiniteSet(rest) /\ Cardinality(rest) = Cardinality(comments) - 1 /\ Cardinality(comments) \in Nat
  BY FS_RemoveElement, FS_CardinalityType DEF CommentsHold
<1>6. IsFiniteSet(comments') /\ Cardinality(comments') = Cardinality(comments)
  <2>1. IsFiniteSet(rest \cup {new}) /\ Cardinality(rest \cup {new}) = Cardinality(rest) + 1
    BY <1>4, <1>5, FS_AddElement
  <2>2. Cardinality(rest) + 1 = Cardinality(comments)
    BY ONLY <1>5
  <2>. QED
    BY <1>3, <2>1, <2>2
<1>7. \A c \in comments' : c.attempt \in Nat /\ c.id \in 1 .. Cardinality(comments')
  BY <1>1, <1>3, <1>6 DEF CommentsHold, ObserverHolds
<1>8. \A c, d \in comments' : c.id = d.id => c = d
  BY <1>1, <1>3 DEF CommentsHold
<1>9. D!OneComment'
  BY <1>1, <1>3 DEF CommentsHold, D!OneComment
<1>10. D!CommentsTrue'
  BY <1>2, <1>3 DEF CommentsHold, D!CommentsTrue
<1>. QED
  BY <1>6, <1>7, <1>8, <1>9, <1>10 DEF CommentsHold

LEMMA CommentAdded ==
    ASSUME CommentsHold, NEW o, ObserverHolds(o), \A d \in comments : d.sha # o.sha,
           comments' = comments \cup {D!Comment(o, D!Cardinality(comments) + 1)},
           UNCHANGED stampAttempts
    PROVE  CommentsHold'
<1>. DEFINE n == Cardinality(comments)
            new == D!Comment(o, n + 1)
<1>0. D!Cardinality(comments) = n
  BY Zenon DEF D!Cardinality, Cardinality
<1>1. new.sha = o.sha /\ new.attempt = o.attempt /\ new.id = n + 1
  BY DEF D!Comment
<1>2. \E a \in stampAttempts : a.sha = new.sha /\ a.attempt = new.attempt /\ D!DeploymentEvidence(a).status = new.status
  BY CommentIsTrue
<1>3. comments' = comments \cup {new}
  BY <1>0
<1>. HIDE DEF new
<1>4. new \notin comments
  BY <1>1
<1>5. n \in Nat
  BY FS_CardinalityType DEF CommentsHold
<1>6. IsFiniteSet(comments') /\ Cardinality(comments') = n + 1
  BY <1>3, <1>4, FS_AddElement DEF CommentsHold
<1>. HIDE DEF n
<1>7. \A c \in comments : c.attempt \in Nat /\ c.id \in 1 .. n
  BY DEF CommentsHold, n
<1>8. \A c \in comments' : c.attempt \in Nat /\ c.id \in 1 .. Cardinality(comments')
  BY <1>1, <1>3, <1>5, <1>6, <1>7 DEF ObserverHolds
<1>9. \A c, d \in comments' : c.id = d.id => c = d
  BY <1>1, <1>3, <1>5, <1>7 DEF CommentsHold
<1>10. D!OneComment'
  BY <1>1, <1>3 DEF CommentsHold, D!OneComment
<1>11. D!CommentsTrue'
  BY <1>2, <1>3 DEF CommentsHold, D!CommentsTrue
<1>. QED
  BY <1>6, <1>8, <1>9, <1>10, <1>11 DEF CommentsHold

LEMMA PublishHolds ==
    ASSUME StampInv, NEW o \in stampRunning, D!Publish(o)
    PROVE  StampInv' /\ D!CommentsAdvance
<1>. DEFINE latest == CHOOSE c \in o.seen : \A d \in o.seen : D!Later(c, d)
<1>1. ObserverHolds(o) /\ o.step = "writing" /\ D!Done(o) /\ CommentsHold
  BY DEF StampInv, D!Publish
<1>2. UNCHANGED stampAttempts
  BY <1>1 DEF D!Done
<1>3. \/ /\ o.seen # {} /\ latest.attempt <= o.attempt
         /\ comments' = {c \in comments : c.id # latest.id} \cup {D!Comment(o, latest.id)}
      \/ o.seen = {} /\ comments' = comments \cup {D!Comment(o, D!Cardinality(comments) + 1)}
      \/ UNCHANGED comments
  BY Zenon DEF D!Publish
<1>4. o.seen # {} => latest \in comments /\ latest.sha = o.sha /\ \A d \in comments : d.sha = o.sha => d = latest
  BY <1>1, LaterIsKnown
<1>. HIDE DEF latest
<1>5. o.seen = {} => \A d \in comments : d.sha # o.sha
  BY <1>1 DEF ObserverHolds
<1>6. CASE o.seen # {} /\ latest.attempt <= o.attempt
             /\ comments' = {c \in comments : c.id # latest.id} \cup {D!Comment(o, latest.id)}
  <2>1. CommentsHold'
    BY <1>1, <1>2, <1>4, <1>6, CommentRewritten
  <2>2. D!CommentsAdvance
    <3>1. \A c \in comments : c.attempt \in Nat
      BY <1>1 DEF CommentsHold
    <3>2. ASSUME NEW c \in comments PROVE \E d \in comments' : d.id = c.id /\ d.attempt >= c.attempt
      <4>1. CASE c.id = latest.id
        <5>1. c = latest
          BY <1>1, <1>4, <1>6, <4>1 DEF CommentsHold
        <5>2. D!Comment(o, latest.id) \in comments' /\ D!Comment(o, latest.id).id = latest.id
              /\ D!Comment(o, latest.id).attempt = o.attempt
          BY <1>6 DEF D!Comment
        <5>3. o.attempt >= latest.attempt
          BY <1>1, <1>6, <5>1, <3>1 DEF ObserverHolds
        <5>. QED
          BY <5>1, <5>2, <5>3
      <4>2. CASE c.id # latest.id
        BY <1>6, <3>1, <4>2
      <4>. QED
        BY <4>1, <4>2
    <3>. QED
      BY <3>2 DEF D!CommentsAdvance
  <2>. QED
    BY <1>1, <2>1, <2>2, DoneHolds
<1>7. CASE o.seen = {} /\ comments' = comments \cup {D!Comment(o, D!Cardinality(comments) + 1)}
  <2>1. CommentsHold'
    BY <1>1, <1>2, <1>5, <1>7, CommentAdded
  <2>2. D!CommentsAdvance
    BY <1>1, <1>7 DEF D!CommentsAdvance, CommentsHold
  <2>. QED
    BY <1>1, <2>1, <2>2, DoneHolds
<1>8. CASE UNCHANGED comments
  BY <1>1, <1>2, <1>8, CommentsHoldStays, DoneHolds DEF D!CommentsAdvance, CommentsHold
<1>. QED
  BY <1>3, <1>6, <1>7, <1>8

LEMMA ObserverHoldsStep ==
    ASSUME D!ConstantsAssumption, StampInv, NEW o \in stampRunning,
           D!Observe(o) \/ D!CommentRecords(o) \/ D!Publish(o) \/ D!Lost(o)
    PROVE  StampInv' /\ D!CommentsAdvance
<1>1. CASE D!Publish(o)
  BY <1>1, PublishHolds
<1>2. ASSUME UNCHANGED comments PROVE D!CommentsAdvance
  BY <1>2 DEF StampInv, CommentsHold, D!CommentsAdvance
<1>3. ASSUME D!Done(o), UNCHANGED comments PROVE StampInv'
  BY <1>3, CommentsHoldStays, DoneHolds DEF StampInv, D!Done
<1>4. CASE D!Observe(o)
  BY <1>2, <1>3, <1>4, GoesHolds DEF D!Observe
<1>5. CASE D!CommentRecords(o)
  BY <1>2, <1>3, <1>5, GoesHolds DEF D!CommentRecords
<1>6. CASE D!Lost(o)
  BY <1>2, <1>3, <1>6 DEF D!Lost
<1>. QED
  BY <1>1, <1>4, <1>5, <1>6

LEMMA StampStarts ==
    ASSUME D!ConstantsAssumption, D!Init PROVE StampInv
BY FS_EmptySet DEF D!ConstantsAssumption, D!Init, StampInv, Single, CommentsHold, D!OneComment, D!CommentsTrue

LEMMA StampStep ==
    ASSUME D!ConstantsAssumption, RawReports, StampInv, [D!Next]_(D!vars)
    PROVE  StampInv' /\ [D!CommentsAdvance]_(D!vars)
<1>1. ASSUME NEW c \in Shas, D!Attempt(c) <= MaxAttempts, D!Undeployed(c) \/ D!Deployed(c) \/ D!Strange(c)
      PROVE  StampInv' /\ UNCHANGED comments
  BY <1>1, UndeployedHolds, DeployedHolds, StrangeHolds, Zenon DEF D!Undeployed, D!Deployed, D!Strange,
     D!Complete
<1>2. ASSUME NEW a \in stampAttempts, D!Deliver(a) PROVE StampInv' /\ UNCHANGED comments
  BY <1>2, DeliverHolds DEF D!Deliver
<1>3. ASSUME NEW o \in stampRunning, D!Observe(o) \/ D!CommentRecords(o) \/ D!Publish(o) \/ D!Lost(o)
      PROVE  StampInv' /\ D!CommentsAdvance
  BY <1>3, ObserverHoldsStep
<1>4. ASSUME UNCHANGED D!vars PROVE StampInv'
  BY <1>4, CommentsHoldStays, ObserverStays DEF D!vars, StampInv, Single
<1>5. ASSUME UNCHANGED comments PROVE D!CommentsAdvance
  BY <1>5 DEF StampInv, CommentsHold, D!CommentsAdvance
<1>. QED
  BY Zenon, <1>1, <1>2, <1>3, <1>4, <1>5 DEF D!Next

\* a run attempt in which everything passed and that reports OK did promote
LEMMA PromotionsStep ==
    ASSUME D!ConstantsAssumption, Raw = {}, StampInv, PromotionsHold, [D!Next]_(D!vars)
    PROVE  PromotionsHold'
<1>1. ASSUME NEW c \in Shas, NEW works, NEW artifact, D!Complete(c, works, artifact), promoted \subseteq promoted',
             (\E r \in artifact : r.status = "PASS" /\ r.reason = "OK") => <<c, D!Attempt(c)>> \in promoted'
      PROVE  PromotionsHold'
  BY <1>1 DEF D!Complete, PromotionsHold, Says
<1>2. ASSUME NEW c \in Shas, D!Undeployed(c) PROVE PromotionsHold'
  <2>1. PICK works : D!Complete(c, works, {})
    BY Zenon, <1>2 DEF D!Undeployed
  <2>2. promoted' = promoted
    BY <1>2 DEF D!Undeployed
  <2>. QED
    BY <1>1, <2>1, <2>2
<1>3. ASSUME NEW c \in Shas, D!Deployed(c) PROVE PromotionsHold'
  <2>1. PICK d \in D!Deploys(c), ssh \in {"ok", "broken", "unconfigured"}, kept \in BOOLEAN :
          /\ \E works : D!Complete(c, works, IF kept THEN {D!Sanitized(d.report, c, ssh)} ELSE {})
          /\ selected' = IF ssh = "unconfigured" THEN selected ELSE d.selected
          /\ promoted' = IF selected' # selected THEN promoted \cup {<<c, D!Attempt(c)>>} ELSE promoted
    BY Zenon, <1>3 DEF D!Deployed
  <2>. DEFINE r == D!Sanitized(d.report, c, ssh)
              kind == IF kept THEN {r} ELSE {}
  <2>2. Honest(c, d)
    BY DeploysAreHonest DEF D!ConstantsAssumption, StampInv
  <2>3. ASSUME r.status = "PASS", r.reason = "OK" PROVE <<c, D!Attempt(c)>> \in promoted'
    BY <2>1, <2>2, <2>3 DEF D!Sanitized, D!Failing, D!BlankReport, Honest
  <2>4. \E works : D!Complete(c, works, kind)
    BY <2>1
  <2>. HIDE DEF r
  <2>5. (\E q \in kind : q.status = "PASS" /\ q.reason = "OK") => <<c, D!Attempt(c)>> \in promoted'
    BY <2>3
  <2>6. promoted \subseteq promoted'
    BY <2>1
  <2>. HIDE DEF kind
  <2>. QED
    BY <1>1, <2>4, <2>5, <2>6
<1>4. ASSUME NEW c \in Shas, D!Strange(c) PROVE FALSE
  BY <1>4 DEF D!Strange
<1>5. ASSUME UNCHANGED <<stampAttempts, promoted>> PROVE PromotionsHold'
  BY <1>5 DEF PromotionsHold
<1>6. ASSUME NEW a \in stampAttempts, D!Deliver(a) PROVE UNCHANGED <<stampAttempts, promoted>>
  BY <1>6 DEF D!Deliver
<1>7. ASSUME NEW o \in stampRunning, D!Observe(o) \/ D!CommentRecords(o) \/ D!Publish(o) \/ D!Lost(o)
      PROVE  UNCHANGED <<stampAttempts, promoted>>
  BY Zenon, <1>7 DEF D!Observe, D!CommentRecords, D!Publish, D!Lost, D!Done, D!Goes
<1>8. ASSUME UNCHANGED D!vars PROVE UNCHANGED <<stampAttempts, promoted>>
  BY <1>8 DEF D!vars
<1>. QED
  BY Zenon, <1>2, <1>3, <1>4, <1>5, <1>6, <1>7, <1>8 DEF D!Next

LEMMA StampIsSound ==
    ASSUME StampInv PROVE D!TypeOK /\ D!SanitizedReadable /\ D!OneComment /\ D!CommentsTrue
<1>1. ASSUME NEW S, Single(S) PROVE D!Cardinality(S) <= 1
  BY <1>1, OneElement, Zenon DEF D!Cardinality, Cardinality
<1>2. D!SanitizedReadable
  BY DEF StampInv, RunAttemptHolds, D!SanitizedReadable
<1>3. \A c \in comments : c.status \in D!Statuses
  BY EvidenceStatus DEF StampInv, CommentsHold, D!CommentsTrue
<1>4. \A a \in stampAttempts : a.sha \in Shas /\ a.attempt \in 1 .. MaxAttempts /\ D!Cardinality(a.artifact) <= 1
  BY <1>1 DEF StampInv, RunAttemptHolds
<1>5. D!Cardinality(stampRunning) <= 1 /\ D!Cardinality(pending) <= 1
  BY <1>1 DEF StampInv
<1>. QED
  BY <1>2, <1>3, <1>4, <1>5 DEF StampInv, CommentsHold, D!TypeOK

LEMMA SuccessIsSelected ==
    ASSUME StampInv, PromotionsHold PROVE D!SuccessMeansSelected
BY EvidenceSuccess DEF StampInv, RunAttemptHolds, PromotionsHold, AllPassed, D!Jobs, D!SuccessMeansSelected

\* What is told of deployments, for any commits, attempts, deliveries and replies: the deploy job and the
\* observer apply one policy, a pull request has one stamped comment, which says what its attempt says.
THEOREM StatusSafety ==
    ASSUME D!ConstantsAssumption, RawReports
    PROVE  D!Spec => [](D!TypeOK /\ D!SanitizedReadable /\ D!OneComment /\ D!CommentsTrue)
<1>1. D!Init => StampInv
  BY StampStarts
<1>2. StampInv /\ [D!Next]_(D!vars) => StampInv'
  BY StampStep
<1>3. StampInv => D!TypeOK /\ D!SanitizedReadable /\ D!OneComment /\ D!CommentsTrue
  BY StampIsSound
<1>. QED
  BY <1>1, <1>2, <1>3, PTL DEF D!Spec

\* A late or repeated delivery never replaces the comment of a later attempt.
THEOREM CommentsOnlyAdvance ==
    ASSUME D!ConstantsAssumption, RawReports
    PROVE  D!Spec => [][D!CommentsAdvance]_(D!vars)
<1>1. D!Init => StampInv
  BY StampStarts
<1>2. StampInv /\ [D!Next]_(D!vars) => StampInv' /\ [D!CommentsAdvance]_(D!vars)
  BY StampStep
<1>. QED
  BY <1>1, <1>2, PTL DEF D!Spec

\* When the controller wrote the reports, SUCCESS is said only of an attempt that itself selected the commit.
THEOREM SuccessSelected ==
    ASSUME D!ConstantsAssumption, Raw = {}
    PROVE  D!Spec => []D!SuccessMeansSelected
<1>1. D!Init => StampInv /\ PromotionsHold
  BY StampStarts DEF D!Init, PromotionsHold
<1>2. StampInv /\ PromotionsHold /\ [D!Next]_(D!vars) => StampInv' /\ PromotionsHold'
  BY StampStep, PromotionsStep DEF RawReports
<1>3. StampInv /\ PromotionsHold => D!SuccessMeansSelected
  BY SuccessIsSelected
<1>. QED
  BY <1>1, <1>2, <1>3, PTL DEF D!Spec

-----------------------------------------------------------------------------
(* One validation (ValidationReport): each stage of the harness knows what was established, *)
(* and what the worker and its parent print is a sound report (Sound).                      *)

CONSTANTS
    MaxCalls, MaxOpens

VARIABLES
    mode, stage, calls, answered, scenario, opens, upstream, failure, cached, listed, held, report

H == INSTANCE ValidationReport

ReportForm ==
    [result : {"PASS", "FAIL", "BLOCKED"}, mode : {"OFFLINE", "LIVE"}, reason : H!Reasons,
     cleanup : {"PENDING", "COMPLETE", "FAILED"}, leak : {"unset", "no", "yes"},
     strategy : {"NOT_RUN", "PASS", "FAIL"}, core : {"NOT_RUN", "PASS", "FAIL"},
     market : {"NOT_RUN", "PASS", "FAIL", "NOT_APPLICABLE"}, replay : {"NOT_RUN", "PASS"},
     compat : {"NOT_RUN", "PASS", "FAIL", "BLOCKED"}, provider : Nat, scenario : Nat, supported : {0, 1},
     replayRequests : {0, 1}, predictions : {0, 1}, targets : {0, 1}, immutable : BOOLEAN,
     identical : BOOLEAN, hash : BOOLEAN]

Opening == {"client", "quotes", "capture", "replay"}
CoreFacts == H!QuoteFacts \cup H!CaptureFacts \cup H!EvidenceFacts \cup H!ReplayFacts

TransportHolds ==
    /\ answered \subseteq H!Endpoints /\ opens \in 0 .. MaxOpens
    /\ scenario \in Seq(H!Endpoints) /\ upstream \in Seq(H!Endpoints) /\ Len(upstream) <= 3
    /\ failure \in {H!NoFailure, "PROVIDER_ERROR", "SECURITY_ERROR", "REQUEST_BUDGET_EXCEEDED"}
    /\ cached \in BOOLEAN /\ listed \in BOOLEAN
    /\ mode = "OFFLINE" => upstream = <<>> /\ failure = H!NoFailure
    /\ mode = "LIVE" => scenario = <<>>

HarnessTyped ==
    /\ mode \in {"OFFLINE", "LIVE"}
    /\ stage \in {"client", "written", "checked", "final"} \cup H!Candidate
    /\ calls \in Seq(H!Endpoints) /\ Len(calls) <= MaxCalls
    /\ report \in ReportForm /\ report.mode = mode

\* nothing was established yet
Fresh(r) ==
    /\ r.result = "FAIL" /\ r.reason = "EXECUTION_ERROR" /\ r.cleanup = "PENDING" /\ r.leak = "unset"
    /\ {r.strategy, r.core, r.market, r.replay, r.compat} = {"NOT_RUN"}
    /\ ~ r.identical /\ r.replayRequests = 0

\* capture and replay were established
Settled(r) ==
    /\ r.core = "PASS" /\ r.replay = "PASS" /\ r.supported = 1 /\ r.predictions = 1 /\ r.targets = 1
    /\ r.hash /\ r.immutable /\ r.identical
    /\ r.reason = "EXECUTION_ERROR" /\ r.result = "FAIL" /\ r.strategy = "NOT_RUN" /\ r.cleanup = "PENDING"
    /\ r.leak = "unset" /\ r.compat = "NOT_RUN" /\ r.replayRequests = 0

\* what a PASS needs, but for the requests of a LIVE run
Deserved ==
    /\ CoreFacts \subseteq held
    /\ mode = "OFFLINE" => scenario = H!Exactly /\ H!StrategyFacts \subseteq held
                           /\ (report.market = "PASS" => H!MarketFacts \subseteq held)

StageHolds ==
    /\ stage \in Opening => Fresh(report)
    /\ stage \in {"capture", "replay", "market", "strategy"} =>
          /\ H!QuoteFacts \subseteq held /\ Len(calls) >= 3
          /\ mode = "OFFLINE" => scenario = H!Exactly
    /\ stage \in {"replay", "market", "strategy"} => H!CaptureFacts \cup H!EvidenceFacts \subseteq held
    /\ stage \in {"market", "strategy"} =>
          mode = "OFFLINE" /\ Settled(report) /\ H!ReplayFacts \subseteq held
    /\ stage = "market" => report.market = "NOT_RUN"
    /\ stage = "strategy" =>
          /\ report.market \in {"NOT_APPLICABLE", "PASS"}
          /\ report.market = "PASS" => H!MarketFacts \subseteq held
    /\ stage = "written" => (Len(calls) <= 3 => H!CheckedReport(report))
    /\ stage = "written" => report.leak = "unset" /\ report.cleanup = "PENDING"
    /\ stage \in {"written", "checked", "final"} /\ report.result = "PASS" => Deserved
    /\ stage \in {"checked", "final"} =>
          /\ H!CheckedReport(report)
          /\ report.result # "FAIL" => failure = H!NoFailure
          /\ report.result = "PASS" =>
                /\ report.cleanup = "COMPLETE" /\ report.leak = "yes"
                /\ mode = "LIVE" => upstream = H!Exactly
    /\ stage = "checked" /\ failure = "SECURITY_ERROR" => report.reason \in {"SECURITY_ERROR", "CLEANUP_FAILED"}

HarnessInv == HarnessTyped /\ TransportHolds /\ StageHolds

LEMMA BlankHolds ==
    ASSUME NEW m \in {"OFFLINE", "LIVE"}, NEW reason \in H!Reasons
    PROVE  /\ H!BlankReport(m, reason) \in ReportForm /\ H!BlankReport(m, reason).mode = m
           /\ H!BlankReport(m, reason).reason = reason
           /\ reason = "EXECUTION_ERROR" => Fresh(H!BlankReport(m, reason))
           /\ reason # "COMPLETE" => H!CheckedReport(H!BlankReport(m, reason))
           /\ H!BlankReport(m, reason).result = "FAIL" /\ H!BlankReport(m, reason).leak = "unset"
           /\ H!BlankReport(m, reason).cleanup = "PENDING"
<1>. DEFINE b == H!BlankReport(m, reason)
<1>1. b \in ReportForm
  BY DEF H!BlankReport, ReportForm
<1>2. /\ b.mode = m /\ b.reason = reason /\ b.result = "FAIL" /\ b.leak = "unset" /\ b.cleanup = "PENDING"
      /\ b.strategy = "NOT_RUN" /\ b.core = "NOT_RUN" /\ b.market = "NOT_RUN" /\ b.replay = "NOT_RUN"
      /\ b.compat = "NOT_RUN" /\ b.provider = 0 /\ b.scenario = 0 /\ b.identical = FALSE /\ b.replayRequests = 0
  BY DEF H!BlankReport
<1>. HIDE DEF b
<1>3. reason = "EXECUTION_ERROR" => Fresh(b)
  BY <1>2 DEF Fresh
<1>4. reason # "COMPLETE" => H!CheckedReport(b)
  BY <1>2 DEF H!CheckedReport, H!ModeConsistent, H!OutcomeConsistent, H!BlockedConsistent, H!StagesConsistent,
       H!PassConsistent, H!Components, H!LIVE_BUDGET
<1>. QED
  BY <1>1, <1>2, <1>3, <1>4 DEF b

LEMMA CountedHolds ==
    ASSUME NEW r \in ReportForm, calls \in Seq(H!Endpoints), scenario \in Seq(H!Endpoints),
           NEW w, w = H!Counted(r)
    PROVE  /\ w \in ReportForm /\ w.mode = r.mode /\ w.result = r.result /\ w.reason = r.reason
           /\ w.cleanup = r.cleanup /\ w.leak = r.leak /\ w.strategy = r.strategy /\ w.core = r.core
           /\ w.market = r.market /\ w.replay = r.replay /\ w.compat = r.compat /\ w.supported = r.supported
           /\ w.predictions = r.predictions /\ w.targets = r.targets /\ w.immutable = r.immutable
           /\ w.identical = r.identical /\ w.hash = r.hash
           /\ w.provider = (IF mode = "LIVE" THEN Len(calls) ELSE 0) /\ w.scenario = Len(scenario)
           /\ w.replayRequests = (IF stage = "replay" /\ "replay: no request" \notin held' THEN 1 ELSE 0)
<1>. DEFINE p == IF mode = "LIVE" THEN Len(calls) ELSE 0
            q == IF stage = "replay" /\ "replay: no request" \notin held' THEN 1 ELSE 0
<1>1. p \in Nat /\ Len(scenario) \in Nat /\ q \in {0, 1}
  OBVIOUS
<1>2. w = [r EXCEPT !.provider = p, !.scenario = Len(scenario), !.replayRequests = q]
  BY DEF H!Counted
<1>. HIDE DEF p, q
<1>3. w \in ReportForm
  BY ZenonT(60), <1>1, <1>2 DEF ReportForm
<1>4. /\ w.mode = r.mode /\ w.result = r.result /\ w.reason = r.reason
      /\ w.cleanup = r.cleanup /\ w.leak = r.leak /\ w.strategy = r.strategy /\ w.core = r.core
      /\ w.market = r.market /\ w.replay = r.replay /\ w.compat = r.compat /\ w.supported = r.supported
      /\ w.predictions = r.predictions /\ w.targets = r.targets /\ w.immutable = r.immutable
      /\ w.identical = r.identical /\ w.hash = r.hash
  BY <1>2 DEF ReportForm
<1>5. w.provider = p /\ w.scenario = Len(scenario) /\ w.replayRequests = q
  BY <1>2 DEF ReportForm
<1>. QED
  BY Zenon, <1>3, <1>4, <1>5 DEF p, q

LEMMA FailedHolds ==
    ASSUME HarnessTyped, TransportHolds, Fresh(report), NEW reason \in H!Reasons \ {"COMPLETE"},
           NEW w, w = H!Counted(H!Failed(reason))
    PROVE  /\ w \in ReportForm /\ w.mode = mode /\ w.leak = "unset" /\ w.cleanup = "PENDING" /\ w.result = "FAIL"
           /\ Len(calls) <= 3 => H!CheckedReport(w)
<1>. DEFINE c == IF mode = "LIVE" THEN "FAIL" ELSE "NOT_RUN"
<1>1. PICK r : r = [report EXCEPT !.result = "FAIL", !.reason = reason, !.core = "FAIL", !.compat = c]
  OBVIOUS
<1>9. w = H!Counted(r)
  BY <1>1 DEF H!Failed
<1>2. c \in {"NOT_RUN", "FAIL"} /\ (mode = "OFFLINE" => c = "NOT_RUN")
  OBVIOUS
<1>. HIDE DEF c
<1>3. r \in ReportForm
  <2>1. report \in ReportForm /\ reason \in H!Reasons
    BY DEF HarnessTyped
  <2>2. c \in {"NOT_RUN", "FAIL"}
    BY <1>2
  <2>3. PICK p : p = [report EXCEPT !.result = "FAIL", !.reason = reason]
    OBVIOUS
  <2>4. p \in ReportForm
    BY ONLY <2>1, <2>3 DEF ReportForm
  <2>5. r = [p EXCEPT !.core = "FAIL", !.compat = c]
    BY ONLY <1>1, <2>1, <2>3 DEF ReportForm
  <2>. QED
    BY ONLY ZenonT(60), <2>2, <2>4, <2>5 DEF ReportForm
<1>4. /\ r.result = "FAIL" /\ r.reason = reason /\ r.core = "FAIL" /\ r.compat = c
      /\ r.mode = report.mode /\ r.cleanup = report.cleanup /\ r.leak = report.leak
      /\ r.strategy = report.strategy /\ r.market = report.market /\ r.replay = report.replay
      /\ r.identical = report.identical
  BY <1>1 DEF ReportForm, HarnessTyped
<1>5. /\ report.mode = mode /\ report.cleanup = "PENDING" /\ report.leak = "unset"
      /\ report.strategy = "NOT_RUN" /\ report.market = "NOT_RUN" /\ report.replay = "NOT_RUN"
      /\ ~ report.identical
  BY DEF Fresh, HarnessTyped
<1>6. /\ w \in ReportForm /\ w.mode = r.mode /\ w.result = r.result /\ w.reason = r.reason
      /\ w.cleanup = r.cleanup /\ w.leak = r.leak /\ w.strategy = r.strategy /\ w.core = r.core
      /\ w.market = r.market /\ w.replay = r.replay /\ w.compat = r.compat /\ w.identical = r.identical
      /\ w.provider = (IF mode = "LIVE" THEN Len(calls) ELSE 0) /\ w.scenario = Len(scenario)
  BY ZenonT(60), <1>3, <1>9, CountedHolds DEF HarnessTyped, TransportHolds
<1>0. mode = "OFFLINE" \/ (mode = "LIVE" /\ Len(scenario) = 0)
  BY DEF HarnessTyped, TransportHolds
<1>7. ASSUME Len(calls) <= 3 PROVE H!CheckedReport(w)
  <2>1. w.scenario = 0 \/ mode = "OFFLINE"
    BY <1>0, <1>6
  <2>2. H!ModeConsistent(w)
    BY <1>2, <1>4, <1>5, <1>6, <1>7, <2>1 DEF H!ModeConsistent, H!LIVE_BUDGET
  <2>3. H!OutcomeConsistent(w) /\ H!BlockedConsistent(w) /\ H!StagesConsistent(w) /\ H!PassConsistent(w)
    BY <1>2, <1>4, <1>5, <1>6 DEF H!OutcomeConsistent, H!BlockedConsistent, H!StagesConsistent, H!PassConsistent
  <2>. QED
    BY <2>2, <2>3 DEF H!CheckedReport
<1>. QED
  BY <1>4, <1>5, <1>6, <1>7

LEMMA NothingHolds ==
    ASSUME HarnessTyped, TransportHolds, Fresh(report),
           NEW reason \in {"NO_ELIGIBLE_FIXTURE", "NO_TEAM_TOTALS", "INSUFFICIENT_HISTORY"},
           NEW w, w = H!Counted([report EXCEPT !.result = IF mode = "LIVE" THEN "BLOCKED" ELSE "FAIL",
                                               !.reason = reason,
                                               !.compat = IF mode = "LIVE" THEN "BLOCKED" ELSE "NOT_RUN"])
    PROVE  /\ w \in ReportForm /\ w.mode = mode /\ w.leak = "unset" /\ w.cleanup = "PENDING" /\ w.result # "PASS"
           /\ Len(calls) <= 3 => H!CheckedReport(w)
<1>. DEFINE e == IF mode = "LIVE" THEN "BLOCKED" ELSE "FAIL"
            c == IF mode = "LIVE" THEN "BLOCKED" ELSE "NOT_RUN"
<1>0. PICK r : r = [report EXCEPT !.result = e, !.reason = reason, !.compat = c]
  OBVIOUS
<1>1. /\ e \in {"BLOCKED", "FAIL"} /\ c \in {"NOT_RUN", "BLOCKED"} /\ reason \in H!Reasons /\ reason # "COMPLETE"
      /\ mode = "OFFLINE" => c = "NOT_RUN" /\ e = "FAIL"
  BY DEF H!Reasons
<1>2. w = H!Counted(r)
  BY <1>0
<1>. HIDE DEF c, e
<1>3. r \in ReportForm
  <2>1. report \in ReportForm
    BY DEF HarnessTyped
  <2>2. PICK p : p = [report EXCEPT !.result = e, !.reason = reason]
    OBVIOUS
  <2>3. p \in ReportForm
    BY ONLY <1>1, <2>1, <2>2 DEF ReportForm
  <2>4. r = [p EXCEPT !.compat = c]
    BY ONLY <1>0, <2>1, <2>2 DEF ReportForm
  <2>5. e \in {"BLOCKED", "FAIL"} /\ c \in {"NOT_RUN", "BLOCKED"}
    BY <1>1
  <2>. QED
    BY ONLY <2>5, <2>3, <2>4 DEF ReportForm
<1>4. /\ r.result = e /\ r.reason = reason /\ r.core = report.core /\ r.compat = c
      /\ r.mode = report.mode /\ r.cleanup = report.cleanup /\ r.leak = report.leak
      /\ r.strategy = report.strategy /\ r.market = report.market /\ r.replay = report.replay
      /\ r.identical = report.identical
  BY <1>0 DEF ReportForm, HarnessTyped
<1>5. /\ report.mode = mode /\ report.cleanup = "PENDING" /\ report.leak = "unset" /\ report.core = "NOT_RUN"
      /\ report.strategy = "NOT_RUN" /\ report.market = "NOT_RUN" /\ report.replay = "NOT_RUN"
      /\ ~ report.identical
  BY DEF Fresh, HarnessTyped
<1>6. /\ w \in ReportForm /\ w.mode = r.mode /\ w.result = r.result /\ w.reason = r.reason
      /\ w.cleanup = r.cleanup /\ w.leak = r.leak /\ w.strategy = r.strategy /\ w.core = r.core
      /\ w.market = r.market /\ w.replay = r.replay /\ w.compat = r.compat /\ w.identical = r.identical
      /\ w.provider = (IF mode = "LIVE" THEN Len(calls) ELSE 0) /\ w.scenario = Len(scenario)
  BY ZenonT(60), <1>2, <1>3, CountedHolds DEF HarnessTyped, TransportHolds
<1>7. mode = "OFFLINE" \/ (mode = "LIVE" /\ Len(scenario) = 0)
  BY DEF HarnessTyped, TransportHolds
<1>8. ASSUME Len(calls) <= 3 PROVE H!CheckedReport(w)
  <2>2. H!ModeConsistent(w)
    BY <1>1, <1>4, <1>5, <1>6, <1>7, <1>8 DEF H!ModeConsistent, H!LIVE_BUDGET
  <2>3. H!OutcomeConsistent(w) /\ H!StagesConsistent(w) /\ H!PassConsistent(w)
    BY <1>1, <1>4, <1>5, <1>6 DEF H!OutcomeConsistent, H!Components, H!StagesConsistent, H!PassConsistent
  <2>4. H!BlockedConsistent(w)
    BY <1>1, <1>4, <1>5, <1>6 DEF H!BlockedConsistent
  <2>. QED
    BY <2>2, <2>3, <2>4 DEF H!CheckedReport
<1>. QED
  BY <1>1, <1>4, <1>5, <1>6, <1>8

LEMMA WrittenHolds ==
    ASSUME HarnessInv, report' \in ReportForm, report'.mode = mode, report'.leak = "unset", report'.cleanup = "PENDING",
           stage' = "written", UNCHANGED <<mode, calls, H!transport>>,
           Len(calls) <= 3 => H!CheckedReport(report'),
           report'.result = "PASS" => Deserved'
    PROVE  HarnessInv'
BY DEF HarnessInv, HarnessTyped, H!Candidate, TransportHolds, H!transport, StageHolds, Opening

\* a step of a stage that goes on
LEMMA StageGoesOn ==
    ASSUME HarnessInv, UNCHANGED <<mode, calls, H!transport>>, stage' \in H!Candidate,
           report' \in ReportForm, report'.mode = mode, StageHolds'
    PROVE  HarnessInv'
BY DEF HarnessInv, HarnessTyped, TransportHolds, H!transport

LEMMA RaisesHolds ==
    ASSUME HarnessInv, H!Raises PROVE HarnessInv'
<1>1. PICK reason \in {"PROVIDER_ERROR", "ASSERTION_FAILED", "EXECUTION_ERROR",
                    "SECURITY_ERROR", "CLIENT_INTERFACE_CHANGED",
                    "OFFLINE_SCENARIO_INVALID", "HISTORY_UNAVAILABLE"} : H!Write(H!Failed(reason))
  BY Zenon DEF H!Raises
<1>2. Fresh(report) /\ UNCHANGED <<mode, calls, H!transport>>
  BY DEF H!Raises, HarnessInv, StageHolds, Opening
<1>3. reason \in H!Reasons \ {"COMPLETE"}
  BY DEF H!Reasons
<1>4. stage' = "written" /\ report' = H!Counted(H!Failed(reason))
  BY <1>1 DEF H!Write
<1>. QED
  BY <1>2, <1>3, <1>4, FailedHolds, WrittenHolds DEF HarnessInv

LEMMA ExitsHolds ==
    ASSUME HarnessInv, H!Exits PROVE HarnessInv'
BY BlankHolds, WrittenHolds DEF H!Exits, H!Reasons, HarnessInv, HarnessTyped

LEMMA NothingEnds ==
    ASSUME HarnessInv, Fresh(report), UNCHANGED <<mode, calls, H!transport>>,
           NEW reason \in {"NO_ELIGIBLE_FIXTURE", "NO_TEAM_TOTALS", "INSUFFICIENT_HISTORY"}, H!Nothing(reason)
    PROVE  HarnessInv'
<1>1. stage' = "written"
  BY DEF H!Nothing, H!Write
<1>2. report' = H!Counted([report EXCEPT !.result = IF mode = "LIVE" THEN "BLOCKED" ELSE "FAIL",
                                               !.reason = reason,
                                               !.compat = IF mode = "LIVE" THEN "BLOCKED" ELSE "NOT_RUN"])
  BY Zenon DEF H!Nothing, H!Write
<1>3. HarnessTyped /\ TransportHolds
  BY DEF HarnessInv
<1>4. /\ report' \in ReportForm /\ report'.mode = mode /\ report'.leak = "unset" /\ report'.cleanup = "PENDING"
      /\ report'.result # "PASS"
      /\ Len(calls) <= 3 => H!CheckedReport(report')
  BY <1>2, <1>3, NothingHolds
<1>. QED
  BY <1>1, <1>4, WrittenHolds

LEMMA FailureEnds ==
    ASSUME HarnessInv, Fresh(report), UNCHANGED <<mode, calls, H!transport>>,
           H!Write(H!Failed("ASSERTION_FAILED"))
    PROVE  HarnessInv'
BY Zenon, FailedHolds, WrittenHolds DEF H!Write, H!Reasons, HarnessInv

LEMMA FixturesHolds ==
    ASSUME HarnessInv, H!Fixtures PROVE HarnessInv'
BY StageGoesOn, NothingEnds DEF H!Fixtures, HarnessInv, StageHolds, Opening, Fresh, HarnessTyped, H!Candidate

LEMMA QuotesHolds ==
    ASSUME HarnessInv, H!Quotes PROVE HarnessInv'
<1>1. Fresh(report) /\ UNCHANGED <<mode, calls, H!transport>>
  BY DEF H!Quotes, HarnessInv, StageHolds, Opening
<1>2. CASE H!Write(H!Failed("ASSERTION_FAILED"))
  BY <1>1, <1>2, FailureEnds
<1>3. CASE H!Nothing("NO_TEAM_TOTALS")
  BY <1>1, <1>3, NothingEnds
<1>4. CASE /\ calls = H!Exactly /\ H!VerifyQuoteSource(held') /\ (mode = "OFFLINE" => scenario = H!Exactly)
           /\ stage' = "capture" /\ UNCHANGED report
  <2>1. Len(calls) >= 3
    BY <1>4 DEF H!Exactly
  <2>2. StageHolds'
    BY <1>1, <1>4, <2>1 DEF StageHolds, Fresh, H!VerifyQuoteSource, H!transport
  <2>. QED
    BY <1>1, <1>4, <2>2, StageGoesOn DEF HarnessInv, HarnessTyped, H!Candidate
<1>. QED
  BY Zenon, <1>2, <1>3, <1>4 DEF H!Quotes

LEMMA CaptureHolds ==
    ASSUME HarnessInv, H!Capture PROVE HarnessInv'
<1>1. Fresh(report) /\ UNCHANGED <<mode, calls, H!transport>> /\ stage = "capture"
  BY DEF H!Capture, HarnessInv, StageHolds, Opening
<1>2. CASE H!Write(H!Failed("ASSERTION_FAILED"))
  BY <1>1, <1>2, FailureEnds
<1>3. CASE H!Nothing("INSUFFICIENT_HISTORY")
  BY <1>1, <1>3, NothingEnds
<1>4. CASE /\ H!VerifyCapture(held') /\ H!VerifyMaterializedEvidence(held') /\ stage' = "replay" /\ UNCHANGED report
           /\ held \subseteq held'
  <2>2. StageHolds'
    BY <1>1, <1>4 DEF HarnessInv, StageHolds, H!VerifyCapture, H!VerifyMaterializedEvidence, Fresh,
       H!transport
  <2>. QED
    BY <1>1, <1>4, <2>2, StageGoesOn DEF HarnessInv, HarnessTyped, H!Candidate
<1>5. held \subseteq held'
  BY DEF H!Capture
<1>. QED
  BY Zenon, <1>2, <1>3, <1>4, <1>5 DEF H!Capture

\* the report once capture and replay hold
LEMMA EstablishedHolds ==
    ASSUME HarnessTyped, Fresh(report), NEW r, r = H!Established
    PROVE  /\ r \in ReportForm /\ r.mode = mode /\ r.core = "PASS" /\ r.replay = "PASS" /\ r.supported = 1
           /\ r.predictions = 1 /\ r.targets = 1 /\ r.hash /\ r.immutable /\ r.identical
           /\ r.reason = "EXECUTION_ERROR" /\ r.result = "FAIL" /\ r.strategy = "NOT_RUN"
           /\ r.market = "NOT_RUN" /\ r.cleanup = "PENDING" /\ r.leak = "unset"
           /\ r.compat = (IF mode = "LIVE" THEN "PASS" ELSE "NOT_RUN") /\ r.replayRequests = report.replayRequests
<1>. DEFINE c == IF mode = "LIVE" THEN "PASS" ELSE "NOT_RUN"
<1>0. c \in {"NOT_RUN", "PASS"}
  OBVIOUS
<1>. HIDE DEF c
<1>1. r = [report EXCEPT !.core = "PASS", !.replay = "PASS", !.compat = c,
                         !.supported = 1, !.predictions = 1, !.targets = 1,
                         !.hash = TRUE, !.immutable = TRUE, !.identical = TRUE]
  BY Zenon DEF H!Established, c
<1>2. report \in ReportForm /\ report.mode = mode
  BY DEF HarnessTyped
<1>3. r \in ReportForm
  BY ONLY ZenonT(60), <1>0, <1>1, <1>2 DEF ReportForm
<1>4. /\ r.mode = report.mode /\ r.core = "PASS" /\ r.replay = "PASS" /\ r.supported = 1
      /\ r.predictions = 1 /\ r.targets = 1 /\ r.hash /\ r.immutable /\ r.identical
  BY ONLY <1>0, <1>1, <1>2 DEF ReportForm
<1>5. /\ r.reason = report.reason /\ r.result = report.result /\ r.strategy = report.strategy
      /\ r.market = report.market /\ r.cleanup = report.cleanup /\ r.leak = report.leak
      /\ r.compat = c /\ r.replayRequests = report.replayRequests
  BY ONLY <1>0, <1>1, <1>2 DEF ReportForm
<1>6. /\ report.reason = "EXECUTION_ERROR" /\ report.result = "FAIL" /\ report.strategy = "NOT_RUN"
      /\ report.market = "NOT_RUN" /\ report.cleanup = "PENDING" /\ report.leak = "unset"
  BY DEF Fresh
<1>. QED
  BY <1>2, <1>3, <1>4, <1>5, <1>6 DEF c

LEMMA ReplayHolds ==
    ASSUME HarnessInv, H!Replay PROVE HarnessInv'
<1>1. /\ Fresh(report) /\ UNCHANGED <<mode, calls, H!transport>> /\ stage = "replay" /\ held \subseteq held'
      /\ H!QuoteFacts \subseteq held /\ Len(calls) >= 3 /\ (mode = "OFFLINE" => scenario = H!Exactly)
      /\ H!CaptureFacts \cup H!EvidenceFacts \subseteq held
  BY DEF H!Replay, HarnessInv, StageHolds, Opening
<1>2. HarnessTyped /\ TransportHolds /\ mode \in {"OFFLINE", "LIVE"}
  BY DEF HarnessInv, HarnessTyped
<1>3. CASE H!Write(H!Failed("ASSERTION_FAILED"))
  BY <1>1, <1>3, FailureEnds
<1>4. PICK est : est = H!Established
  OBVIOUS
<1>5. /\ est \in ReportForm /\ est.mode = mode /\ est.core = "PASS" /\ est.replay = "PASS" /\ est.supported = 1
      /\ est.predictions = 1 /\ est.targets = 1 /\ est.hash /\ est.immutable /\ est.identical
      /\ est.reason = "EXECUTION_ERROR" /\ est.result = "FAIL" /\ est.strategy = "NOT_RUN"
      /\ est.market = "NOT_RUN" /\ est.cleanup = "PENDING" /\ est.leak = "unset"
      /\ est.compat = (IF mode = "LIVE" THEN "PASS" ELSE "NOT_RUN") /\ est.replayRequests = 0
  BY <1>1, <1>2, <1>4, EstablishedHolds DEF Fresh
<1>6. CASE H!ReplayIdentical(held') /\ mode = "LIVE" /\ H!Write([H!Established EXCEPT !.result = "PASS", !.reason = "COMPLETE"])
  <2>1. PICK r : r = [est EXCEPT !.result = "PASS", !.reason = "COMPLETE"]
    OBVIOUS
  <2>2. "COMPLETE" \in H!Reasons
    BY DEF H!Reasons
  <2>3. r \in ReportForm
    <3>1. PICK q : q = [est EXCEPT !.reason = "COMPLETE"]
      OBVIOUS
    <3>2. q \in ReportForm
      BY ONLY <1>5, <2>2, <3>1 DEF ReportForm
    <3>3. r = [q EXCEPT !.result = "PASS"]
      BY ONLY <1>5, <2>1, <3>1 DEF ReportForm
    <3>. QED
      BY ONLY <3>2, <3>3 DEF ReportForm
  <2>4. /\ r.mode = est.mode /\ r.core = est.core /\ r.replay = est.replay /\ r.supported = est.supported
        /\ r.predictions = est.predictions /\ r.targets = est.targets /\ r.hash = est.hash
        /\ r.immutable = est.immutable /\ r.identical = est.identical /\ r.strategy = est.strategy
        /\ r.market = est.market /\ r.cleanup = est.cleanup /\ r.leak = est.leak /\ r.compat = est.compat
        /\ r.result = "PASS" /\ r.reason = "COMPLETE"
    BY ONLY ZenonT(60), <1>5, <2>1, <2>2 DEF ReportForm
  <2>5. PICK w : w = H!Counted(r)
    OBVIOUS
  <2>6. report' = w /\ stage' = "written"
    BY <1>4, <1>6, <2>1, <2>5 DEF H!Write
  <2>7. /\ w \in ReportForm /\ w.mode = r.mode /\ w.result = r.result /\ w.reason = r.reason
        /\ w.cleanup = r.cleanup /\ w.leak = r.leak /\ w.strategy = r.strategy /\ w.core = r.core
        /\ w.market = r.market /\ w.replay = r.replay /\ w.compat = r.compat /\ w.supported = r.supported
        /\ w.predictions = r.predictions /\ w.targets = r.targets /\ w.immutable = r.immutable
        /\ w.identical = r.identical /\ w.hash = r.hash /\ w.provider = Len(calls) /\ w.scenario = Len(scenario)
        /\ w.replayRequests = (IF stage = "replay" /\ "replay: no request" \notin held' THEN 1 ELSE 0)
    BY ZenonT(60), <1>2, <1>6, <2>3, <2>5, CountedHolds DEF HarnessTyped, TransportHolds
  <2>8. H!ReplayFacts \subseteq held' /\ "replay: no request" \in held'
    BY <1>6 DEF H!ReplayIdentical, H!ReplayFacts
  <2>9. w.replayRequests = 0 /\ Len(scenario) = 0
    BY <1>2, <1>6, <2>7, <2>8 DEF TransportHolds
  <2>10. ASSUME Len(calls) <= 3 PROVE H!CheckedReport(w)
    <3>0. calls \in Seq(H!Endpoints)
      BY <1>2 DEF HarnessTyped
    <3>6. Len(calls) \in Nat /\ Len(calls) >= 3
      BY <1>1, <3>0
    <3>1. Len(calls) = 3
      BY ONLY <2>10, <3>6
    <3>5. /\ w.mode = "LIVE" /\ w.provider = 3 /\ w.scenario = 0 /\ w.compat = "PASS"
          /\ w.market = "NOT_RUN" /\ w.strategy = "NOT_RUN" /\ w.core = "PASS" /\ w.replay = "PASS"
          /\ w.cleanup = "PENDING" /\ w.leak = "unset" /\ w.result = "PASS" /\ w.reason = "COMPLETE"
          /\ w.immutable /\ w.identical /\ w.hash /\ w.predictions = 1 /\ w.targets = 1 /\ w.supported = 1
          /\ w.replayRequests = 0
      <4>1. /\ w.mode = "LIVE" /\ w.provider = 3 /\ w.scenario = 0 /\ w.compat = "PASS" /\ w.replayRequests = 0
        <5>1. est.mode = "LIVE" /\ est.compat = "PASS"
          BY <1>5, <1>6
        <5>2. w.mode = est.mode /\ w.compat = est.compat
          BY ONLY <2>4, <2>7
        <5>3. w.provider = 3
          BY <2>7, <3>1
        <5>4. w.scenario = 0
          BY <2>7, <2>9
        <5>. QED
          BY <2>9, <5>1, <5>2, <5>3, <5>4
      <4>2. /\ w.market = "NOT_RUN" /\ w.strategy = "NOT_RUN" /\ w.core = "PASS" /\ w.replay = "PASS"
            /\ w.cleanup = "PENDING" /\ w.leak = "unset" /\ w.result = "PASS" /\ w.reason = "COMPLETE"
            /\ w.predictions = 1 /\ w.targets = 1 /\ w.supported = 1
        BY ONLY ZenonT(60), <1>5, <2>4, <2>7
      <4>3. w.immutable /\ w.identical /\ w.hash
        BY Zenon, <1>5, <2>4, <2>7
      <4>. QED
        BY <4>1, <4>2, <4>3
    <3>2. H!ModeConsistent(w) /\ H!OutcomeConsistent(w)
      BY <3>5 DEF H!ModeConsistent, H!OutcomeConsistent, H!Components, H!LIVE_BUDGET
    <3>3. H!BlockedConsistent(w) /\ H!StagesConsistent(w)
      BY <1>5, <2>4, <2>7 DEF H!BlockedConsistent, H!StagesConsistent
    <3>4. H!PassConsistent(w)
      BY <3>5 DEF H!PassConsistent, H!LIVE_BUDGET
    <3>. QED
      BY <3>2, <3>3, <3>4 DEF H!CheckedReport
  <2>11. Deserved'
    BY <1>1, <1>6, <2>8 DEF Deserved, CoreFacts
  <2>. QED
    BY <1>1, <1>5, <2>4, <2>6, <2>7, <2>10, <2>11, WrittenHolds
<1>7. CASE H!ReplayIdentical(held') /\ mode # "LIVE" /\ stage' = "market" /\ report' = H!Established
  <2>1. Settled(est)
    BY <1>2, <1>5, <1>7 DEF Settled
  <2>2. H!ReplayFacts \subseteq held' /\ H!QuoteFacts \subseteq held' /\ H!CaptureFacts \cup H!EvidenceFacts \subseteq held'
    BY <1>1, <1>7 DEF H!ReplayIdentical
  <2>3. UNCHANGED <<mode, calls, scenario>>
    BY <1>1 DEF H!transport
  <2>4. StageHolds'
    BY <1>1, <1>2, <1>4, <1>5, <1>7, <2>1, <2>2, <2>3 DEF StageHolds, Opening
  <2>. QED
    BY <1>1, <1>4, <1>5, <1>7, <2>4, StageGoesOn DEF H!Candidate
<1>8. \/ H!Write(H!Failed("ASSERTION_FAILED"))
      \/ H!ReplayIdentical(held') /\ mode = "LIVE" /\ H!Write([H!Established EXCEPT !.result = "PASS", !.reason = "COMPLETE"])
      \/ H!ReplayIdentical(held') /\ mode # "LIVE" /\ stage' = "market" /\ report' = H!Established
  BY Zenon DEF H!Replay
<1>. QED
  BY <1>3, <1>6, <1>7, <1>8

\* the report of an OFFLINE run after the replay: one more word, and the counts
LEMMA LateReport ==
    ASSUME HarnessTyped, TransportHolds, Settled(report), mode = "OFFLINE", stage # "replay", scenario = H!Exactly,
           NEW r \in ReportForm, NEW w, w = H!Counted(r),
           r.mode = report.mode, r.core = report.core, r.replay = report.replay, r.supported = report.supported,
           r.predictions = report.predictions, r.targets = report.targets, r.hash = report.hash,
           r.immutable = report.immutable, r.identical = report.identical, r.cleanup = report.cleanup,
           r.leak = report.leak, r.compat = report.compat,
           r.result = "PASS" => /\ r.strategy = "PASS" /\ r.market \in {"PASS", "NOT_APPLICABLE"}
                                /\ r.reason = "COMPLETE",
           r.result # "PASS" => r.result = "FAIL" /\ r.reason # "COMPLETE"
    PROVE  /\ w \in ReportForm /\ w.mode = mode /\ w.leak = "unset" /\ w.cleanup = "PENDING" /\ w.result = r.result
           /\ w.market = r.market /\ H!CheckedReport(w)
<1>1. /\ w \in ReportForm /\ w.mode = r.mode /\ w.result = r.result /\ w.reason = r.reason
      /\ w.cleanup = r.cleanup /\ w.leak = r.leak /\ w.strategy = r.strategy /\ w.core = r.core
      /\ w.market = r.market /\ w.replay = r.replay /\ w.compat = r.compat /\ w.supported = r.supported
      /\ w.predictions = r.predictions /\ w.targets = r.targets /\ w.immutable = r.immutable
      /\ w.identical = r.identical /\ w.hash = r.hash /\ w.provider = 0 /\ w.scenario = Len(scenario)
      /\ w.replayRequests = 0
  BY CountedHolds DEF HarnessTyped, TransportHolds
<1>2. Len(scenario) = 3
  BY DEF H!Exactly
<1>3. /\ r.mode = mode /\ r.core = "PASS" /\ r.replay = "PASS" /\ r.supported = 1
      /\ r.predictions = 1 /\ r.targets = 1 /\ r.hash /\ r.immutable /\ r.identical
      /\ r.cleanup = "PENDING" /\ r.leak = "unset" /\ r.compat = "NOT_RUN"
  BY DEF Settled, HarnessTyped
<1>4. H!ModeConsistent(w) /\ H!BlockedConsistent(w) /\ H!StagesConsistent(w)
  BY <1>1, <1>3 DEF H!ModeConsistent, H!BlockedConsistent, H!StagesConsistent
<1>5. H!OutcomeConsistent(w)
  BY <1>1, <1>3 DEF H!OutcomeConsistent, H!Components
<1>6. H!PassConsistent(w)
  BY <1>1, <1>2, <1>3 DEF H!PassConsistent
<1>. QED
  BY <1>1, <1>3, <1>4, <1>5, <1>6 DEF H!CheckedReport

LEMMA MarketHolds ==
    ASSUME HarnessInv, H!Market PROVE HarnessInv'
<1>1. /\ UNCHANGED <<mode, calls, H!transport>> /\ mode = "OFFLINE" /\ held \subseteq held' /\ stage = "market"
      /\ CoreFacts \subseteq held /\ Len(calls) >= 3 /\ scenario = H!Exactly /\ Settled(report)
      /\ report.market = "NOT_RUN"
  BY DEF H!Market, HarnessInv, StageHolds, CoreFacts
<1>2. HarnessTyped /\ TransportHolds /\ report \in ReportForm /\ report.mode = mode
  BY DEF HarnessInv, HarnessTyped
<1>3. ASSUME NEW m \in {"PASS", "NOT_APPLICABLE"}, m = "PASS" => H!MarketFacts \subseteq held',
             stage' = "strategy", report' = [report EXCEPT !.market = m]
      PROVE  HarnessInv'
  <2>1. report' \in ReportForm
    BY <1>2, <1>3 DEF ReportForm
  <2>2. /\ Settled(report') /\ report'.mode = mode /\ report'.market = m
    BY <1>1, <1>2, <1>3 DEF ReportForm, Settled
  <2>3. StageHolds'
    BY <1>1, <1>3, <2>2 DEF StageHolds, Opening, CoreFacts, H!transport
  <2>. QED
    BY <1>1, <1>3, <2>1, <2>2, <2>3, StageGoesOn DEF H!Candidate
<1>4. CASE H!Write([report EXCEPT !.reason = "MARKET_INTELLIGENCE_FAILED", !.market = "FAIL"])
  <2>1. PICK r : r = [report EXCEPT !.reason = "MARKET_INTELLIGENCE_FAILED", !.market = "FAIL"]
    OBVIOUS
  <2>2. "MARKET_INTELLIGENCE_FAILED" \in H!Reasons
    BY DEF H!Reasons
  <2>3. r \in ReportForm
    BY ONLY <1>2, <2>1, <2>2 DEF ReportForm
  <2>4. /\ r.mode = report.mode /\ r.core = report.core /\ r.replay = report.replay /\ r.supported = report.supported
        /\ r.predictions = report.predictions /\ r.targets = report.targets /\ r.hash = report.hash
        /\ r.immutable = report.immutable /\ r.identical = report.identical /\ r.cleanup = report.cleanup
        /\ r.leak = report.leak /\ r.compat = report.compat /\ r.result = report.result
        /\ r.reason = "MARKET_INTELLIGENCE_FAILED"
    BY ONLY <1>2, <2>1, <2>2 DEF ReportForm
  <2>5. r.result = "FAIL"
    BY <1>1, <2>4 DEF Settled
  <2>6. stage' = "written" /\ report' = H!Counted(r)
    BY <1>4, <2>1 DEF H!Write
  <2>7. /\ report' \in ReportForm /\ report'.mode = mode /\ report'.leak = "unset" /\ report'.cleanup = "PENDING"
        /\ report'.result = r.result /\ H!CheckedReport(report')
    BY <1>1, <1>2, <2>3, <2>4, <2>5, <2>6, LateReport
  <2>. QED
    BY <1>1, <2>5, <2>6, <2>7, WrittenHolds
<1>5. \/ held' = held /\ stage' = "strategy" /\ report' = [report EXCEPT !.market = "NOT_APPLICABLE"]
      \/ H!MarketIntelligenceComponent(held') /\ stage' = "strategy" /\ report' = [report EXCEPT !.market = "PASS"]
      \/ H!Write([report EXCEPT !.reason = "MARKET_INTELLIGENCE_FAILED", !.market = "FAIL"])
  BY Zenon DEF H!Market
<1>. QED
  BY <1>3, <1>4, <1>5 DEF H!MarketIntelligenceComponent

LEMMA StrategyHolds ==
    ASSUME HarnessInv, H!Strategy PROVE HarnessInv'
<1>1. /\ UNCHANGED <<mode, calls, H!transport>> /\ mode = "OFFLINE" /\ held \subseteq held' /\ stage = "strategy"
      /\ CoreFacts \subseteq held /\ Len(calls) >= 3 /\ scenario = H!Exactly /\ Settled(report)
      /\ report.market \in {"PASS", "NOT_APPLICABLE"} /\ (report.market = "PASS" => H!MarketFacts \subseteq held)
  BY DEF H!Strategy, HarnessInv, StageHolds, CoreFacts
<1>2. HarnessTyped /\ TransportHolds /\ report \in ReportForm /\ report.mode = mode
  BY DEF HarnessInv, HarnessTyped
<1>3. CASE H!StrategyComponent(held') /\
           H!Write([report EXCEPT !.result = "PASS", !.reason = "COMPLETE", !.strategy = "PASS"])
  <2>0. PICK p : p = [report EXCEPT !.reason = "COMPLETE", !.strategy = "PASS"]
    OBVIOUS
  <2>1. PICK r : r = [p EXCEPT !.result = "PASS"]
    OBVIOUS
  <2>2. "COMPLETE" \in H!Reasons
    BY DEF H!Reasons
  <2>8. p \in ReportForm
    BY ONLY <1>2, <2>0, <2>2 DEF ReportForm
  <2>3. r \in ReportForm
    BY ONLY <2>1, <2>8 DEF ReportForm
  <2>9. r = [report EXCEPT !.result = "PASS", !.reason = "COMPLETE", !.strategy = "PASS"]
    BY ONLY <1>2, <2>0, <2>1 DEF ReportForm
  <2>4. /\ r.mode = report.mode /\ r.core = report.core /\ r.replay = report.replay /\ r.supported = report.supported
        /\ r.predictions = report.predictions /\ r.targets = report.targets /\ r.hash = report.hash
        /\ r.immutable = report.immutable /\ r.identical = report.identical /\ r.cleanup = report.cleanup
        /\ r.leak = report.leak /\ r.compat = report.compat /\ r.market = report.market
        /\ r.result = "PASS" /\ r.reason = "COMPLETE" /\ r.strategy = "PASS"
    BY ONLY <1>2, <2>0, <2>1, <2>8 DEF ReportForm
  <2>6. stage' = "written" /\ report' = H!Counted(r)
    BY <1>3, <2>9 DEF H!Write
  <2>7. /\ report' \in ReportForm /\ report'.mode = mode /\ report'.leak = "unset" /\ report'.cleanup = "PENDING"
        /\ report'.market = r.market /\ H!CheckedReport(report')
    BY <1>1, <1>2, <2>3, <2>4, <2>6, LateReport
  <2>10. Deserved'
    BY <1>1, <1>3, <2>4, <2>7 DEF Deserved, H!StrategyComponent, H!transport
  <2>. QED
    BY <1>1, <2>6, <2>7, <2>10, WrittenHolds
<1>4. CASE H!Write([report EXCEPT !.reason = "STRATEGY_VALIDATION_FAILED", !.strategy = "FAIL"])
  <2>1. PICK r : r = [report EXCEPT !.reason = "STRATEGY_VALIDATION_FAILED", !.strategy = "FAIL"]
    OBVIOUS
  <2>2. "STRATEGY_VALIDATION_FAILED" \in H!Reasons
    BY DEF H!Reasons
  <2>3. r \in ReportForm
    BY ONLY <1>2, <2>1, <2>2 DEF ReportForm
  <2>4. /\ r.mode = report.mode /\ r.core = report.core /\ r.replay = report.replay /\ r.supported = report.supported
        /\ r.predictions = report.predictions /\ r.targets = report.targets /\ r.hash = report.hash
        /\ r.immutable = report.immutable /\ r.identical = report.identical /\ r.cleanup = report.cleanup
        /\ r.leak = report.leak /\ r.compat = report.compat /\ r.result = report.result
        /\ r.reason = "STRATEGY_VALIDATION_FAILED"
    BY ONLY <1>2, <2>1, <2>2 DEF ReportForm
  <2>5. r.result = "FAIL"
    BY <1>1, <2>4 DEF Settled
  <2>6. stage' = "written" /\ report' = H!Counted(r)
    BY <1>4, <2>1 DEF H!Write
  <2>7. /\ report' \in ReportForm /\ report'.mode = mode /\ report'.leak = "unset" /\ report'.cleanup = "PENDING"
        /\ report'.result = r.result /\ H!CheckedReport(report')
    BY <1>1, <1>2, <2>3, <2>4, <2>5, <2>6, LateReport
  <2>. QED
    BY <1>1, <2>5, <2>6, <2>7, WrittenHolds
<1>. QED
  BY Zenon, <1>3, <1>4 DEF H!Strategy

\* a transport request; the relay's part of it
LEMMA RelayMoves ==
    ASSUME TransportHolds, NEW e \in H!Endpoints, NEW well \in BOOLEAN, H!RelayGet(e, well), opens' \in 0 .. MaxOpens,
           UNCHANGED mode
    PROVE  TransportHolds' /\ H!RelayFrugal /\ UNCHANGED scenario
<1>1. UNCHANGED scenario /\ mode = "LIVE"
  BY DEF H!RelayGet
<1>2. /\ answered \subseteq H!Endpoints /\ scenario \in Seq(H!Endpoints) /\ upstream \in Seq(H!Endpoints)
      /\ Len(upstream) <= 3 /\ cached \in BOOLEAN /\ listed \in BOOLEAN /\ scenario = <<>>
      /\ failure \in {H!NoFailure, "PROVIDER_ERROR", "SECURITY_ERROR", "REQUEST_BUDGET_EXCEEDED"}
  BY <1>1 DEF TransportHolds
<1>3. CASE H!Rejected(e, well)
  BY <1>1, <1>2, <1>3 DEF H!Rejected, TransportHolds, H!RelayFrugal
<1>4. CASE answered' = answered \cup {e} /\ UNCHANGED <<upstream, failure, cached, listed>>
  BY <1>1, <1>2, <1>4 DEF TransportHolds, H!RelayFrugal
<1>5. CASE Len(upstream) < 3 /\ failure = H!NoFailure /\ ~ (e = "markets" /\ cached) /\ H!Forwarded(e)
  <2>1. upstream' = Append(upstream, e)
    BY <1>5 DEF H!Forwarded
  <2>2. upstream' \in Seq(H!Endpoints) /\ Len(upstream') = Len(upstream) + 1 /\ upstream'[Len(upstream')] = e
    BY <1>2, <2>1
  <2>3. Len(upstream') <= 3
    BY <1>2, <1>5, <2>2
  <2>4. answered' \subseteq H!Endpoints /\ cached' \in BOOLEAN /\ listed' \in BOOLEAN
    BY <1>2, <1>5 DEF H!Forwarded
  <2>5. failure' \in {H!NoFailure, "PROVIDER_ERROR", "SECURITY_ERROR", "REQUEST_BUDGET_EXCEEDED"}
    BY <1>2, <1>5 DEF H!Forwarded, H!Sticky
  <2>6. TransportHolds'
    BY <1>1, <1>2, <2>2, <2>3, <2>4, <2>5 DEF TransportHolds
  <2>7. H!RelayFrugal
    BY <1>5, <2>2, <2>3 DEF H!RelayFrugal, H!LIVE_BUDGET
  <2>. QED
    BY <1>1, <2>6, <2>7
<1>6. \/ H!Rejected(e, well) \/ (answered' = answered \cup {e} /\ UNCHANGED <<upstream, failure, cached, listed>>)
      \/ (Len(upstream) < 3 /\ failure = H!NoFailure /\ ~ (e = "markets" /\ cached) /\ H!Forwarded(e))
  BY <1>2 DEF H!RelayGet, H!LIVE_BUDGET
<1>. QED
  BY <1>3, <1>4, <1>5, <1>6

LEMMA OpenHolds ==
    ASSUME H!BoundsAssumption, HarnessInv, H!Open PROVE HarnessInv' /\ H!RelayFrugal
<1>1. H!Running /\ UNCHANGED <<mode, stage, calls, held, report>> /\ opens' \in 0 .. MaxOpens
  BY DEF H!Open, HarnessInv, TransportHolds, H!BoundsAssumption
<1>2. PICK e \in H!Endpoints, well \in BOOLEAN : H!RelayGet(e, well) \/ H!OfflineOpen(e)
  BY Zenon DEF H!Open
<1>3. HarnessTyped'
  BY <1>1 DEF HarnessInv, HarnessTyped
<1>4. TransportHolds
  BY DEF HarnessInv
<1>5. CASE H!RelayGet(e, well)
  BY <1>1, <1>3, <1>4, <1>5, RelayMoves DEF H!Running, H!Candidate, HarnessInv, StageHolds
<1>6. CASE H!OfflineOpen(e)
  <2>1. UNCHANGED <<upstream, failure, cached, listed>> /\ mode = "OFFLINE"
    BY <1>6 DEF H!OfflineOpen
  <2>2. scenario' \in Seq(H!Endpoints) /\ answered' \subseteq H!Endpoints
    BY <1>4, <1>6 DEF H!OfflineOpen, TransportHolds
  <2>3. TransportHolds'
    BY <1>1, <1>4, <2>1, <2>2 DEF TransportHolds
  <2>4. scenario = H!Exactly => scenario' = H!Exactly
    BY <1>6 DEF H!OfflineOpen
  <2>5. stage \notin {"written", "checked", "final"}
    BY <1>1 DEF H!Running, H!Candidate
  <2>6. StageHolds'
    BY <1>1, <2>1, <2>4, <2>5 DEF HarnessInv, StageHolds
  <2>. QED
    BY <1>3, <2>1, <2>3, <2>6 DEF HarnessInv, H!RelayFrugal
<1>. QED
  BY <1>2, <1>5, <1>6

LEMMA GetHolds ==
    ASSUME H!BoundsAssumption, HarnessInv, NEW e \in H!Endpoints, H!Get(e) PROVE HarnessInv'
<1>1. /\ H!Running /\ UNCHANGED <<mode, stage, held, report, H!transport>> /\ Len(calls) < MaxCalls
      /\ calls' = Append(calls, e)
  BY DEF H!Get
<1>2. calls \in Seq(H!Endpoints)
  BY DEF HarnessInv, HarnessTyped
<1>3. calls' \in Seq(H!Endpoints) /\ Len(calls') = Len(calls) + 1 /\ Len(calls) \in Nat
  BY <1>1, <1>2
<1>4. Len(calls') <= MaxCalls /\ (Len(calls) >= 3 => Len(calls') >= 3)
  BY <1>1, <1>3 DEF H!BoundsAssumption
<1>5. HarnessTyped'
  BY <1>1, <1>3, <1>4 DEF HarnessInv, HarnessTyped
<1>6. TransportHolds'
  BY <1>1 DEF HarnessInv, TransportHolds, H!transport
<1>7. stage \notin {"written", "checked", "final"}
  BY <1>1 DEF H!Running, H!Candidate
<1>8. StageHolds'
  BY <1>1, <1>4, <1>7 DEF HarnessInv, StageHolds, H!transport
<1>. QED
  BY <1>5, <1>6, <1>8 DEF HarnessInv

\* a report the worker and its parent may print
Sound(r) ==
    /\ r \in ReportForm /\ r.mode = mode /\ H!CheckedReport(r)
    /\ r.result # "FAIL" => failure = H!NoFailure
    /\ r.result = "PASS" =>
          /\ r.leak = "yes" /\ r.market = report.market /\ Deserved
          /\ mode = "LIVE" => upstream = H!Exactly

LEMMA WorkerBlank ==
    ASSUME HarnessInv, NEW reason \in H!Reasons \ {"COMPLETE"}
    PROVE  Sound(H!Blank(reason)) /\ H!Blank(reason).reason = reason /\ H!Blank(reason).result = "FAIL"
<1>. DEFINE k == IF reason = "SECURITY_ERROR" THEN "no" ELSE "unset"
<1>1. k \in {"no", "unset"}
  OBVIOUS
<1>2. PICK b : b = H!BlankReport(mode, reason)
  OBVIOUS
<1>3. PICK w : w = [b EXCEPT !.leak = k, !.provider = Len(upstream)]
  OBVIOUS
<1>4. H!Blank(reason) = w
  BY <1>2, <1>3 DEF H!Blank
<1>. HIDE DEF k
<1>5. /\ mode \in {"OFFLINE", "LIVE"} /\ Len(upstream) \in Nat /\ Len(upstream) <= 3
      /\ mode = "OFFLINE" => Len(upstream) = 0
  BY DEF HarnessInv, HarnessTyped, TransportHolds
<1>6. b \in ReportForm /\ b.mode = mode
  BY <1>2, <1>5, BlankHolds
<1>7. /\ b.reason = reason /\ b.result = "FAIL" /\ b.cleanup = "PENDING" /\ b.strategy = "NOT_RUN"
      /\ b.core = "NOT_RUN" /\ b.market = "NOT_RUN" /\ b.replay = "NOT_RUN" /\ b.compat = "NOT_RUN"
      /\ b.scenario = 0 /\ b.identical = FALSE
  BY <1>2 DEF H!BlankReport
<1>8. w \in ReportForm
  BY ONLY <1>1, <1>3, <1>5, <1>6 DEF ReportForm
<1>9. /\ w.mode = b.mode /\ w.reason = b.reason /\ w.result = b.result /\ w.cleanup = b.cleanup
      /\ w.strategy = b.strategy /\ w.core = b.core /\ w.market = b.market /\ w.replay = b.replay
      /\ w.compat = b.compat /\ w.scenario = b.scenario /\ w.identical = b.identical /\ w.provider = Len(upstream)
  BY ONLY <1>3, <1>5, <1>6 DEF ReportForm
<1>10. H!ModeConsistent(w)
  BY <1>5, <1>6, <1>7, <1>9 DEF H!ModeConsistent, H!LIVE_BUDGET
<1>11. H!OutcomeConsistent(w) /\ H!BlockedConsistent(w) /\ H!StagesConsistent(w) /\ H!PassConsistent(w)
  BY <1>7, <1>9 DEF H!OutcomeConsistent, H!BlockedConsistent, H!StagesConsistent, H!PassConsistent
<1>12. w.mode = mode /\ w.result = "FAIL" /\ w.reason = reason
  BY <1>6, <1>7, <1>9
<1>. QED
  BY <1>4, <1>8, <1>10, <1>11, <1>12 DEF Sound, H!CheckedReport

LEMMA VerdictHolds ==
    ASSUME HarnessInv, stage = "written"
    PROVE  /\ Sound(H!RelayVerdict(report))
           /\ failure = "SECURITY_ERROR" => H!RelayVerdict(report).reason = "SECURITY_ERROR"
<1>1. /\ failure \in {H!NoFailure, "PROVIDER_ERROR", "SECURITY_ERROR", "REQUEST_BUDGET_EXCEEDED"}
      /\ upstream \in Seq(H!Endpoints) /\ Len(upstream) <= 3
      /\ mode = "OFFLINE" => upstream = <<>> /\ failure = H!NoFailure
      /\ mode \in {"OFFLINE", "LIVE"} /\ report \in ReportForm /\ report.mode = mode
      /\ report.leak = "unset" /\ (report.result = "PASS" => Deserved)
  BY DEF HarnessInv, TransportHolds, HarnessTyped, StageHolds
<1>2. CASE failure # H!NoFailure
  BY <1>1, <1>2, WorkerBlank DEF H!Reasons, H!RelayVerdict
<1>3. CASE failure = H!NoFailure
  <2>1. "INVALID_REPORT" \in H!Reasons \ {"COMPLETE"} /\ "ASSERTION_FAILED" \in H!Reasons \ {"COMPLETE"}
    BY DEF H!Reasons
  <2>2. failure # "SECURITY_ERROR"
    BY <1>3 DEF H!NoFailure
  <2>3. CASE ~ H!CheckedReport(report)
    BY <1>3, <2>1, <2>2, <2>3, WorkerBlank DEF H!RelayVerdict
  <2>4. CASE report.result = "PASS" /\ mode = "LIVE" /\ upstream # H!Exactly
    BY <1>3, <2>1, <2>2, <2>3, <2>4, WorkerBlank DEF H!RelayVerdict
  <2>5. CASE H!CheckedReport(report) /\ ~ (report.result = "PASS" /\ mode = "LIVE" /\ upstream # H!Exactly)
    <3>1. PICK w : w = [report EXCEPT !.provider = Len(upstream), !.leak = "yes"]
      OBVIOUS
    <3>2. H!RelayVerdict(report) = w
      BY <1>3, <2>5, <3>1 DEF H!RelayVerdict
    <3>3. Len(upstream) \in Nat /\ (mode = "OFFLINE" => Len(upstream) = 0)
      BY <1>1
    <3>4. w \in ReportForm
      BY ONLY <1>1, <3>1, <3>3 DEF ReportForm
    <3>5. /\ w.mode = report.mode /\ w.result = report.result /\ w.reason = report.reason
          /\ w.cleanup = report.cleanup /\ w.leak = "yes" /\ w.strategy = report.strategy
          /\ w.core = report.core /\ w.market = report.market /\ w.replay = report.replay
          /\ w.compat = report.compat /\ w.supported = report.supported /\ w.predictions = report.predictions
          /\ w.targets = report.targets /\ w.immutable = report.immutable /\ w.identical = report.identical
          /\ w.hash = report.hash /\ w.provider = Len(upstream) /\ w.scenario = report.scenario
          /\ w.replayRequests = report.replayRequests
      BY ONLY <1>1, <3>1 DEF ReportForm
    <3>6. H!ModeConsistent(w)
      BY <1>1, <2>5, <3>3, <3>5 DEF H!CheckedReport, H!ModeConsistent, H!LIVE_BUDGET
    <3>7. H!OutcomeConsistent(w)
      BY <2>5, <3>5 DEF H!CheckedReport, H!OutcomeConsistent, H!Components
    <3>8. H!BlockedConsistent(w) /\ H!StagesConsistent(w)
      BY <2>5, <3>5 DEF H!CheckedReport, H!BlockedConsistent, H!StagesConsistent
    <3>9. H!PassConsistent(w)
      BY <1>1, <2>5, <3>5 DEF H!Exactly, H!CheckedReport, H!PassConsistent, H!LIVE_BUDGET
    <3>10. H!CheckedReport(w)
      BY <3>6, <3>7, <3>8, <3>9 DEF H!CheckedReport
    <3>. QED
      BY <1>1, <1>3, <2>2, <2>5, <3>2, <3>4, <3>5, <3>10 DEF Sound
  <2>. QED
    BY <2>3, <2>4, <2>5
<1>. QED
  BY <1>2, <1>3

LEMMA ReplacedHolds ==
    ASSUME HarnessInv, NEW reason \in {"TIMEOUT", "EXECUTION_ERROR", "INVALID_REPORT", "SECURITY_ERROR"}
    PROVE  /\ Sound(H!Replaced(reason))
           /\ failure = "SECURITY_ERROR" => H!Replaced(reason).reason = "SECURITY_ERROR"
<1>1. failure \in {H!NoFailure, "PROVIDER_ERROR", "SECURITY_ERROR", "REQUEST_BUDGET_EXCEEDED"}
  BY DEF HarnessInv, TransportHolds
<1>2. reason \in H!Reasons \ {"COMPLETE"} /\ (failure # H!NoFailure => failure \in H!Reasons \ {"COMPLETE"})
  BY <1>1 DEF H!Reasons
<1>3. CASE failure # H!NoFailure /\ reason # "SECURITY_ERROR"
  BY <1>2, <1>3, WorkerBlank DEF H!Replaced
<1>4. CASE ~ (failure # H!NoFailure /\ reason # "SECURITY_ERROR")
  BY <1>2, <1>4, WorkerBlank DEF H!NoFailure, H!Replaced
<1>. QED
  BY <1>3, <1>4

LEMMA CleanedHolds ==
    ASSUME NEW r, Sound(r), NEW done \in BOOLEAN
    PROVE  /\ Sound(H!Cleaned(r, done))
           /\ H!Cleaned(r, done).result = "PASS" => H!Cleaned(r, done).cleanup = "COMPLETE"
           /\ H!Cleaned(r, done).reason \in {r.reason, "CLEANUP_FAILED"}
<1>0. r \in ReportForm
  BY DEF Sound
<1>1. PICK w : w = H!Cleaned(r, done)
  OBVIOUS
<1>2. CASE done
  <2>1. w = [r EXCEPT !.cleanup = "COMPLETE"]
    BY <1>1, <1>2 DEF H!Cleaned
  <2>2. w \in ReportForm
    BY ONLY <1>0, <2>1 DEF ReportForm
  <2>3. /\ w.mode = r.mode /\ w.result = r.result /\ w.reason = r.reason
        /\ w.cleanup = "COMPLETE" /\ w.leak = r.leak /\ w.strategy = r.strategy
        /\ w.core = r.core /\ w.market = r.market /\ w.replay = r.replay
        /\ w.compat = r.compat /\ w.supported = r.supported /\ w.predictions = r.predictions
        /\ w.targets = r.targets /\ w.immutable = r.immutable /\ w.identical = r.identical
        /\ w.hash = r.hash /\ w.provider = r.provider /\ w.scenario = r.scenario
        /\ w.replayRequests = r.replayRequests
    BY ONLY <1>0, <2>1 DEF ReportForm
  <2>4. H!ModeConsistent(w) /\ H!BlockedConsistent(w) /\ H!StagesConsistent(w)
    BY <2>3 DEF Sound, H!CheckedReport, H!ModeConsistent, H!BlockedConsistent, H!StagesConsistent
  <2>5. H!OutcomeConsistent(w)
    BY <2>3 DEF Sound, H!CheckedReport, H!OutcomeConsistent, H!Components
  <2>6. H!PassConsistent(w)
    BY <2>3 DEF Sound, H!CheckedReport, H!PassConsistent
  <2>. QED
    BY <1>1, <2>2, <2>3, <2>4, <2>5, <2>6 DEF Sound, H!CheckedReport
<1>3. CASE ~ done
  <2>0. PICK p : p = [r EXCEPT !.cleanup = "FAILED", !.reason = "CLEANUP_FAILED"]
    OBVIOUS
  <2>1. w = [r EXCEPT !.result = "FAIL", !.reason = "CLEANUP_FAILED", !.cleanup = "FAILED"]
    BY <1>1, <1>3 DEF H!Cleaned
  <2>7. w = [p EXCEPT !.result = "FAIL"]
    BY ONLY <1>0, <2>0, <2>1 DEF ReportForm
  <2>8. "CLEANUP_FAILED" \in H!Reasons
    BY DEF H!Reasons
  <2>9. p \in ReportForm
    BY ONLY <1>0, <2>0, <2>8 DEF ReportForm
  <2>2. w \in ReportForm
    BY ONLY <2>9, <2>7 DEF ReportForm
  <2>3. /\ w.mode = r.mode /\ w.result = "FAIL" /\ w.reason = "CLEANUP_FAILED"
        /\ w.strategy = r.strategy
        /\ w.core = r.core /\ w.market = r.market /\ w.replay = r.replay
        /\ w.compat = r.compat /\ w.supported = r.supported /\ w.predictions = r.predictions
        /\ w.targets = r.targets /\ w.immutable = r.immutable /\ w.identical = r.identical
        /\ w.hash = r.hash /\ w.provider = r.provider /\ w.scenario = r.scenario
        /\ w.replayRequests = r.replayRequests
    BY ONLY <1>0, <2>1 DEF ReportForm
  <2>4. H!ModeConsistent(w) /\ H!BlockedConsistent(w) /\ H!StagesConsistent(w)
    BY <2>3 DEF Sound, H!CheckedReport, H!ModeConsistent, H!BlockedConsistent, H!StagesConsistent
  <2>5. H!OutcomeConsistent(w) /\ H!PassConsistent(w)
    BY <2>3 DEF Sound, H!CheckedReport, H!OutcomeConsistent, H!PassConsistent
  <2>. QED
    BY <1>1, <2>2, <2>3, <2>4, <2>5 DEF Sound, H!CheckedReport
<1>. QED
  BY <1>2, <1>3

LEMMA PrintedHolds ==
    ASSUME HarnessInv, Sound(report'), UNCHANGED <<mode, calls, held, H!transport>>, stage' \in {"checked", "final"},
           report'.result = "PASS" => report'.cleanup = "COMPLETE",
           stage' = "checked" /\ failure = "SECURITY_ERROR" => report'.reason \in {"SECURITY_ERROR", "CLEANUP_FAILED"}
    PROVE  HarnessInv'
<1>1. HarnessTyped'
  BY DEF HarnessInv, HarnessTyped, Sound
<1>2. TransportHolds'
  BY DEF HarnessInv, TransportHolds, H!transport
<1>3. report'.result = "PASS" => Deserved'
  BY DEF Sound, Deserved, H!transport
<1>4. StageHolds'
  BY <1>3 DEF StageHolds, Opening, Sound, H!transport
<1>. QED
  BY <1>1, <1>2, <1>4 DEF HarnessInv

LEMMA WorkerHolds ==
    ASSUME HarnessInv, H!Worker PROVE HarnessInv'
<1>1. UNCHANGED <<mode, calls, held, H!transport>> /\ stage' = "checked" /\ stage = "written"
  BY DEF H!Worker
<1>. DEFINE Printable(r) == \/ r = H!RelayVerdict(report)
                            \/ \E reason \in {"TIMEOUT", "EXECUTION_ERROR", "INVALID_REPORT", "SECURITY_ERROR"} :
                                  r = H!Replaced(reason)
<1>5. PICK done \in BOOLEAN : \E r : Printable(r) /\ report' = H!Cleaned(r, done)
  BY DEF H!Worker
<1>2. PICK r : Printable(r) /\ report' = H!Cleaned(r, done)
  BY <1>5
<1>3. Sound(r) /\ (failure = "SECURITY_ERROR" => r.reason = "SECURITY_ERROR")
  BY <1>1, <1>2, VerdictHolds, ReplacedHolds
<1>4. /\ Sound(report') /\ report'.reason \in {r.reason, "CLEANUP_FAILED"}
      /\ report'.result = "PASS" => report'.cleanup = "COMPLETE"
  BY <1>2, <1>3, CleanedHolds
<1>. QED
  BY <1>1, <1>3, <1>4, PrintedHolds

LEMMA ParentHolds ==
    ASSUME HarnessInv, H!Parent PROVE HarnessInv'
<1>1. UNCHANGED <<mode, calls, held, H!transport>> /\ stage' = "final" /\ stage = "checked"
  BY DEF H!Parent
<1>2. /\ mode \in {"OFFLINE", "LIVE"} /\ report \in ReportForm /\ report.mode = mode /\ H!CheckedReport(report)
      /\ report.result = "PASS" =>
            /\ Deserved /\ report.leak = "yes"
            /\ mode = "LIVE" => upstream = H!Exactly
      /\ report.result # "FAIL" => failure = H!NoFailure
  BY <1>1 DEF HarnessInv, HarnessTyped, StageHolds
<1>3. Sound(report)
  BY <1>2 DEF Sound
<1>4. "TIMEOUT" \in H!Reasons
  BY DEF H!Reasons
<1>5. Sound(H!BlankReport(mode, "TIMEOUT"))
  BY <1>2, <1>4, BlankHolds DEF Sound
<1>6. PICK done \in BOOLEAN : \E r \in {report, H!BlankReport(mode, "TIMEOUT")} : report' = H!Cleaned(r, done)
  BY <1>2 DEF H!Parent
<1>7. Sound(report') /\ (report'.result = "PASS" => report'.cleanup = "COMPLETE")
  BY <1>3, <1>5, <1>6, CleanedHolds
<1>. QED
  BY <1>1, <1>7, PrintedHolds

LEMMA HarnessStarts ==
    ASSUME H!BoundsAssumption, H!Init PROVE HarnessInv
<1>1. mode \in {"OFFLINE", "LIVE"} /\ "EXECUTION_ERROR" \in H!Reasons
  BY DEF H!Init, H!Reasons
<1>2. report \in ReportForm /\ report.mode = mode /\ Fresh(report)
  BY <1>1, BlankHolds DEF H!Init
<1>3. HarnessTyped
  BY <1>1, <1>2 DEF H!Init, HarnessTyped, H!BoundsAssumption
<1>4. TransportHolds
  <2>1. <<>> \in Seq(H!Endpoints) /\ Len(<<>>) <= 3 /\ 0 \in 0 .. MaxOpens
    BY DEF H!BoundsAssumption
  <2>. QED
    BY <2>1 DEF H!Init, TransportHolds
<1>5. StageHolds
  BY <1>2 DEF H!Init, StageHolds, Opening
<1>. QED
  BY <1>3, <1>4, <1>5 DEF HarnessInv

LEMMA HarnessStep ==
    ASSUME H!BoundsAssumption, HarnessInv, [H!Next]_(H!vars)
    PROVE  HarnessInv' /\ [H!RelayFrugal]_(H!vars)
<1>1. CASE H!Open
  BY <1>1, OpenHolds
<1>2. ASSUME UNCHANGED H!transport PROVE H!RelayFrugal
  BY <1>2 DEF H!transport, H!RelayFrugal
<1>3. ASSUME NEW e \in H!Endpoints, H!Get(e) PROVE HarnessInv' /\ UNCHANGED H!transport
  BY <1>3, GetHolds DEF H!Get
<1>4. CASE H!Raises
  BY <1>2, <1>4, RaisesHolds DEF H!Raises
<1>5. CASE H!Fixtures
  BY <1>2, <1>5, FixturesHolds DEF H!Fixtures
<1>6. CASE H!Quotes
  BY <1>2, <1>6, QuotesHolds DEF H!Quotes
<1>7. CASE H!Capture
  BY <1>2, <1>7, CaptureHolds DEF H!Capture
<1>8. CASE H!Replay
  BY <1>2, <1>8, ReplayHolds DEF H!Replay
<1>9. CASE H!Market
  BY <1>2, <1>9, MarketHolds DEF H!Market
<1>10. CASE H!Strategy
  BY <1>2, <1>10, StrategyHolds DEF H!Strategy
<1>11. CASE H!Exits
  BY <1>2, <1>11, ExitsHolds DEF H!Exits
<1>12. CASE H!Worker
  BY <1>2, <1>12, WorkerHolds DEF H!Worker
<1>13. CASE H!Parent
  BY <1>2, <1>13, ParentHolds DEF H!Parent
<1>14. CASE UNCHANGED H!vars
  <2>1. UNCHANGED <<mode, stage, calls, answered, scenario, opens, upstream, failure, cached, listed, held, report>>
    BY <1>14 DEF H!vars
  <2>2. HarnessTyped'
    BY <2>1 DEF HarnessInv, HarnessTyped
  <2>3. TransportHolds'
    BY <2>1 DEF HarnessInv, TransportHolds
  <2>4. StageHolds'
    BY <2>1 DEF HarnessInv, StageHolds, Deserved
  <2>. QED
    BY <1>14, <2>2, <2>3, <2>4 DEF HarnessInv
<1>. QED
  BY Zenon, <1>1, <1>2, <1>3, <1>4, <1>5, <1>6, <1>7, <1>8, <1>9, <1>10, <1>11, <1>12, <1>13, <1>14 DEF H!Next

LEMMA HarnessIsSound ==
    ASSUME HarnessInv
    PROVE  /\ H!TypeOK /\ H!HarnessReportsAccepted /\ H!WorkerReportsAccepted /\ H!PassIsEarned /\ H!PoliciesAgree
           /\ H!RelayFailureTells
<1>1. H!TypeOK
  BY DEF HarnessInv, HarnessTyped, ReportForm, TransportHolds, H!TypeOK
<1>2. H!HarnessReportsAccepted /\ H!WorkerReportsAccepted
  BY DEF HarnessInv, StageHolds, H!HarnessReportsAccepted, H!WorkerReportsAccepted, H!LIVE_BUDGET
<1>3. H!PassIsEarned
  BY DEF HarnessInv, StageHolds, TransportHolds, H!PassIsEarned, Deserved, CoreFacts
<1>4. H!PoliciesAgree
  <2>1. SUFFICES ASSUME stage = "final", mode = "OFFLINE" PROVE H!OfflinePolicy(report)
    BY DEF H!PoliciesAgree
  <2>2. /\ H!CheckedReport(report) /\ report.mode = "OFFLINE"
        /\ report.result = "PASS" => report.cleanup = "COMPLETE" /\ report.leak = "yes"
    BY <2>1 DEF HarnessInv, HarnessTyped, StageHolds
  <2>3. /\ report.result \in {"PASS", "FAIL", "BLOCKED"} /\ report.reason \in H!Reasons
        /\ report.strategy \in {"NOT_RUN", "PASS", "FAIL"}
        /\ report.market \in {"NOT_RUN", "PASS", "FAIL", "NOT_APPLICABLE"}
    BY DEF HarnessInv, HarnessTyped, ReportForm
  <2>4. H!ModeConsistent(report) /\ H!OutcomeConsistent(report) /\ H!StagesConsistent(report) /\ H!PassConsistent(report)
    BY <2>2 DEF H!CheckedReport
  <2>. QED
    BY <2>2, <2>3, <2>4 DEF H!OfflinePolicy, H!ModeConsistent, H!OutcomeConsistent, H!StagesConsistent, H!PassConsistent
<1>5. H!RelayFailureTells
  BY DEF HarnessInv, StageHolds, H!RelayFailureTells
<1>. QED
  BY <1>1, <1>2, <1>3, <1>4, <1>5

\* One validation, for any candidate and any number of requests: a PASS is earned, the three readers of a
\* report agree on it, and a failed relay is told.
THEOREM ValidationSafety ==
    ASSUME H!BoundsAssumption
    PROVE  H!Spec => [](/\ H!TypeOK /\ H!HarnessReportsAccepted /\ H!WorkerReportsAccepted /\ H!PassIsEarned
                        /\ H!PoliciesAgree /\ H!RelayFailureTells)
<1>1. H!Init => HarnessInv
  BY HarnessStarts
<1>2. HarnessInv /\ [H!Next]_(H!vars) => HarnessInv'
  BY HarnessStep
<1>3. HarnessInv => /\ H!TypeOK /\ H!HarnessReportsAccepted /\ H!WorkerReportsAccepted /\ H!PassIsEarned
                    /\ H!PoliciesAgree /\ H!RelayFailureTells
  BY HarnessIsSound
<1>. QED
  BY <1>1, <1>2, <1>3, PTL DEF H!Spec

\* The relay never sends more than its budget, nothing after a failure and no second markets request.
THEOREM RelayStaysFrugal ==
    ASSUME H!BoundsAssumption
    PROVE  H!Spec => [][H!RelayFrugal]_(H!vars)
<1>1. H!Init => HarnessInv
  BY HarnessStarts
<1>2. HarnessInv /\ [H!Next]_(H!vars) => HarnessInv' /\ [H!RelayFrugal]_(H!vars)
  BY HarnessStep
<1>. QED
  BY <1>1, <1>2, PTL DEF H!Spec
=============================================================================
