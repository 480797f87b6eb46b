------------------------------ MODULE WorkerBridge ------------------------------
(***************************************************************************)
(* The bridge between a GitHub conversation and the bounded worker         *)
(* (ops/bounded_worker/bridge_*.py).  Three one-shot modes share a lock    *)
(* that is not waited for and the receipts of receipts.sqlite: dispatch    *)
(* takes a job from a comment and runs the worker, publish turns its diff  *)
(* into a branch, a commit and a draft, status reports outcomes.  What     *)
(* the worker leaves behind is the subject of BoundedTask; here it is a    *)
(* result, or a claim without one.  A process may die at any step and any  *)
(* answer of GitHub may be lost after the request took effect.             *)
(***************************************************************************)
EXTENDS Naturals, FiniteSets, Sequences, SequencesExt

CONSTANTS
    Comments,   \* comments of the conversation: each carries a job, its body
    Jobs, JobOf,
    Expires,    \* per comment: the instant its command expires, at most Day ahead when it is received
    Day, Horizon, MaxMoves, MaxFaults,   \* bounds of the clock, of main and of faults
    None

BridgeConstants ==
    /\ JobOf \in [Comments -> Jobs] /\ Expires \in [Comments -> Nat]
    /\ {Day, Horizon, MaxMoves, MaxFaults} \subseteq Nat /\ Horizon >= 1
    /\ None \notin Comments /\ None \notin Jobs /\ None \notin Nat
    /\ None \notin {"completed", "failed", "claimed"}
    /\ \A a, b \in BOOLEAN : None # [receipted |-> a, committed |-> b]
    /\ \A base \in 0 .. MaxMoves, edited \in BOOLEAN : None # [base |-> base, edited |-> edited]

\* timeout and rejected are treated as failed is
Terminal == {"completed", "failed"}
Writes == <<"branch", "commit", "draft">>
Published == Len(Writes) + 1
Outcomes == {"awaiting", "published", "failed"}

VARIABLES
    now, main, mirror,  \* the clock, main on GitHub and in the local mirror
    thread,     \* the comments in the order they were posted
    comments,   \* per comment: None, or the base it names and whether it was edited or removed
    receipts,   \* table jobs, in the order of insertion
    poll,       \* table poll
    publications, \* table publications: None, or the write that is pending; Published when all are done
    posts,      \* table status_posts: <<job, outcome>> -> "none", "pending" or "posted"
    evidence,   \* per job: None, "claimed", or the launcher's finished result
    at,         \* the invocation that holds bridge.lock
    sent,       \* requests sent to GitHub, as often as sent; an observation
    lastRead,   \* when dispatch last asked for comments; an observation
    withdrawn,  \* per comment: what had happened when it was edited; an observation
    faults

vars == <<now, main, mirror, thread, comments, receipts, poll, publications, posts, evidence, at, sent, lastRead,
          withdrawn, faults>>
World == <<now, main, mirror, thread, comments, withdrawn>>
Tables == <<receipts, poll, publications, posts>>

Idle == [step |-> "idle", comment |-> None, job |-> None, write |-> None]
Requests == (Jobs \X Range(Writes)) \cup (Jobs \X Outcomes)

Init ==
    /\ now = 1 /\ main = 0 /\ mirror = 0 /\ thread = <<>> /\ comments = [c \in Comments |-> None]
    /\ receipts = <<>> /\ poll = [next |-> 0, failures |-> 0]
    /\ publications = [j \in Jobs |-> None] /\ posts = [p \in Jobs \X Outcomes |-> "none"]
    /\ evidence = [j \in Jobs |-> None] /\ at = Idle
    /\ sent = [r \in Requests |-> 0] /\ lastRead = 0
    /\ withdrawn = [c \in Comments |-> None] /\ faults = 0

Receipted(j) == \E i \in DOMAIN receipts : receipts[i].job = j
StatusOf(j) == (CHOOSE r \in Range(receipts) : r.job = j).status
SetStatus(j, status) ==
    receipts' = [i \in DOMAIN receipts |-> IF receipts[i].job = j THEN [receipts[i] EXCEPT !.status = status] ELSE receipts[i]]

-----------------------------------------------------------------------------
(* What every mode checks                                                  *)

\* safe: no receipt is incomplete
MutantSafe ==
    /\ \A i \in DOMAIN receipts : receipts[i].status \in Terminal
    /\ \A j \in Jobs : publications[j] \in {None, Published}
Safe ==
    /\ \A i \in DOMAIN receipts : receipts[i].status \in Terminal
    /\ \A j \in Jobs : publications[j] \in {None, Published}
    /\ \A p \in DOMAIN posts : posts[p] # "pending"

\* validate, on what GitHub returns now: an edited or missing comment is not valid
Valid(c) == comments[c] # None /\ ~comments[c].edited /\ now < Expires[c] /\ Expires[c] <= now + Day

Go(step) == at' = [at EXCEPT !.step = step]
Pow2(n) == IF n = 0 THEN 1 ELSE IF n = 1 THEN 2 ELSE 4
\* the delay after an invocation of dispatch; the minutes and the cap of an hour are ticks here
EndDispatch(blocked) ==
    LET failures == IF blocked THEN (IF poll.failures = 2 THEN 2 ELSE poll.failures + 1) ELSE 0
    IN  poll' = [next |-> now + Pow2(failures), failures |-> failures] /\ at' = Idle

-----------------------------------------------------------------------------
(* dispatch                                                                *)

\* the next poll is reserved before the first request
MutantPoll ==
    /\ at.step = "idle" /\ Safe /\ now >= poll.next
    /\ at' = [Idle EXCEPT !.step = "read"] /\ lastRead' = now
    /\ UNCHANGED <<World, poll, receipts, publications, posts, evidence, sent, faults>>
Poll ==
    /\ at.step = "idle" /\ Safe /\ now >= poll.next
    /\ poll' = [poll EXCEPT !.next = now + 1]
    /\ at' = [Idle EXCEPT !.step = "read"] /\ lastRead' = now
    /\ UNCHANGED <<World, receipts, publications, posts, evidence, sent, faults>>

\* the first eligible comment whose job and identity no receipt has; duplicates and collisions are passed over
Collides(c) == \E i \in DOMAIN receipts : receipts[i].job = JobOf[c] \/ receipts[i].comment = c
Eligible == {i \in DOMAIN thread : Valid(thread[i]) /\ ~Collides(thread[i])}
ReadComments ==
    /\ at.step = "read"
    /\ IF Eligible = {} THEN EndDispatch(FALSE)
       ELSE LET c == thread[Min(Eligible)]
            IN  at' = [Idle EXCEPT !.step = "reserve", !.comment = c, !.job = JobOf[c]] /\ UNCHANGED poll
    /\ UNCHANGED <<World, receipts, publications, posts, evidence, sent, lastRead, faults>>

Reserve ==
    /\ at.step = "reserve"
    /\ receipts' = Append(receipts, [job |-> at.job, comment |-> at.comment, base |-> comments[at.comment].base,
                                     status |-> "reserved"])
    /\ Go("reread")
    /\ UNCHANGED <<World, poll, publications, posts, evidence, sent, lastRead, faults>>

\* the comment is read again behind the durable receipt
MutantReread ==
    /\ at.step = "reread" /\ SetStatus(at.job, "launching") /\ Go("launch")
    /\ UNCHANGED <<World, poll, publications, posts, evidence, sent, lastRead, faults>>
Reread ==
    /\ at.step = "reread"
    /\ IF Valid(at.comment) THEN SetStatus(at.job, "launching") /\ Go("launch") /\ UNCHANGED poll
       ELSE EndDispatch(TRUE) /\ UNCHANGED receipts
    /\ UNCHANGED <<World, publications, posts, evidence, sent, lastRead, faults>>

\* Executor.run: the mirror must be at the base; admission and task directory are claimed exclusively
Base(j) == (CHOOSE r \in Range(receipts) : r.job = j).base
Launch ==
    /\ at.step = "launch"
    /\ IF mirror = Base(at.job) /\ evidence[at.job] = None
       THEN evidence' = [evidence EXCEPT ![at.job] = "claimed"] /\ Go("running") /\ UNCHANGED poll
       ELSE EndDispatch(TRUE) /\ UNCHANGED evidence
    /\ UNCHANGED <<World, receipts, publications, posts, sent, lastRead, faults>>

MutantWorkerEnds ==
    /\ at.step = "running"
    /\ \/ \E status \in Terminal : evidence' = [evidence EXCEPT ![at.job] = status] /\ Go("record") /\ UNCHANGED poll
       \/ Go("record") /\ UNCHANGED <<evidence, poll>>
    /\ UNCHANGED <<World, receipts, publications, posts, sent, lastRead, faults>>
\* the launcher finishes, with a terminal result that its records confirm or without one
WorkerEnds ==
    /\ at.step = "running"
    /\ \/ \E status \in Terminal : evidence' = [evidence EXCEPT ![at.job] = status] /\ Go("record") /\ UNCHANGED poll
       \/ EndDispatch(TRUE) /\ UNCHANGED evidence
    /\ UNCHANGED <<World, receipts, publications, posts, sent, lastRead, faults>>

MutantRecord ==
    /\ at.step = "record" /\ SetStatus(at.job, "completed") /\ EndDispatch(FALSE)
    /\ UNCHANGED <<World, publications, posts, evidence, sent, lastRead, faults>>
Record ==
    /\ at.step = "record" /\ SetStatus(at.job, evidence[at.job]) /\ EndDispatch(FALSE)
    /\ UNCHANGED <<World, publications, posts, evidence, sent, lastRead, faults>>

-----------------------------------------------------------------------------
(* publish                                                                 *)

Unpublished == {i \in DOMAIN receipts : receipts[i].status = "completed" /\ publications[receipts[i].job] = None}
\* the command, the evidence and main
Publishable(r) == Valid(r.comment) /\ evidence[r.job] = "completed" /\ main = r.base
Prepare ==
    /\ at.step = "idle" /\ Safe /\ Unpublished # {}
    /\ LET r == receipts[Min(Unpublished)]
       IN  /\ Publishable(r) /\ mirror = r.base
           /\ at' = [step |-> "mark", comment |-> r.comment, job |-> r.job, write |-> 1]
    /\ UNCHANGED <<World, Tables, evidence, sent, lastRead, faults>>

\* each write is marked before it is sent; branch and draft only if command and main are still those
MutantRechecked == at.write = 1
Rechecked == at.write \in {1, 3}
Mark ==
    /\ at.step = "mark"
    /\ IF Rechecked => Valid(at.comment) /\ main = Base(at.job)
       THEN publications' = [publications EXCEPT ![at.job] = at.write] /\ Go("send")
       ELSE at' = Idle /\ UNCHANGED publications
    /\ UNCHANGED <<World, receipts, poll, posts, evidence, sent, lastRead, faults>>

\* create_branch, create_commit with its verification, create_draft with its verification
Send ==
    /\ at.step = "send"
    /\ sent' = [sent EXCEPT ![<<at.job, Writes[at.write]>>] = @ + 1]
    /\ at' = IF at.write = Len(Writes) THEN [at EXCEPT !.step = "publish"] ELSE [at EXCEPT !.step = "mark", !.write = @ + 1]
    /\ UNCHANGED <<World, Tables, evidence, lastRead, faults>>

Publish ==
    /\ at.step = "publish"
    /\ publications' = [publications EXCEPT ![at.job] = Published] /\ at' = Idle
    /\ UNCHANGED <<World, receipts, poll, posts, evidence, sent, lastRead, faults>>

-----------------------------------------------------------------------------
(* status                                                                  *)

MutantOutcome(r) == IF r.status = "completed" THEN "published" ELSE r.status
Outcome(r) == IF publications[r.job] = Published THEN "published"
              ELSE IF r.status = "completed" THEN "awaiting" ELSE r.status
Unreported == {i \in DOMAIN receipts : posts[<<receipts[i].job, Outcome(receipts[i])>>] = "none"}

MutantMarkStatus ==
    /\ at.step = "idle" /\ Safe /\ Unreported # {}
    /\ LET r == receipts[Min(Unreported)] IN at' = [Idle EXCEPT !.step = "post", !.job = r.job, !.write = Outcome(r)]
    /\ UNCHANGED <<World, Tables, evidence, sent, lastRead, faults>>
MarkStatus ==
    /\ at.step = "idle" /\ Safe /\ Unreported # {}
    /\ LET r == receipts[Min(Unreported)]
       IN  /\ posts' = [posts EXCEPT ![<<r.job, Outcome(r)>>] = "pending"]
           /\ at' = [Idle EXCEPT !.step = "post", !.job = r.job, !.write = Outcome(r)]
    /\ UNCHANGED <<World, receipts, poll, publications, evidence, sent, lastRead, faults>>
Post ==
    /\ at.step = "post"
    /\ sent' = [sent EXCEPT ![<<at.job, at.write>>] = @ + 1] /\ Go("posted")
    /\ UNCHANGED <<World, Tables, evidence, lastRead, faults>>
Posted ==
    /\ at.step = "posted"
    /\ posts' = [posts EXCEPT ![<<at.job, at.write>>] = "posted"] /\ at' = Idle
    /\ UNCHANGED <<World, receipts, poll, publications, evidence, sent, lastRead, faults>>

-----------------------------------------------------------------------------
(* Failures and the world                                                  *)

\* the process dies, or a call raises; a request may have taken effect all the same
Die ==
    /\ at.step # "idle" /\ faults < MaxFaults /\ faults' = faults + 1
    /\ \/ at' = Idle /\ UNCHANGED poll
       \/ at.step \in {"read", "reread"} /\ EndDispatch(TRUE)
    /\ UNCHANGED <<World, receipts, publications, posts, evidence, sent, lastRead>>

Comment ==
    /\ \E c \in Comments :
        /\ comments[c] = None
        /\ comments' = [comments EXCEPT ![c] = [base |-> main, edited |-> FALSE]] /\ thread' = Append(thread, c)
    /\ UNCHANGED <<now, main, mirror, withdrawn, Tables, evidence, at, sent, lastRead, faults>>
\* edited or removed
Withdraw ==
    /\ \E c \in Comments :
        /\ comments[c] # None /\ ~comments[c].edited
        /\ comments' = [comments EXCEPT ![c].edited = TRUE]
        /\ withdrawn' = [withdrawn EXCEPT ![c] = [receipted |-> \E i \in DOMAIN receipts : receipts[i].comment = c,
                                                  committed |-> sent[<<JobOf[c], "commit">>] > 0]]
    /\ UNCHANGED <<now, main, mirror, thread, Tables, evidence, at, sent, lastRead, faults>>
MainMoves ==
    /\ \/ main < MaxMoves /\ main' = main + 1 /\ UNCHANGED mirror
       \/ mirror < main /\ mirror' = main /\ UNCHANGED main
    /\ UNCHANGED <<now, thread, comments, withdrawn, Tables, evidence, at, sent, lastRead, faults>>
Tick ==
    /\ now < Horizon /\ now' = now + 1
    /\ UNCHANGED <<main, mirror, thread, comments, withdrawn, Tables, evidence, at, sent, lastRead, faults>>

Dispatch == Poll \/ ReadComments \/ Reserve \/ Reread \/ Launch \/ WorkerEnds \/ Record
Publisher == Prepare \/ Mark \/ Send \/ Publish
Status == MarkStatus \/ Post \/ Posted
Next == Dispatch \/ Publisher \/ Status \/ Die \/ Comment \/ Withdraw \/ MainMoves \/ Tick
Spec == Init /\ [][Next]_vars
\* timers keep starting the modes, and an invocation that is not killed goes on
FairSpec == Spec /\ WF_vars(Dispatch) /\ SF_vars(Prepare) /\ WF_vars(Mark \/ Send \/ Publish) /\ WF_vars(Post \/ Posted)

-----------------------------------------------------------------------------
(* Properties                                                              *)

Row == [job: Jobs, comment: Comments, base: 0 .. MaxMoves, status: Terminal \cup {"reserved", "launching"}]
TypeOK ==
    /\ now \in 1 .. Horizon /\ main \in 0 .. MaxMoves /\ mirror \in 0 .. main
    /\ thread \in Seq(Comments) /\ comments \in [Comments -> [base: 0 .. MaxMoves, edited: BOOLEAN] \cup {None}]
    /\ receipts \in Seq(Row) /\ Cardinality({receipts[i].job : i \in DOMAIN receipts}) = Len(receipts)
    /\ poll \in [next: Nat, failures: 0 .. 2]
    /\ publications \in [Jobs -> {None} \cup 1 .. Published]
    /\ posts \in [Jobs \X Outcomes -> {"none", "pending", "posted"}]
    /\ evidence \in [Jobs -> Terminal \cup {None, "claimed"}]
    /\ at.job \in Jobs \cup {None} /\ at.comment \in Comments \cup {None}
    /\ sent \in [Requests -> Nat] /\ withdrawn \in [Comments -> [receipted: BOOLEAN, committed: BOOLEAN] \cup {None}]

\* A worker never runs without a receipt that says so, and a receipt that is final says what the launcher's
\* evidence says.
ReceiptsAreTrue ==
    /\ \A j \in Jobs : evidence[j] # None =>
         Receipted(j) /\ (StatusOf(j) = "launching" \/ StatusOf(j) = evidence[j])
    /\ \A i \in DOMAIN receipts : receipts[i].status \in Terminal => evidence[receipts[i].job] = receipts[i].status

\* A command edited before its receipt never runs the worker; one edited before its commit is sent never
\* becomes a draft.
EditsAreHonoured ==
    \A i \in DOMAIN receipts :
        LET c == receipts[i].comment  j == receipts[i].job
        IN  withdrawn[c] # None =>
              /\ withdrawn[c].receipted \/ evidence[j] = None
              /\ withdrawn[c].committed \/ sent[<<j, "draft">>] = 0

\* No request that writes to GitHub is sent twice, whatever answer was lost and whoever died.
WritesAreNeverRepeated == \A r \in Requests : sent[r] <= 1

\* What the conversation is told about a job is true: a draft was requested and its commit too, or the
\* launcher's evidence says so.
StatusesAreTrue ==
    \A p \in DOMAIN posts : posts[p] # "none" =>
        CASE p[2] = "published" -> \A w \in Range(Writes) : sent[<<p[1], w>>] = 1
          [] p[2] = "awaiting" -> evidence[p[1]] = "completed"
          [] OTHER -> evidence[p[1]] = p[2]

\* Once the outcome of a worker or of a write is uncertain and its process is gone, no mode runs a worker or
\* writes to GitHub again.
Uncertain ==
    /\ at.step = "idle"
    /\ \/ \E j \in Jobs : publications[j] \in 1 .. Len(Writes)
       \/ \E p \in DOMAIN posts : posts[p] = "pending"
       \/ \E i \in DOMAIN receipts : receipts[i].status \in {"reserved", "launching"}
FailClosed == Uncertain => UNCHANGED <<at, sent, evidence>>

\* Two polls are at least one interval apart, also when the first one died.
PollsAreSpaced == at'.step = "read" /\ at.step = "idle" => now > lastRead

\* "Completed jobs without publication remain eligible for publication": a completed job whose command and
\* base stay valid is published by a publisher that keeps being started.
EligibleIsPublished ==
    \A j \in Jobs :
        []((\E r \in Range(receipts) : r.job = j /\ r.status = "completed" /\ Publishable(r) /\ mirror = r.base /\ Safe)
           => <>(publications[j] # None \/ ~(\E r \in Range(receipts) : r.job = j /\ Publishable(r) /\ mirror = r.base)))
=============================================================================
