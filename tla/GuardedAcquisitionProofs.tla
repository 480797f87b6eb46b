----------------------- MODULE GuardedAcquisitionProofs -----------------------
(***************************************************************************)
(* No experiment sends two requests and no obligation is asked for twice,  *)
(* for any number of fixtures, experiments and overlapping invocations.    *)
(* The argument: the runner lock belongs to one invocation at a time, so   *)
(* the sessions it read stay complete until it claims; from the claim on,  *)
(* where it stands tells exactly what its experiment was charged and sent. *)
(* The same lock keeps the control in memory equal to the saved one, so    *)
(* that the shared account stays exact; and the place of an invocation     *)
(* tells which records it has put on file.                                 *)
(* The Premier League operations follow, for every value of their          *)
(* constants: results (R, PLResults), by the order in which an intent, its *)
(* record and its projection are written and by what readers were told     *)
(* (RInv); and picks (Q, PLProduct), by the order of time of the books and *)
(* by the choice, which stays what the records of its check select (PInv); *)
(* and the corner replay (W, CornerReplay), by what the capture under the  *)
(* store's lock found there and what was reported (CornerInv).             *)
(***************************************************************************)
EXTENDS GuardedAcquisition, Sequences, SequenceTheorems, FiniteSetTheorems,
        WellFoundedInduction, TLAPS

RunRecord == [auth: Auth \cup {None}, as_of: Nat, control: Control,
              completed: SUBSET Obligations, batch: SUBSET Obligations,
              prepared: SUBSET Obligations, e0: {"none", "HELD", "FROZEN"}]
Places == Locked \cup {"idle", "ready"}

\* a schedule, and so a calendar, names obligations that were enumerated
Scheduled(k) == \A f \in Fixtures : k[f] \in {FirstKickoff[f] + d : d \in Delays \cup {0}}

\* the types of what decides about claims, charges and requests
ClaimTypes ==
    /\ clock \in Nat
    /\ schedule \in [Fixtures -> Nat] /\ Scheduled(schedule)
    /\ installed # None => installed \in Auth /\ Scheduled(installed.kickoff)
    /\ sessions \subseteq [experiment: Experiments, obligations: SUBSET Obligations]
    /\ pc \in [Runs -> Places]
    /\ run \in [Runs -> RunRecord]
    /\ \A r \in Runs : pc[r] # "idle" => run[r].auth \in Auth /\ Scheduled(run[r].auth.kickoff)
    /\ control \in Control
    /\ charges \in [Experiments -> Nat] /\ requests \in [Experiments -> Nat]

LockIsHeld == \A r \in Runs : pc[r] \in Locked <=> lock = r

\* experiments without a session were neither charged nor sent anything
Unclaimed ==
    \A e \in Experiments :
       /\ requests[e] <= charges[e] /\ charges[e] <= 1
       /\ ~HasSession(e) => charges[e] = 0

ClaimsDiffer ==
    /\ \A s \in sessions : s.obligations # {}
    /\ \A s, t \in sessions :
          s # t => /\ s.experiment # t.experiment
                   /\ s.obligations \cap t.obligations = {}

\* what the invocation that holds the lock knows of its experiment
Stage(r) ==
    LET e == run[r].auth.experiment IN
    /\ pc[r] = "prepare" => /\ ~HasSession(e)
                            /\ run[r].batch # {} /\ run[r].batch \cap Claimed = {}
    /\ pc[r] \in {"freeze", "recheck", "reserve"} => HasSession(e) /\ charges[e] = 0
    /\ pc[r] \in {"receipt", "send"} => HasSession(e) /\ charges[e] = 1 /\ requests[e] = 0

ClaimInv ==
    /\ ClaimTypes /\ LockIsHeld /\ Unclaimed /\ ClaimsDiffer
    /\ \A r \in Runs : Stage(r)

\* The invariant says that claims differ and that a request follows its one charge,
\* so run_once never asks twice.
THEOREM InvImpliesNeverAskedTwice == ClaimInv => NeverAskedTwice
<1>1. SUFFICES ASSUME ClaimInv PROVE NeverAskedTwice
  OBVIOUS
<1>2. \A e \in Experiments : requests[e] <= 1
  BY <1>1 DEF ClaimInv, Unclaimed, ClaimTypes
<1>. QED BY <1>1, <1>2 DEF ClaimInv, ClaimsDiffer, NeverAskedTwice

\* An empty store claims nothing.
LEMMA InitClaimInv == Init => ClaimInv
<1>1. SUFFICES ASSUME Init PROVE ClaimInv
  OBVIOUS
<1>2. NoControl \in Control
  BY AcquisitionConstants DEF NoControl, Control
<1>3. ClaimTypes
  <2>1. Scheduled(schedule)
    <3>1. \A f \in Fixtures : FirstKickoff[f] = FirstKickoff[f] + 0
      BY AcquisitionConstants
    <3>. QED BY <1>1, <3>1 DEF Init, Scheduled
  <2>2. NoRun \in RunRecord
    BY <1>2 DEF NoRun, RunRecord
  <2>. QED BY <1>1, <1>2, <2>1, <2>2, AcquisitionConstants
           DEF Init, ClaimTypes, RunRecord, Control, Places
<1>4. LockIsHeld
  BY <1>1, AcquisitionConstants DEF Init, LockIsHeld, Locked
<1>5. Unclaimed /\ ClaimsDiffer /\ \A r \in Runs : Stage(r)
  BY <1>1 DEF Init, Unclaimed, ClaimsDiffer, Stage, HasSession
<1>. QED BY <1>3, <1>4, <1>5 DEF ClaimInv

-----------------------------------------------------------------------------
(* Steps                                                                   *)

\* nobody else stands inside while one invocation does
LEMMA OthersOutside ==
    ASSUME LockIsHeld, NEW r \in Runs, pc[r] \in Locked
    PROVE  \A o \in Runs \ {r} : pc[o] \notin Locked
BY DEF LockIsHeld

\* an invocation that ends disturbs nothing
LEMMA LeaveKeepsInv ==
    ASSUME ClaimInv, NEW r \in Runs, Leave(r), control' \in Control,
           UNCHANGED <<sessions, charges, requests>>
    PROVE  ClaimInv'
<1>1. /\ pc' = [pc EXCEPT ![r] = "idle"] /\ run' = [run EXCEPT ![r] = NoRun]
      /\ pc \in [Runs -> Places] /\ run \in [Runs -> RunRecord]
  BY DEF Leave, ClaimInv, ClaimTypes
<1>2. \A o \in Runs \ {r} : pc'[o] = pc[o] /\ run'[o] = run[o]
  BY <1>1
<1>3. pc'[r] = "idle" /\ "idle" \notin Locked /\ "idle" \in Places
  BY <1>1 DEF Locked, Places
<1>4. ClaimTypes'
  <2>1. NoRun \in RunRecord
    BY AcquisitionConstants DEF NoRun, NoControl, RunRecord, Control
  <2>2. pc' \in [Runs -> Places] /\ run' \in [Runs -> RunRecord]
    BY <1>1, <1>3, <2>1
  <2>. QED BY <1>2, <1>3, <2>2 DEF ClaimInv, ClaimTypes, Leave, Scheduled
<1>5. LockIsHeld'
  BY <1>2, <1>3, AcquisitionConstants DEF ClaimInv, LockIsHeld, Leave
<1>6. Unclaimed' /\ ClaimsDiffer'
  BY DEF ClaimInv, Unclaimed, ClaimsDiffer, HasSession
<1>7. \A o \in Runs : Stage(o)'
  <2>1. Stage(r)'
    BY <1>3 DEF Stage
  <2>2. \A o \in Runs \ {r} : Stage(o)'
    BY <1>2 DEF ClaimInv, Stage, HasSession, Claimed
  <2>. QED BY <2>1, <2>2
<1>. QED BY <1>4, <1>5, <1>6, <1>7 DEF ClaimInv

\* a step of the invocation inside leaves the lock and the others as they are
LEMMA MoveInside ==
    ASSUME ClaimInv, NEW r \in Runs, pc[r] \in Locked,
           NEW to \in Locked, Move(r, to), UNCHANGED lock
    PROVE  /\ pc' \in [Runs -> Places] /\ pc'[r] = to
           /\ LockIsHeld'
           /\ \A o \in Runs \ {r} : pc'[o] = pc[o] /\ Stage(o)'
<1>1. pc \in [Runs -> Places] /\ pc' = [pc EXCEPT ![r] = to] /\ to \in Places
  BY DEF ClaimInv, ClaimTypes, Move, Places
<1>2. pc' \in [Runs -> Places] /\ pc'[r] = to /\ \A o \in Runs \ {r} : pc'[o] = pc[o]
  BY <1>1
<1>3. LockIsHeld'
  BY <1>2 DEF ClaimInv, LockIsHeld
<1>4. \A o \in Runs \ {r} : pc'[o] \notin Locked
  BY <1>2, OthersOutside DEF ClaimInv
<1>5. \A o \in Runs \ {r} : Stage(o)'
  BY <1>4 DEF Stage, Locked
<1>. QED BY <1>2, <1>3, <1>5

\* an invocation inside holds an authorization for its experiment
LEMMA InsideAuthorized ==
    ASSUME ClaimInv, NEW r \in Runs, pc[r] # "idle"
    PROVE  /\ run[r] \in RunRecord /\ run[r].auth \in Auth
           /\ run[r].auth.experiment \in Experiments
           /\ Scheduled(run[r].auth.kickoff)
BY DEF ClaimInv, ClaimTypes, Auth

\* what a step that touches no claim, charge or request keeps
LEMMA AccountsKept ==
    ASSUME ClaimInv, UNCHANGED <<sessions, charges, requests>>
    PROVE  Unclaimed' /\ ClaimsDiffer' /\ Claimed' = Claimed
           /\ \A e \in Experiments : HasSession(e)' = HasSession(e)
BY DEF ClaimInv, Unclaimed, ClaimsDiffer, HasSession, Claimed

\* a step inside that only moves on and rewrites the invocation's own memory
LEMMA InsideStepKeepsInv ==
    ASSUME ClaimInv, NEW r \in Runs, pc[r] \in Locked, NEW to \in Locked, Move(r, to),
           UNCHANGED <<lock, control, sessions, charges, requests>>,
           run' \in [Runs -> RunRecord],
           \A o \in Runs : run'[o].auth = run[o].auth, Stage(r)'
    PROVE  ClaimInv'
<1>1. ClaimTypes'
  <2>1. \A o \in Runs : pc'[o] # "idle" => pc[o] # "idle"
    BY MoveInside DEF Locked
  <2>. QED BY <2>1, MoveInside DEF ClaimInv, ClaimTypes, Move
<1>2. LockIsHeld' /\ \A o \in Runs : Stage(o)'
  BY MoveInside
<1>. QED BY <1>1, <1>2, AccountsKept DEF ClaimInv

\* The clock, the schedule, the operator and the collector touch no claim.
LEMMA EnvironmentKeepsInv ==
    ASSUME ClaimInv, Tick \/ Postpone \/ Authorize \/ Collect
    PROVE  ClaimInv'
<1>1. UNCHANGED <<sessions, charges, requests, pc, run, lock>>
  BY DEF Tick, Postpone, Authorize, Collect, store, observed
<1>2. LockIsHeld' /\ Unclaimed' /\ ClaimsDiffer' /\ \A r \in Runs : Stage(r)'
  BY <1>1 DEF ClaimInv, LockIsHeld, Unclaimed, ClaimsDiffer, Stage, HasSession, Claimed
<1>3. CASE Tick
  BY <1>1, <1>2, <1>3 DEF Tick, ClaimInv, ClaimTypes
<1>4. CASE Postpone
  <2>1. PICK f \in Fixtures, d \in Delays :
           /\ schedule[f] = FirstKickoff[f]
           /\ schedule' = [schedule EXCEPT ![f] = @ + d]
    BY <1>4 DEF Postpone
  <2>2. schedule' \in [Fixtures -> Nat] /\ Scheduled(schedule)'
    BY <2>1, AcquisitionConstants DEF ClaimInv, ClaimTypes, Scheduled
  <2>. QED BY <1>1, <1>2, <1>4, <2>2 DEF Postpone, ClaimInv, ClaimTypes
<1>5. CASE Authorize
  <2>1. PICK e \in Experiments :
           installed' = [experiment |-> e, expires |-> clock + Lifetime,
                         verified |-> clock, kickoff |-> schedule]
    BY <1>5 DEF Authorize
  <2>2. installed' \in Auth /\ Scheduled(installed'.kickoff)
    BY <2>1, AcquisitionConstants DEF ClaimInv, ClaimTypes, Scheduled, Auth
  <2>. QED BY <1>1, <1>2, <1>5, <2>2 DEF Authorize, ClaimInv, ClaimTypes
<1>6. CASE Collect
  <2>1. control' \in Control
    BY <1>6, AcquisitionConstants DEF Collect, Rolled, Month, ClaimInv, ClaimTypes, Control
  <2>. QED BY <1>1, <1>2, <1>6, <2>1 DEF Collect, ClaimInv, ClaimTypes
<1>. QED BY <1>3, <1>4, <1>5, <1>6

\* Reading the authorization before the lock commits to nothing.
LEMMA StartKeepsInv ==
    ASSUME ClaimInv, NEW r \in Runs, Start(r)
    PROVE  ClaimInv'
<1>1. /\ pc' = [pc EXCEPT ![r] = "ready"]
      /\ run' = [run EXCEPT ![r].auth = installed, ![r].as_of = clock]
      /\ pc[r] = "idle" /\ installed \in Auth /\ Scheduled(installed.kickoff)
      /\ UNCHANGED <<clock, schedule, installed, control, lock, sessions, charges, requests>>
  BY DEF Start, Move, ClaimInv, ClaimTypes, store, observed
<1>2. /\ pc' \in [Runs -> Places] /\ run' \in [Runs -> RunRecord]
      /\ run'[r].auth = installed /\ pc'[r] = "ready"
      /\ \A o \in Runs \ {r} : pc'[o] = pc[o] /\ run'[o] = run[o]
  <2> DEFINE new == [run[r] EXCEPT !.auth = installed, !.as_of = clock]
  <2>1. run \in [Runs -> RunRecord] /\ pc \in [Runs -> Places] /\ clock \in Nat
    BY DEF ClaimInv, ClaimTypes
  <2>2. new \in RunRecord /\ new.auth = installed
    BY <1>1, <2>1 DEF RunRecord
  <2>3. run' = [run EXCEPT ![r] = new]
    BY <1>1
  <2>4. "ready" \in Places
    BY DEF Places
  <2> HIDE DEF new
  <2>. QED BY <1>1, <2>1, <2>2, <2>3, <2>4
<1>3. ClaimTypes'
  BY <1>1, <1>2 DEF ClaimInv, ClaimTypes, Scheduled
<1>4. LockIsHeld'
  BY <1>1, <1>2 DEF ClaimInv, LockIsHeld, Locked
<1>5. \A o \in Runs : Stage(o)'
  BY <1>1, <1>2 DEF ClaimInv, Stage, HasSession, Claimed
<1>. QED BY <1>1, <1>3, <1>4, <1>5, AccountsKept DEF ClaimInv

\* the plan names only obligations that no session claims
LEMMA PlanIsUnclaimed ==
    ASSUME ClaimInv, NEW r \in Runs, pc[r] # "idle"
    PROVE  Plan(r) \subseteq Obligations /\ Plan(r) \cap Claimed = {}
BY InsideAuthorized DEF Plan, Outstanding, Obligations, Scheduled

\* An invocation that enters under the lock plans what nobody has claimed.
LEMMA EnterKeepsInv ==
    ASSUME ClaimInv, NEW r \in Runs, Enter(r)
    PROVE  ClaimInv'
<1>1. /\ pc' = [pc EXCEPT ![r] = "prepare"] /\ lock' = r /\ lock = None
      /\ pc[r] = "ready" /\ control' = Rolled
      /\ run' = [run EXCEPT ![r].control = Rolled, ![r].completed = Claimed,
                            ![r].batch = Plan(r)]
      /\ Plan(r) # {} /\ ~HasSession(run[r].auth.experiment)
      /\ UNCHANGED <<clock, schedule, installed, sessions, charges, requests>>
  BY DEF Enter, Move, Planned, LockFree, store, observed
<1>2. Rolled \in Control
  BY AcquisitionConstants DEF Rolled, Month, ClaimInv, ClaimTypes, Control
<1>3. Claimed \subseteq Obligations
  BY DEF Claimed, ClaimInv, ClaimTypes
<1>4. /\ pc' \in [Runs -> Places] /\ run' \in [Runs -> RunRecord] /\ pc'[r] = "prepare"
      /\ run'[r].auth = run[r].auth /\ run'[r].batch = Plan(r)
      /\ \A o \in Runs \ {r} : pc'[o] = pc[o] /\ run'[o] = run[o]
  <2> DEFINE new == [run[r] EXCEPT !.control = Rolled, !.completed = Claimed,
                                   !.batch = Plan(r)]
  <2>1. run \in [Runs -> RunRecord] /\ pc \in [Runs -> Places]
    BY DEF ClaimInv, ClaimTypes
  <2>2. Plan(r) \subseteq Obligations
    BY <1>1, PlanIsUnclaimed
  <2>3. new \in RunRecord /\ new.auth = run[r].auth /\ new.batch = Plan(r)
    BY <1>2, <1>3, <2>1, <2>2 DEF RunRecord
  <2>4. run' = [run EXCEPT ![r] = new]
    BY <1>1
  <2>5. "prepare" \in Places
    BY DEF Places, Locked
  <2> HIDE DEF new
  <2>. QED BY <1>1, <2>1, <2>3, <2>4, <2>5
<1>5. ClaimTypes'
  BY <1>1, <1>2, <1>4 DEF ClaimInv, ClaimTypes
<1>6. \A o \in Runs \ {r} : pc[o] \notin Locked
  BY <1>1, AcquisitionConstants DEF ClaimInv, LockIsHeld
<1>7. LockIsHeld'
  BY <1>1, <1>4, <1>6 DEF LockIsHeld, Locked
<1>8. \A o \in Runs : Stage(o)'
  <2>1. Stage(r)'
    BY <1>1, <1>4, PlanIsUnclaimed DEF Stage, HasSession, Claimed
  <2>2. \A o \in Runs \ {r} : Stage(o)'
    BY <1>4, <1>6 DEF Stage, Locked
  <2>. QED BY <2>1, <2>2
<1>. QED BY <1>1, <1>5, <1>7, <1>8, AccountsKept DEF ClaimInv

\* An invocation that ends under the lock without a claim leaves the store alone.
LEMMA DeclineKeepsInv ==
    ASSUME ClaimInv, NEW r \in Runs, Decline(r)
    PROVE  ClaimInv'
<1>1. Rolled \in Control /\ control \in Control
  BY AcquisitionConstants DEF Rolled, Month, ClaimInv, ClaimTypes, Control
<1>2. control' \in Control /\ Leave(r) /\ UNCHANGED <<sessions, charges, requests>>
  BY <1>1 DEF Decline, store, observed
<1>. QED BY <1>2, LeaveKeepsInv

\* Ending an invocation releases the lock and keeps every file.
LEMMA EndKeepsInv ==
    ASSUME ClaimInv, NEW r \in Runs,
           TransportRejected(r) \/ ProcessingRejected(r) \/ Complete(r) \/ Stop(r)
    PROVE  ClaimInv'
<1>1. control \in Control
  BY DEF ClaimInv, ClaimTypes
<1>2. Leave(r) /\ UNCHANGED <<control, sessions, charges, requests>>
  BY DEF TransportRejected, ProcessingRejected, Complete, Stop, Finish, store, observed
<1>. QED BY <1>1, <1>2, LeaveKeepsInv

\* Preparing forecasts keeps the plan unclaimed, as the lock is held.
LEMMA PrepareKeepsInv ==
    ASSUME ClaimInv, NEW r \in Runs, Prepare(r)
    PROVE  ClaimInv'
<1>1. PICK o \in ToPrepare(r) : run' = [run EXCEPT ![r].prepared = @ \cup {o}]
  BY DEF Prepare
<1>2. /\ pc[r] = "prepare"
      /\ UNCHANGED <<clock, schedule, installed, control, lock, sessions, pc, charges, requests>>
  BY DEF Prepare, observed
<1> DEFINE new == [run[r] EXCEPT !.prepared = @ \cup {o}]
<1>3. run \in [Runs -> RunRecord] /\ run[r] \in RunRecord
  BY DEF ClaimInv, ClaimTypes
<1>4. new \in RunRecord /\ new.auth = run[r].auth /\ new.batch = run[r].batch
  BY <1>1, <1>3 DEF RunRecord, ToPrepare
<1>5. run' = [run EXCEPT ![r] = new]
  BY <1>1, <1>3
<1> HIDE DEF new
<1>6. /\ run' \in [Runs -> RunRecord]
      /\ \A q \in Runs : run'[q].auth = run[q].auth /\ run'[q].batch = run[q].batch
  BY <1>3, <1>4, <1>5
<1>7. ClaimTypes'
  BY <1>2, <1>6 DEF ClaimInv, ClaimTypes
<1>8. LockIsHeld' /\ \A q \in Runs : Stage(q)'
  BY <1>2, <1>6 DEF ClaimInv, LockIsHeld, Stage, HasSession, Claimed
<1>. QED BY <1>2, <1>7, <1>8, AccountsKept DEF ClaimInv

\* The claim is new for its experiment and disjoint from the others.
LEMMA ClaimKeepsInv ==
    ASSUME ClaimInv, NEW r \in Runs, Claim(r)
    PROVE  ClaimInv'
<1> DEFINE e == run[r].auth.experiment
           s == [experiment |-> e, obligations |-> run[r].batch]
           to == IF FreezeE0 /\ HasE0(r) THEN "freeze" ELSE "reserve"
<1>1. /\ pc[r] = "prepare" /\ "prepare" \in Locked /\ to \in {"freeze", "reserve"}
      /\ sessions' = sessions \cup {s}
      /\ Move(r, to)
      /\ UNCHANGED <<clock, schedule, installed, control, lock, run, charges, requests>>
  BY DEF Claim, Move, observed, Locked
<1>2. /\ run[r] \in RunRecord /\ run \in [Runs -> RunRecord]
      /\ e \in Experiments /\ run[r].batch \subseteq Obligations
  BY <1>1, InsideAuthorized DEF ClaimInv, ClaimTypes, RunRecord
<1>3. ~HasSession(e) /\ run[r].batch \cap Claimed = {} /\ run[r].batch # {}
  BY <1>1 DEF ClaimInv, Stage
<1>4. /\ pc' \in [Runs -> Places] /\ pc'[r] = to /\ LockIsHeld'
      /\ \A q \in Runs \ {r} : pc'[q] = pc[q] /\ Stage(q)'
  BY <1>1, MoveInside DEF Locked
<1>5. ClaimTypes'
  <2>1. s \in [experiment: Experiments, obligations: SUBSET Obligations]
    BY <1>2
  <2>2. \A q \in Runs : pc'[q] # "idle" => pc[q] # "idle"
    BY <1>1, <1>4
  <2>. QED BY <1>1, <1>4, <2>1, <2>2 DEF ClaimInv, ClaimTypes
<1>6. HasSession(e)' /\ \A x \in Experiments : HasSession(x) => HasSession(x)'
  <2>1. s \in sessions' /\ s.experiment = e /\ e' = e /\ sessions \subseteq sessions'
    BY <1>1
  <2> HIDE DEF s, e
  <2>2. HasSession(e)'
    BY <2>1 DEF HasSession
  <2>3. \A x \in Experiments : HasSession(x) => HasSession(x)'
    BY <2>1 DEF HasSession
  <2>. QED BY <2>2, <2>3
<1>7. Unclaimed'
  BY <1>1, <1>6 DEF ClaimInv, Unclaimed
<1>8. ClaimsDiffer'
  <2>1. \A t \in sessions : t.experiment # e /\ t.obligations \cap run[r].batch = {}
    BY <1>3 DEF HasSession, Claimed
  <2>. QED BY <1>1, <1>3, <2>1 DEF ClaimInv, ClaimsDiffer
<1>9. Stage(r)'
  <2>1. charges[e] = 0
    BY <1>2, <1>3 DEF ClaimInv, Unclaimed
  <2>. QED BY <1>1, <1>4, <1>6, <2>1 DEF Stage
<1>. QED BY <1>4, <1>5, <1>7, <1>8, <1>9 DEF ClaimInv

\* Freezing and rechecking the Premier League forecasts charges nothing.
LEMMA FreezeKeepsInv ==
    ASSUME ClaimInv, NEW r \in Runs, Freeze(r) \/ Recheck(r) \/ Answer(r)
    PROVE  ClaimInv'
<1>1. run \in [Runs -> RunRecord] /\ run[r] \in RunRecord
  BY DEF ClaimInv, ClaimTypes
<1>2. PICK v \in {"none", "HELD", "FROZEN"} : run' = [run EXCEPT ![r].e0 = v]
  <2>1. CASE run' = [run EXCEPT ![r].e0 = "FROZEN"]
    BY <2>1
  <2>2. CASE run' = [run EXCEPT ![r].e0 = "HELD"]
    BY <2>2
  <2>3. CASE run' = run
    <3>1. run[r] = [run[r] EXCEPT !.e0 = run[r].e0]
      BY <1>1 DEF RunRecord
    <3>2. run[r].e0 \in {"none", "HELD", "FROZEN"} /\ run = [run EXCEPT ![r].e0 = run[r].e0]
      BY <1>1, <3>1 DEF RunRecord
    <3>. QED BY <2>3, <3>2
  <2>. QED BY <2>1, <2>2, <2>3 DEF Freeze, Recheck, Answer, HoldE0
<1> DEFINE new == [run[r] EXCEPT !.e0 = v]
<1>3. new \in RunRecord /\ new.auth = run[r].auth
  BY <1>1 DEF RunRecord
<1>4. run' = [run EXCEPT ![r] = new]
  BY <1>1, <1>2
<1> HIDE DEF new
<1>5. run' \in [Runs -> RunRecord] /\ \A q \in Runs : run'[q].auth = run[q].auth
  BY <1>1, <1>3, <1>4
<1>6. PICK to \in {"recheck", "reserve", "payload"} :
         Move(r, to) /\ (pc[r] \in {"freeze", "recheck"} \/ to = "payload")
  BY DEF Freeze, Recheck, Answer
<1>7. /\ pc[r] \in Locked /\ to \in Locked
      /\ UNCHANGED <<lock, control, sessions, charges, requests>>
  BY DEF Freeze, Recheck, Answer, Put, store, observed, Locked
<1>8. Stage(r)'
  BY <1>5, <1>6, <1>7, MoveInside DEF ClaimInv, Stage, HasSession
<1>. QED BY <1>5, <1>6, <1>7, <1>8, InsideStepKeepsInv

\* A claimed experiment is charged once.
LEMMA ReserveKeepsInv ==
    ASSUME ClaimInv, NEW r \in Runs, Reserve(r)
    PROVE  ClaimInv'
<1> DEFINE e == run[r].auth.experiment
           new == [run[r] EXCEPT !.control.reserved = @ + 1]
<1>1. /\ pc[r] = "reserve" /\ "reserve" \in Locked /\ "receipt" \in Locked
      /\ run[r].control.reserved < Allowance
      /\ control' = [run[r].control EXCEPT !.reserved = @ + 1]
      /\ run' = [run EXCEPT ![r].control.reserved = @ + 1]
      /\ charges' = [charges EXCEPT ![e] = @ + 1]
      /\ Move(r, "receipt")
      /\ UNCHANGED <<clock, schedule, installed, lock, sessions, requests>>
  BY DEF Reserve, Move, store, Locked
<1>2. /\ run[r] \in RunRecord /\ run \in [Runs -> RunRecord] /\ e \in Experiments
      /\ charges \in [Experiments -> Nat] /\ requests \in [Experiments -> Nat]
  BY <1>1, InsideAuthorized DEF ClaimInv, ClaimTypes
<1>3. run[r].control \in Control /\ control' \in Control
  <2>1. run[r].control \in Control
    BY <1>2 DEF RunRecord
  <2>. QED BY <1>1, <2>1, AcquisitionConstants DEF Control
<1>4. new \in RunRecord /\ new.auth = run[r].auth
  <2>1. new = [run[r] EXCEPT !.control = control']
    BY <1>1, <1>2 DEF RunRecord, Control
  <2>. QED BY <1>2, <1>3, <2>1 DEF RunRecord
<1>5. run' = [run EXCEPT ![r] = new]
  BY <1>1, <1>2
<1> HIDE DEF new
<1>6. run' \in [Runs -> RunRecord] /\ \A q \in Runs : run'[q].auth = run[q].auth
  BY <1>2, <1>4, <1>5
<1>7. HasSession(e) /\ charges[e] = 0
  BY <1>1 DEF ClaimInv, Stage
<1>8. /\ charges' \in [Experiments -> Nat] /\ charges'[e] = 1
      /\ \A x \in Experiments \ {e} : charges'[x] = charges[x]
  BY <1>1, <1>2, <1>7
<1>9. requests[e] = 0
  BY <1>2, <1>7 DEF ClaimInv, Unclaimed
<1>10. /\ pc' \in [Runs -> Places] /\ pc'[r] = "receipt" /\ LockIsHeld'
       /\ \A q \in Runs \ {r} : pc'[q] = pc[q] /\ Stage(q)'
  BY <1>1, MoveInside
<1>11. ClaimTypes'
  <2>1. \A q \in Runs : pc'[q] # "idle" => pc[q] # "idle"
    BY <1>1, <1>10
  <2>. QED BY <1>1, <1>3, <1>6, <1>8, <1>10, <2>1 DEF ClaimInv, ClaimTypes
<1>12. Unclaimed' /\ ClaimsDiffer'
  BY <1>1, <1>2, <1>7, <1>8, <1>9 DEF ClaimInv, Unclaimed, ClaimsDiffer, HasSession
<1>13. Stage(r)'
  BY <1>1, <1>6, <1>7, <1>8, <1>9, <1>10 DEF Stage, HasSession
<1>. QED BY <1>10, <1>11, <1>12, <1>13 DEF ClaimInv

\* A charged experiment asks once.
LEMMA SendKeepsInv ==
    ASSUME ClaimInv, NEW r \in Runs, Send(r)
    PROVE  ClaimInv'
<1> DEFINE e == run[r].auth.experiment
<1>1. /\ pc[r] = "send" /\ "send" \in Locked /\ "wait" \in Locked
      /\ requests' = [requests EXCEPT ![e] = @ + 1]
      /\ Move(r, "wait")
      /\ UNCHANGED <<clock, schedule, installed, control, lock, sessions, run, charges>>
  BY DEF Send, Move, store, Locked
<1>2. /\ e \in Experiments /\ charges \in [Experiments -> Nat]
      /\ requests \in [Experiments -> Nat]
  BY <1>1, InsideAuthorized DEF ClaimInv, ClaimTypes
<1>3. charges[e] = 1 /\ requests[e] = 0
  BY <1>1 DEF ClaimInv, Stage
<1>4. /\ requests' \in [Experiments -> Nat] /\ requests'[e] = 1
      /\ \A x \in Experiments \ {e} : requests'[x] = requests[x]
  BY <1>1, <1>2, <1>3
<1>5. /\ pc' \in [Runs -> Places] /\ pc'[r] = "wait" /\ LockIsHeld'
      /\ \A q \in Runs \ {r} : pc'[q] = pc[q] /\ Stage(q)'
  BY <1>1, MoveInside
<1>6. ClaimTypes'
  <2>1. \A q \in Runs : pc'[q] # "idle" => pc[q] # "idle"
    BY <1>1, <1>5
  <2>. QED BY <1>1, <1>4, <1>5, <2>1 DEF ClaimInv, ClaimTypes
<1>7. Unclaimed' /\ ClaimsDiffer'
  BY <1>1, <1>2, <1>3, <1>4 DEF ClaimInv, Unclaimed, ClaimsDiffer, HasSession
<1>8. Stage(r)'
  BY <1>5 DEF Stage
<1>. QED BY <1>5, <1>6, <1>7, <1>8 DEF ClaimInv

\* Storing payload, snapshot, consumers, handoff and receipt asks nothing.
LEMMA EvidenceKeepsInv ==
    ASSUME ClaimInv, NEW r \in Runs, StoreReservation(r) \/ StoreEvidence(r)
    PROVE  ClaimInv'
<1>1. PICK to \in {"send", "payload", "snapshot", "consumer", "handoff", "complete"} :
         /\ Move(r, to)
         /\ pc[r] = "receipt" <=> to = "send"
  <2>1. CASE StoreReservation(r)
    BY <2>1 DEF StoreReservation
  <2>2. CASE StoreEvidence(r)
    BY <2>2 DEF StoreEvidence, Following
  <2>. QED BY <2>1, <2>2
<1>2. pc[r] \in Locked /\ to \in Locked
  BY DEF StoreReservation, StoreEvidence, Following, Locked
<1>3. UNCHANGED <<lock, control, sessions, charges, requests, run>>
  BY DEF StoreReservation, StoreEvidence, Put, store, observed
<1>4. run' \in [Runs -> RunRecord] /\ \A q \in Runs : run'[q].auth = run[q].auth
  BY <1>3 DEF ClaimInv, ClaimTypes
<1>5. Stage(r)'
  BY <1>1, <1>2, <1>3, MoveInside DEF ClaimInv, Stage, HasSession
<1>. QED BY <1>1, <1>2, <1>3, <1>4, <1>5, InsideStepKeepsInv

\* Every step keeps the invariant.
LEMMA NextKeepsClaimInv == ClaimInv /\ [Next]_vars => ClaimInv'
<1>1. SUFFICES ASSUME ClaimInv, [Next]_vars PROVE ClaimInv'
  OBVIOUS
<1>2. CASE UNCHANGED vars
  <2>1. UNCHANGED <<clock, schedule, installed, control, lock, sessions, pc, run,
                    charges, requests>>
    BY <1>2 DEF vars, store, observed
  <2>. QED BY <1>1, <2>1 DEF ClaimInv, ClaimTypes, LockIsHeld, Unclaimed, ClaimsDiffer,
                             Stage, HasSession, Claimed
<1>3. CASE Next
  BY <1>1, <1>3, EnvironmentKeepsInv, StartKeepsInv, EnterKeepsInv, DeclineKeepsInv,
     PrepareKeepsInv, ClaimKeepsInv, FreezeKeepsInv, ReserveKeepsInv, SendKeepsInv,
     EvidenceKeepsInv, EndKeepsInv DEF Next
<1>. QED BY <1>1, <1>2, <1>3

\* In every reachable state claims are disjoint, and each invocation past its claim
\* is the only one that can charge and send for it.
THEOREM ClaimInvariant == Spec => []ClaimInv
BY InitClaimInv, NextKeepsClaimInv, PTL DEF Spec

\* Whatever crashes, overlapping invocations and new authorizations do, an
\* experiment sends at most one request, and no fixture at its kickoff is
\* claimed by two experiments.
THEOREM AskedOnce == Spec => []NeverAskedTwice
BY ClaimInvariant, InvImpliesNeverAskedTwice, PTL

-----------------------------------------------------------------------------
(* The shared account                                                         *)

\* control.json says what was spent in its month, which is not a later one than the
\* clock's; nothing was spent in a month to come, and the invocation under the lock
\* holds the saved control in memory.
AccountInv ==
    /\ spent \in [{0, 1} -> Nat]
    /\ SharedAccounting
    /\ control.month = 0 => spent[1] = 0
    /\ control.month = 1 => Month(clock) = 1
    /\ \A r \in Runs : pc[r] \in Locked => run[r].control = control

\* What the one-shot operator charged left the reserve floor.
FloorInv ==
    \A r \in Runs : pc[r] \in {"receipt", "send"} /\ OneShot =>
        control.reserved + Floor <= Allowance

LEMMA InitAccountInv == Init => AccountInv /\ FloorInv
BY AcquisitionConstants DEF Init, NoControl, AccountInv, FloorInv, SharedAccounting, Locked

\* a step that leaves the account, and does not enter the lock
LEMMA AccountUntouched ==
    ASSUME AccountInv, FloorInv, UNCHANGED <<control, spent>>,
           Month(clock) <= Month(clock'), Month(clock') \in {0, 1},
           \A o \in Runs : pc'[o] \in Locked =>
               pc[o] \in Locked /\ run'[o].control = run[o].control,
           \A o \in Runs : pc'[o] \in {"receipt", "send"} => pc[o] \in {"receipt", "send"}
    PROVE  AccountInv' /\ FloorInv'
<1>1. Month(clock)' = Month(clock')
  BY DEF Month
<1>2. control'.month = 1 => Month(clock') = 1
  BY DEF AccountInv, Month
<1>. QED BY <1>1, <1>2 DEF AccountInv, FloorInv, SharedAccounting

\* brought to the current month, the saved control still says what was spent in it
LEMMA RolledAccount ==
    ASSUME AccountInv, control \in Control, clock \in Nat
    PROVE  /\ Rolled \in Control
           /\ Rolled.month = Month(clock) /\ Rolled.reserved = spent[Month(clock)]
           /\ Month(clock) = 0 => control.month = 0
<1>1. Month(clock) \in {0, 1}
  BY AcquisitionConstants DEF Month
<1>2. Rolled \in Control
  BY <1>1, AcquisitionConstants DEF Rolled, Control
<1>. QED BY <1>1, <1>2 DEF Rolled, AccountInv, SharedAccounting, Control

\* Entering or declining under the lock saves the control of the current month.
LEMMA RollKeepsAccount ==
    ASSUME ClaimInv, AccountInv, FloorInv, NEW r \in Runs, Enter(r) \/ Decline(r)
    PROVE  AccountInv' /\ FloorInv'
<1>1. UNCHANGED <<clock, spent>> /\ control' \in {control, Rolled}
  BY DEF Enter, Decline, Move, Leave, observed
<1>2. control \in Control /\ clock \in Nat /\ run \in [Runs -> RunRecord] /\ pc \in [Runs -> Places]
  BY DEF ClaimInv, ClaimTypes
<1>3. /\ spent' \in [{0, 1} -> Nat] /\ SharedAccounting'
      /\ control'.month = 0 => spent'[1] = 0
      /\ control'.month = 1 => Month(clock') = 1
  BY <1>1, <1>2, RolledAccount DEF AccountInv, SharedAccounting
<1>4. CASE Enter(r)
  <2>1. /\ \A o \in Runs : pc[o] \notin Locked
        /\ control' = Rolled /\ pc' = [pc EXCEPT ![r] = "prepare"]
        /\ run' = [run EXCEPT ![r].control = Rolled, ![r].completed = Claimed,
                              ![r].batch = Plan(r)]
    BY <1>4, AcquisitionConstants DEF Enter, Move, LockFree, ClaimInv, LockIsHeld
  <2>2. \A o \in Runs \ {r} : pc'[o] \notin Locked
    BY <1>2, <2>1
  <2>3. pc'[r] = "prepare" /\ run'[r].control = control'
    <3> DEFINE new == [run[r] EXCEPT !.control = Rolled, !.completed = Claimed,
                                     !.batch = Plan(r)]
    <3>1. new.control = Rolled
      BY <1>2 DEF RunRecord
    <3>2. run'[r] = new
      BY <1>2, <2>1
    <3> HIDE DEF new
    <3>. QED BY <1>2, <2>1, <3>1, <3>2
  <2>. QED BY <1>1, <1>3, <2>2, <2>3 DEF AccountInv, FloorInv, Month, Locked
<1>5. CASE Decline(r)
  <2>1. control' # control => \A o \in Runs : pc[o] \notin Locked
    BY <1>5, AcquisitionConstants DEF Decline, LockFree, ClaimInv, LockIsHeld
  <2>2. pc' = [pc EXCEPT ![r] = "idle"] /\ run' = [run EXCEPT ![r] = NoRun]
    BY <1>5 DEF Decline, Leave
  <2>3. \A o \in Runs : pc'[o] \in Locked =>
            pc'[o] = pc[o] /\ control' = control /\ run'[o] = run[o]
    BY <1>2, <2>1, <2>2 DEF Locked
  <2>. QED BY <1>1, <1>3, <2>3 DEF AccountInv, FloorInv, Month, Locked
<1>. QED BY <1>4, <1>5

\* The collector reserves under the same lock.
LEMMA CollectKeepsAccount ==
    ASSUME ClaimInv, AccountInv, FloorInv, Collect
    PROVE  AccountInv' /\ FloorInv'
<1>1. /\ control' = [Rolled EXCEPT !.reserved = @ + 1]
      /\ spent' = [spent EXCEPT ![Month(clock)] = @ + 1]
      /\ UNCHANGED <<clock, pc, run>>
  BY DEF Collect
<1>2. \A o \in Runs : pc'[o] \notin Locked
  BY <1>1, AcquisitionConstants DEF Collect, LockFree, ClaimInv, LockIsHeld
<1>3. control \in Control /\ clock \in Nat /\ Month(clock) \in {0, 1}
  BY AcquisitionConstants DEF ClaimInv, ClaimTypes, Month
<1>4. /\ Rolled \in Control /\ Rolled.month = Month(clock)
      /\ Rolled.reserved = spent[Month(clock)]
  BY <1>3, RolledAccount
<1>5. control'.month = Month(clock) /\ control'.reserved = spent[Month(clock)] + 1
  BY <1>1, <1>4 DEF Control
<1>6. spent' \in [{0, 1} -> Nat] /\ spent'[Month(clock)] = spent[Month(clock)] + 1
      /\ (Month(clock) = 0 => spent'[1] = spent[1])
  BY <1>1, <1>3 DEF AccountInv
<1>7. Month(clock) = 0 => spent[1] = 0
  BY <1>3, RolledAccount DEF AccountInv
<1>8. Month(clock') = Month(clock)
  BY <1>1
<1>. QED BY <1>2, <1>5, <1>6, <1>7, <1>8 DEF AccountInv, FloorInv, SharedAccounting, Locked, Month

\* A reservation is saved from memory, in the month it was read in.
LEMMA ReserveKeepsAccount ==
    ASSUME ClaimInv, AccountInv, FloorInv, NEW r \in Runs, Reserve(r)
    PROVE  AccountInv' /\ FloorInv'
<1>1. /\ pc[r] \in Locked /\ run[r].control = control /\ control \in Control
      /\ run \in [Runs -> RunRecord] /\ pc \in [Runs -> Places] /\ run[r].control \in Control
  BY DEF Reserve, AccountInv, ClaimInv, ClaimTypes, Locked, RunRecord
<1>2. /\ control' = [control EXCEPT !.reserved = @ + 1]
      /\ run' = [run EXCEPT ![r].control.reserved = @ + 1]
      /\ spent' = [spent EXCEPT ![control.month] = @ + 1]
      /\ pc' = [pc EXCEPT ![r] = "receipt"] /\ clock' = clock
      /\ Month(clock) = control.month
      /\ OneShot => control.reserved + 1 + Floor <= Allowance
  BY <1>1 DEF Reserve, Move, FloorKept
<1>3. /\ control'.month = control.month /\ control'.reserved = control.reserved + 1
      /\ control.month \in {0, 1} /\ control.reserved \in Nat
  BY <1>1, <1>2 DEF Control
<1>4. /\ spent' \in [{0, 1} -> Nat] /\ spent'[control.month] = spent[control.month] + 1
      /\ control.month = 0 => spent'[1] = spent[1]
  BY <1>2, <1>3 DEF AccountInv
<1>5. run'[r].control = control'
  <2> DEFINE new == [run[r] EXCEPT !.control = control']
  <2>1. new.control = control' /\ run' = [run EXCEPT ![r] = new]
    BY <1>1, <1>2 DEF RunRecord, Control
  <2> HIDE DEF new
  <2>. QED BY <1>1, <2>1
<1>6. \A o \in Runs \ {r} : pc'[o] \notin Locked
  BY <1>1, <1>2, OthersOutside DEF ClaimInv
<1>7. Month(clock') = Month(clock)
  BY <1>2
<1>8. \A o \in Runs : pc'[o] \in Locked => run'[o].control = control'
  BY <1>5, <1>6
<1>9. OneShot => control'.reserved + Floor <= Allowance
  BY <1>2, <1>3, AcquisitionConstants
<1>. QED BY <1>3, <1>4, <1>7, <1>8, <1>9 DEF AccountInv, FloorInv, SharedAccounting, Month

\* the steps that only move on
LEMMA MoveKeepsAccount ==
    ASSUME ClaimInv, AccountInv, FloorInv, NEW r \in Runs,
           \/ Start(r) \/ Prepare(r) \/ Claim(r) \/ Freeze(r) \/ Recheck(r)
           \/ StoreReservation(r) \/ Send(r) \/ Answer(r) \/ StoreEvidence(r)
    PROVE  AccountInv' /\ FloorInv'
<1>1. UNCHANGED <<control, spent, clock>>
  BY DEF Start, Prepare, Claim, Freeze, Recheck, StoreReservation, Send, Answer,
         StoreEvidence, Move, observed
<1>2. pc \in [Runs -> Places] /\ run \in [Runs -> RunRecord]
  BY DEF ClaimInv, ClaimTypes
<1>3. \A o \in Runs \ {r} : pc'[o] = pc[o] /\ run'[o] = run[o]
  BY <1>2 DEF Start, Prepare, Claim, Freeze, Recheck, StoreReservation, Send, Answer,
         StoreEvidence, Move, HoldE0
<1>4. pc'[r] \in Locked => pc[r] \in Locked
  BY <1>2 DEF Start, Prepare, Claim, Freeze, Recheck, StoreReservation, Send, Answer,
         StoreEvidence, Following, Move, Locked
<1>5. run'[r].control = run[r].control
  <2>1. CASE Start(r)
    BY <1>2, <2>1 DEF Start, RunRecord
  <2>2. CASE Prepare(r)
    BY <1>2, <2>2 DEF Prepare, RunRecord
  <2>3. CASE Freeze(r) \/ Recheck(r) \/ Answer(r)
    BY <1>2, <2>3 DEF Freeze, Recheck, Answer, HoldE0, RunRecord
  <2>4. CASE Claim(r) \/ StoreReservation(r) \/ Send(r) \/ StoreEvidence(r)
    BY <2>4 DEF Claim, StoreReservation, Send, StoreEvidence
  <2>. QED BY <2>1, <2>2, <2>3, <2>4
<1>6. pc'[r] \in {"receipt", "send"} => pc[r] \in {"receipt", "send"}
  BY <1>2 DEF Start, Prepare, Claim, Freeze, Recheck, StoreReservation, Send, Answer,
         StoreEvidence, Following, Move
<1>7. Month(clock') = Month(clock) /\ Month(clock) \in {0, 1}
  BY <1>1 DEF Month
<1>8. \A o \in Runs : pc'[o] \in Locked =>
          pc[o] \in Locked /\ run'[o].control = run[o].control
  BY <1>3, <1>4, <1>5
<1>9. \A o \in Runs : pc'[o] \in {"receipt", "send"} => pc[o] \in {"receipt", "send"}
  BY <1>3, <1>6
<1>. QED BY <1>1, <1>7, <1>8, <1>9, AccountUntouched

\* The account is kept, and with it the floor, by every step.
LEMMA NextKeepsAccount ==
    ClaimInv /\ AccountInv /\ FloorInv /\ [Next]_vars => AccountInv' /\ FloorInv'
<1>1. SUFFICES ASSUME ClaimInv, AccountInv, FloorInv, [Next]_vars
               PROVE  AccountInv' /\ FloorInv'
  OBVIOUS
<1>2. pc \in [Runs -> Places] /\ clock \in Nat
  BY <1>1 DEF ClaimInv, ClaimTypes
<1>3. CASE Tick \/ Postpone \/ Authorize \/ UNCHANGED vars
  <2>1. UNCHANGED <<control, spent, pc, run>> /\ clock' \in {clock, clock + 1}
    BY <1>3 DEF Tick, Postpone, Authorize, vars, observed
  <2>2. Month(clock) <= Month(clock') /\ Month(clock') \in {0, 1}
    BY <1>2, <2>1, AcquisitionConstants DEF Month
  <2>. QED BY <1>1, <2>1, <2>2, AccountUntouched
<1>4. ASSUME NEW r \in Runs,
             TransportRejected(r) \/ ProcessingRejected(r) \/ Complete(r) \/ Stop(r)
      PROVE  AccountInv' /\ FloorInv'
  <2>1. Leave(r) /\ UNCHANGED <<control, spent>>
    BY <1>4 DEF TransportRejected, ProcessingRejected, Complete, Stop, Finish, observed
  <2>2. /\ pc' = [pc EXCEPT ![r] = "idle"] /\ run' = [run EXCEPT ![r] = NoRun]
        /\ clock' = clock /\ run \in [Runs -> RunRecord]
    BY <1>1, <2>1 DEF Leave, ClaimInv, ClaimTypes
  <2>3. \A o \in Runs : pc'[o] # "idle" => pc'[o] = pc[o] /\ run'[o] = run[o]
    BY <1>2, <2>2
  <2>4. Month(clock') = Month(clock) /\ Month(clock) \in {0, 1}
    BY <2>2 DEF Month
  <2>. QED BY <1>1, <2>1, <2>3, <2>4, AccountUntouched DEF Locked
<1>. QED BY <1>1, <1>3, <1>4, RollKeepsAccount, CollectKeepsAccount, ReserveKeepsAccount,
            MoveKeepsAccount DEF Next

\* Every reachable state keeps the account.
THEOREM AccountInvariant == Spec => [](AccountInv /\ FloorInv)
BY ClaimInvariant, InitAccountInv, NextKeepsAccount, PTL DEF Spec

\* The collector and the guarded acquisition share one account: no save of either
\* loses a reservation of the other or carries one into another month.
THEOREM OneAccount == Spec => []SharedAccounting
<1>1. AccountInv => SharedAccounting
  BY DEF AccountInv
<1>. QED BY <1>1, AccountInvariant, PTL

\* A request of the one-shot operator leaves under the installed, unexpired
\* authorization, in the month of its charge, above the reserve floor.
THEOREM OperatorAuthorized ==
    ASSUME OneShot
    PROVE  Spec => OperatorRequestsStayAuthorized
<1>1. ClaimInv /\ AccountInv /\ FloorInv /\ [Next]_vars => [OperatorStaysAuthorized]_vars
  <2>1. SUFFICES ASSUME ClaimInv, AccountInv, FloorInv, Next, NEW r \in Runs,
                        pc[r] = "send", pc'[r] = "wait"
                 PROVE  /\ installed = run[r].auth /\ clock < installed.expires
                        /\ control.month = Month(clock)
                        /\ control.reserved + Floor <= Allowance
    BY DEF OperatorStaysAuthorized
  <2>2. pc \in [Runs -> Places] /\ run[r].control = control
    BY <2>1 DEF ClaimInv, ClaimTypes, AccountInv, Locked
  <2>3. Send(r)
    <3>1. PICK o \in Runs :
             \/ Start(o) \/ Enter(o) \/ Decline(o) \/ Claim(o)
             \/ Freeze(o) \/ Recheck(o) \/ Reserve(o) \/ StoreReservation(o) \/ Send(o)
             \/ Answer(o) \/ TransportRejected(o) \/ StoreEvidence(o)
             \/ ProcessingRejected(o) \/ Complete(o) \/ Stop(o)
      BY <2>1 DEF Next, Tick, Postpone, Authorize, Collect, Prepare
    <3>2. \E x : pc' = [pc EXCEPT ![o] = x]
      BY <3>1 DEF Start, Enter, Decline, Claim, Freeze, Recheck, Reserve, StoreReservation,
         Send, Answer, TransportRejected, StoreEvidence, ProcessingRejected, Complete, Stop,
         Finish, Leave, Move
    <3>3. o = r
      BY <2>1, <2>2, <3>2
    <3>4. ~(Decline(r) \/ TransportRejected(r) \/ ProcessingRejected(r) \/ Complete(r) \/ Stop(r))
      BY <2>1, <2>2 DEF Decline, TransportRejected, ProcessingRejected, Complete, Stop,
         Finish, Leave
    <3>5. ~StoreEvidence(r)
      BY <2>1 DEF StoreEvidence, Following
    <3>. QED BY <2>1, <3>1, <3>3, <3>4, <3>5 DEF Start, Enter, Claim, Freeze, Recheck, Reserve,
                StoreReservation, Answer
  <2>. QED BY <2>1, <2>2, <2>3 DEF Send, OperatorWindow, FloorInv
<1>. QED BY <1>1, ClaimInvariant, AccountInvariant, PTL DEF Spec, OperatorRequestsStayAuthorized

-----------------------------------------------------------------------------
(* What is on file                                                            *)

\* the records on file, and in memory, are of their kinds
FileTypes ==
    /\ forecasts \subseteq Obligations
    /\ files \in [Kinds -> SUBSET Experiments]
    /\ receipts \subseteq [experiment: Experiments, e0: {"none", "HELD", "FROZEN"},
                            status: {"RECORDED", "REJECTED", "REVIEW"}]

\* a claim comes after the Championship forecasts, a request after the reservation
FilesPrecede ==
    /\ \A r \in Runs : run[r].prepared \subseteq forecasts
    /\ \A s \in sessions : \A o \in s.obligations :
          o.fixture \in Championship => o \in forecasts
    /\ \A e \in Experiments : requests[e] > 0 => e \in files["reservation"]

\* the evidence behind each place of the invocation, and the Premier League's part in it
Evidence(r) ==
    LET e == run[r].auth.experiment IN
    /\ pc[r] \in {"send", "wait", "payload", "snapshot", "consumer", "handoff", "complete"} =>
          e \in files["reservation"]
    /\ pc[r] \in {"snapshot", "consumer", "handoff", "complete"} => e \in files["payload"]
    /\ pc[r] \in {"consumer", "handoff", "complete"} => e \in files["snapshot"]
    /\ pc[r] \in {"handoff", "complete"} => e \in files["consumer"]
    /\ pc[r] = "complete" /\ FreezeE0 /\ HasE0(r) => e \in files["handoff"]
    /\ pc[r] = "freeze" => FreezeE0 /\ HasE0(r)
    /\ pc[r] \in {"idle", "ready"} => run[r].e0 = "none"
    /\ run[r].e0 = "FROZEN" => FreezeE0 /\ HasE0(r) /\ e \in files["epldispatch"]

EvidenceInv == FileTypes /\ FilesPrecede /\ ReceiptCommits /\ \A r \in Runs : Evidence(r)

LEMMA InitEvidenceInv == Init => EvidenceInv
BY DEF Init, NoRun, EvidenceInv, FileTypes, FilesPrecede, ReceiptCommits, Evidence

\* Files are only added, so what stands behind the other invocations stays.
LEMMA OthersKeepEvidence ==
    ASSUME EvidenceInv, NEW r \in Runs, \A k \in Kinds : files[k] \subseteq files'[k],
           \A o \in Runs \ {r} : pc'[o] = pc[o] /\ run'[o] = run[o]
    PROVE  \A o \in Runs \ {r} : Evidence(o)'
<1>1. SUFFICES ASSUME NEW o \in Runs \ {r} PROVE Evidence(o)'
  OBVIOUS
<1>2. Evidence(o) /\ pc'[o] = pc[o] /\ run'[o] = run[o] /\ HasE0(o)' = HasE0(o)
  BY <1>1 DEF EvidenceInv, HasE0
<1>3. /\ files["reservation"] \subseteq files'["reservation"]
      /\ files["payload"] \subseteq files'["payload"]
      /\ files["snapshot"] \subseteq files'["snapshot"]
      /\ files["consumer"] \subseteq files'["consumer"]
      /\ files["handoff"] \subseteq files'["handoff"]
      /\ files["epldispatch"] \subseteq files'["epldispatch"]
  BY DEF Kinds
<1>. QED BY <1>2, <1>3 DEF Evidence

\* A receipt, once its evidence is on file, stays a commit.
LEMMA ReceiptsStay ==
    ASSUME ReceiptCommits, \A k \in Kinds : files[k] \subseteq files'[k], UNCHANGED receipts
    PROVE  ReceiptCommits'
BY DEF ReceiptCommits, Kinds

\* a step that adds no claim, request or receipt
LEMMA FilesStay ==
    ASSUME EvidenceInv, FileTypes', \A k \in Kinds : files[k] \subseteq files'[k],
           forecasts \subseteq forecasts', UNCHANGED <<sessions, requests, receipts>>,
           NEW r \in Runs, \A o \in Runs \ {r} : pc'[o] = pc[o] /\ run'[o] = run[o],
           run'[r].prepared \subseteq forecasts', Evidence(r)'
    PROVE  EvidenceInv'
<1>1. FilesPrecede'
  <2>1. \A o \in Runs : run'[o].prepared \subseteq forecasts'
    BY DEF EvidenceInv, FilesPrecede
  <2>. QED BY <2>1 DEF EvidenceInv, FilesPrecede, Kinds
<1>2. ReceiptCommits'
  BY ReceiptsStay DEF EvidenceInv
<1>3. \A o \in Runs : Evidence(o)'
  BY OthersKeepEvidence
<1>. QED BY <1>1, <1>2, <1>3 DEF EvidenceInv

\* one more record of a kind
LEMMA PutAdds ==
    ASSUME FileTypes, NEW r \in Runs, run[r].auth.experiment \in Experiments,
           NEW kind \in Kinds, Put(kind, r)
    PROVE  /\ FileTypes' /\ UNCHANGED <<sessions, forecasts, receipts>>
           /\ \A k \in Kinds : files[k] \subseteq files'[k]
           /\ run[r].auth.experiment \in files'[kind]
BY DEF Put, FileTypes

\* Only memory changes before the claim.
LEMMA EntryKeepsEvidence ==
    ASSUME ClaimInv, EvidenceInv, NEW r \in Runs, Start(r) \/ Enter(r)
    PROVE  EvidenceInv'
<1>1. UNCHANGED <<forecasts, files, receipts, sessions, requests>>
  BY DEF Start, Enter, store, observed
<1>2. run \in [Runs -> RunRecord] /\ pc \in [Runs -> Places]
  BY DEF ClaimInv, ClaimTypes
<1>3. PICK new : /\ run' = [run EXCEPT ![r] = new]
                 /\ new.prepared = run[r].prepared /\ new.e0 = run[r].e0
  <2>1. CASE Start(r)
    <3> DEFINE x == [run[r] EXCEPT !.auth = installed, !.as_of = clock]
    <3>1. run' = [run EXCEPT ![r] = x]
      BY <1>2, <2>1 DEF Start
    <3>2. x.prepared = run[r].prepared /\ x.e0 = run[r].e0
      BY <1>2 DEF RunRecord
    <3>. QED BY <3>1, <3>2
  <2>2. CASE Enter(r)
    <3> DEFINE x == [run[r] EXCEPT !.control = Rolled, !.completed = Claimed, !.batch = Plan(r)]
    <3>1. run' = [run EXCEPT ![r] = x]
      BY <1>2, <2>2 DEF Enter
    <3>2. x.prepared = run[r].prepared /\ x.e0 = run[r].e0
      BY <1>2 DEF RunRecord
    <3>. QED BY <3>1, <3>2
  <2>. QED BY <2>1, <2>2
<1>4. PICK to \in {"ready", "prepare"} : pc' = [pc EXCEPT ![r] = to]
  BY DEF Start, Enter, Move
<1>5. pc[r] \in {"idle", "ready"} /\ run[r].e0 = "none"
  BY DEF Start, Enter, EvidenceInv, Evidence
<1>6. /\ pc'[r] = to /\ run'[r] = new
      /\ \A o \in Runs \ {r} : pc'[o] = pc[o] /\ run'[o] = run[o]
  BY <1>2, <1>3, <1>4
<1>7. Evidence(r)'
  BY <1>3, <1>5, <1>6 DEF Evidence
<1>8. run'[r].prepared \subseteq forecasts'
  BY <1>1, <1>3, <1>6 DEF EvidenceInv, FilesPrecede
<1>. QED BY <1>1, <1>6, <1>7, <1>8, FilesStay DEF EvidenceInv, FileTypes

\* An ended invocation has nothing in memory; a receipt it leaves is a commit.
LEMMA LeaveKeepsEvidence ==
    ASSUME ClaimInv, EvidenceInv, NEW r \in Runs, Leave(r), ReceiptCommits', FileTypes',
           UNCHANGED <<forecasts, files, sessions, requests>>
    PROVE  EvidenceInv'
<1>1. run \in [Runs -> RunRecord] /\ pc \in [Runs -> Places]
  BY DEF ClaimInv, ClaimTypes
<1>2. /\ pc'[r] = "idle" /\ run'[r] = NoRun
      /\ \A o \in Runs \ {r} : pc'[o] = pc[o] /\ run'[o] = run[o]
  BY <1>1 DEF Leave
<1>3. NoRun.prepared = {} /\ NoRun.e0 = "none"
  BY DEF NoRun
<1>4. Evidence(r)'
  BY <1>2, <1>3 DEF Evidence
<1>5. FilesPrecede'
  BY <1>2, <1>3 DEF EvidenceInv, FilesPrecede
<1>6. \A o \in Runs : Evidence(o)'
  BY <1>2, <1>4, OthersKeepEvidence
<1>. QED BY <1>5, <1>6 DEF EvidenceInv

\* Ending an invocation adds at most a receipt; RECORDED comes after all evidence.
LEMMA EndKeepsEvidence ==
    ASSUME ClaimInv, EvidenceInv, NEW r \in Runs,
           Decline(r) \/ TransportRejected(r) \/ ProcessingRejected(r) \/ Complete(r) \/ Stop(r)
    PROVE  EvidenceInv'
<1>1. Leave(r) /\ UNCHANGED <<forecasts, files, sessions, requests>>
  BY DEF Decline, TransportRejected, ProcessingRejected, Complete, Stop, Finish, store, observed
<1>2. CASE receipts' = receipts
  BY <1>1, <1>2, LeaveKeepsEvidence DEF EvidenceInv, FileTypes, ReceiptCommits
<1>3. ASSUME NEW status \in {"RECORDED", "REJECTED", "REVIEW"}, Finish(r, status),
             pc[r] # "idle", status = "RECORDED" => pc[r] = "complete"
      PROVE  EvidenceInv'
  <2> DEFINE e == run[r].auth.experiment
             new == [experiment |-> e, status |-> status, e0 |-> run[r].e0]
  <2>1. receipts' = receipts \cup {new}
    BY <1>3 DEF Finish
  <2>2. run[r].e0 \in {"none", "HELD", "FROZEN"} /\ e \in Experiments
    BY <1>3, InsideAuthorized DEF RunRecord
  <2>3. new \in [experiment: Experiments, e0: {"none", "HELD", "FROZEN"},
                 status: {"RECORDED", "REJECTED", "REVIEW"}]
    BY <1>3, <2>2
  <2>4. FileTypes'
    BY <1>1, <2>1, <2>3 DEF EvidenceInv, FileTypes
  <2>5. new.status = "RECORDED" =>
           /\ \A k \in {"reservation", "payload", "snapshot", "consumer"} : e \in files[k]
           /\ new.e0 = "FROZEN" => e \in files["epldispatch"] /\ e \in files["handoff"]
    BY <1>3 DEF EvidenceInv, Evidence
  <2>6. new.experiment = e
    OBVIOUS
  <2> HIDE DEF new, e
  <2>7. ReceiptCommits'
    BY <1>1, <2>1, <2>5, <2>6 DEF EvidenceInv, ReceiptCommits
  <2>. QED BY <1>1, <2>4, <2>7, LeaveKeepsEvidence
<1>4. CASE TransportRejected(r)
  BY <1>3, <1>4 DEF TransportRejected
<1>5. CASE ProcessingRejected(r)
  BY <1>3, <1>5 DEF ProcessingRejected, Following
<1>6. CASE Complete(r)
  BY <1>3, <1>6 DEF Complete
<1>7. CASE Decline(r) \/ Stop(r)
  BY <1>2, <1>7 DEF Decline, Stop, store
<1>. QED BY <1>4, <1>5, <1>6, <1>7

\* A forecast that was prepared is on file.
LEMMA PrepareKeepsEvidence ==
    ASSUME ClaimInv, EvidenceInv, NEW r \in Runs, Prepare(r)
    PROVE  EvidenceInv'
<1>1. PICK o \in ToPrepare(r) :
         forecasts' = forecasts \cup {o} /\ run' = [run EXCEPT ![r].prepared = @ \cup {o}]
  BY DEF Prepare
<1>2. pc[r] = "prepare" /\ UNCHANGED <<pc, files, receipts, sessions, requests>>
  BY DEF Prepare, observed
<1>3. run \in [Runs -> RunRecord] /\ run[r] \in RunRecord
  BY DEF ClaimInv, ClaimTypes
<1> DEFINE new == [run[r] EXCEPT !.prepared = @ \cup {o}]
<1>4. /\ new.prepared = run[r].prepared \cup {o} /\ new.e0 = run[r].e0
      /\ new.batch = run[r].batch /\ new.auth = run[r].auth
  BY <1>3 DEF RunRecord
<1>5. run' = [run EXCEPT ![r] = new]
  BY <1>1, <1>3
<1> HIDE DEF new
<1>6. run'[r] = new /\ \A q \in Runs \ {r} : run'[q] = run[q]
  BY <1>3, <1>5
<1>7. FileTypes'
  <2>1. o \in Obligations
    BY <1>3 DEF ToPrepare, RunRecord
  <2>. QED BY <1>1, <1>2, <2>1 DEF EvidenceInv, FileTypes
<1>8. Evidence(r)'
  <2>1. Evidence(r) /\ HasE0(r)' = HasE0(r)
    BY <1>4, <1>6 DEF EvidenceInv, HasE0
  <2>. QED BY <1>2, <1>4, <1>6, <2>1 DEF Evidence
<1>9. run'[r].prepared \subseteq forecasts'
  BY <1>1, <1>4, <1>6 DEF EvidenceInv, FilesPrecede
<1>. QED BY <1>1, <1>2, <1>6, <1>7, <1>8, <1>9, FilesStay

\* A claim is written when each of its Championship forecasts is on file.
LEMMA ClaimKeepsEvidence ==
    ASSUME ClaimInv, EvidenceInv, NEW r \in Runs, Claim(r)
    PROVE  EvidenceInv'
<1> DEFINE s == [experiment |-> run[r].auth.experiment, obligations |-> run[r].batch]
           to == IF FreezeE0 /\ HasE0(r) THEN "freeze" ELSE "reserve"
<1>1. /\ pc[r] = "prepare" /\ sessions' = sessions \cup {s} /\ ToPrepare(r) = {}
      /\ pc' = [pc EXCEPT ![r] = to]
      /\ UNCHANGED <<forecasts, files, receipts, run, requests>>
  BY DEF Claim, Move, observed
<1>2. pc \in [Runs -> Places]
  BY DEF ClaimInv, ClaimTypes
<1>3. pc'[r] = to /\ \A o \in Runs \ {r} : pc'[o] = pc[o] /\ run'[o] = run[o]
  BY <1>1, <1>2
<1>4. \A o \in s.obligations : o.fixture \in Championship => o \in forecasts
  BY <1>1 DEF ToPrepare, EvidenceInv, FilesPrecede
<1> HIDE DEF s
<1>5. FilesPrecede'
  BY <1>1, <1>4 DEF EvidenceInv, FilesPrecede
<1>6. FileTypes' /\ ReceiptCommits'
  BY <1>1 DEF EvidenceInv, FileTypes, ReceiptCommits
<1>7. Evidence(r)'
  <2>1. Evidence(r) /\ HasE0(r)' = HasE0(r)
    BY <1>1 DEF EvidenceInv, HasE0
  <2>. QED BY <1>1, <1>3, <2>1 DEF Evidence
<1>8. \A o \in Runs : Evidence(o)'
  BY <1>1, <1>3, <1>7, OthersKeepEvidence
<1>. QED BY <1>5, <1>6, <1>8 DEF EvidenceInv

\* The Premier League part is marked frozen when its dispatch is on file.
LEMMA FreezeKeepsEvidence ==
    ASSUME ClaimInv, EvidenceInv, NEW r \in Runs, Freeze(r) \/ Recheck(r) \/ Answer(r)
    PROVE  EvidenceInv'
<1> DEFINE e == run[r].auth.experiment
<1>1. run \in [Runs -> RunRecord] /\ run[r] \in RunRecord /\ pc \in [Runs -> Places]
  BY DEF ClaimInv, ClaimTypes
<1>2. e \in Experiments
  BY InsideAuthorized DEF Freeze, Recheck, Answer
<1>3. PICK to \in {"recheck", "reserve", "payload"} :
         /\ pc' = [pc EXCEPT ![r] = to]
         /\ (pc[r] \in {"freeze", "recheck"} /\ to # "payload") \/ pc[r] = "wait"
  BY DEF Freeze, Recheck, Answer, Move
<1>4. PICK v : /\ run' = [run EXCEPT ![r].e0 = v]
               /\ v \in {"HELD", run[r].e0} \/ (v = "FROZEN" /\ Put("epldispatch", r) /\ Freeze(r))
  <2>1. run[r] = [run[r] EXCEPT !.e0 = run[r].e0]
    BY <1>1 DEF RunRecord
  <2>2. run = [run EXCEPT ![r].e0 = run[r].e0]
    BY <1>1, <2>1
  <2>. QED BY <2>2 DEF Freeze, Recheck, Answer, HoldE0
<1>5. UNCHANGED <<sessions, requests>> /\ (UNCHANGED store \/ Put("epldispatch", r))
  BY DEF Freeze, Recheck, Answer, Put, store, observed
<1>6. /\ FileTypes' /\ \A k \in Kinds : files[k] \subseteq files'[k]
      /\ UNCHANGED <<forecasts, receipts>>
      /\ Put("epldispatch", r) => e \in files'["epldispatch"]
  <2>1. CASE UNCHANGED store /\ ~Put("epldispatch", r)
    BY <2>1 DEF store, EvidenceInv, FileTypes
  <2>2. CASE Put("epldispatch", r)
    BY <1>2, <2>2, PutAdds DEF EvidenceInv, Kinds
  <2>. QED BY <1>5, <2>1, <2>2
<1> DEFINE new == [run[r] EXCEPT !.e0 = v]
<1>7. /\ new.e0 = v /\ new.auth = run[r].auth /\ new.batch = run[r].batch
      /\ new.prepared = run[r].prepared
  BY <1>1 DEF RunRecord
<1>8. run' = [run EXCEPT ![r] = new]
  BY <1>1, <1>4
<1> HIDE DEF new
<1>9. /\ pc'[r] = to /\ run'[r] = new
      /\ \A o \in Runs \ {r} : pc'[o] = pc[o] /\ run'[o] = run[o]
  BY <1>1, <1>3, <1>8
<1>10. Evidence(r)'
  <2>1. Evidence(r) /\ HasE0(r)' = HasE0(r) /\ e' = e
    BY <1>7, <1>9 DEF EvidenceInv, HasE0
  <2>2. /\ files["reservation"] \subseteq files'["reservation"]
        /\ files["epldispatch"] \subseteq files'["epldispatch"]
    BY <1>6 DEF Kinds
  <2>3. to = "payload" => e \in files'["reservation"]
    BY <1>3, <2>1, <2>2 DEF Evidence
  <2>4. v = "FROZEN" => FreezeE0 /\ HasE0(r) /\ e \in files'["epldispatch"]
    BY <1>4, <1>6, <2>1, <2>2 DEF Evidence, Freeze
  <2>. QED BY <1>7, <1>9, <2>1, <2>3, <2>4 DEF Evidence
<1>11. run'[r].prepared \subseteq forecasts'
  BY <1>6, <1>7, <1>9 DEF EvidenceInv, FilesPrecede
<1>. QED BY <1>5, <1>6, <1>9, <1>10, <1>11, FilesStay

\* A reservation touches the account only.
LEMMA ReserveKeepsEvidence ==
    ASSUME ClaimInv, EvidenceInv, NEW r \in Runs, Reserve(r)
    PROVE  EvidenceInv'
<1>1. /\ pc[r] = "reserve" /\ pc' = [pc EXCEPT ![r] = "receipt"]
      /\ run' = [run EXCEPT ![r].control.reserved = @ + 1]
      /\ UNCHANGED <<forecasts, files, receipts, sessions, requests>>
  BY DEF Reserve, Move, store
<1>2. run \in [Runs -> RunRecord] /\ pc \in [Runs -> Places]
  BY DEF ClaimInv, ClaimTypes
<1> DEFINE new == [run[r] EXCEPT !.control.reserved = @ + 1]
<1>3. /\ new.e0 = run[r].e0 /\ new.auth = run[r].auth /\ new.batch = run[r].batch
      /\ new.prepared = run[r].prepared
  BY <1>2 DEF RunRecord
<1>4. run' = [run EXCEPT ![r] = new]
  BY <1>1, <1>2
<1> HIDE DEF new
<1>5. /\ pc'[r] = "receipt" /\ run'[r] = new
      /\ \A o \in Runs \ {r} : pc'[o] = pc[o] /\ run'[o] = run[o]
  BY <1>1, <1>2, <1>4
<1>6. Evidence(r)'
  <2>1. Evidence(r) /\ HasE0(r)' = HasE0(r)
    BY <1>3, <1>5 DEF EvidenceInv, HasE0
  <2>. QED BY <1>1, <1>3, <1>5, <2>1 DEF Evidence
<1>7. FileTypes' /\ run'[r].prepared \subseteq forecasts'
  BY <1>1, <1>3, <1>5 DEF EvidenceInv, FileTypes, FilesPrecede
<1>. QED BY <1>1, <1>5, <1>6, <1>7, FilesStay

\* Every further record is added after the one before it.
LEMMA RecordsKeepEvidence ==
    ASSUME ClaimInv, EvidenceInv, NEW r \in Runs, StoreReservation(r) \/ StoreEvidence(r)
    PROVE  EvidenceInv'
<1> DEFINE e == run[r].auth.experiment
<1>1. pc \in [Runs -> Places] /\ e \in Experiments
  BY InsideAuthorized DEF StoreReservation, StoreEvidence, Following, ClaimInv, ClaimTypes
<1>2. PICK kind \in Kinds, to \in Locked :
         /\ Put(kind, r) /\ pc' = [pc EXCEPT ![r] = to]
         /\ \/ pc[r] = "receipt" /\ kind = "reservation" /\ to = "send"
            \/ pc[r] = "payload" /\ kind = "payload" /\ to = "snapshot"
            \/ pc[r] = "snapshot" /\ kind = "snapshot" /\ to = "consumer"
            \/ pc[r] = "consumer" /\ kind = "consumer"
               /\ to = (IF FreezeE0 /\ HasE0(r) THEN "handoff" ELSE "complete")
            \/ pc[r] = "handoff" /\ kind = "handoff" /\ to = "complete"
  <2>1. CASE StoreReservation(r)
    BY <2>1 DEF StoreReservation, Move, Kinds, Locked
  <2>2. CASE StoreEvidence(r)
    <3>1. /\ pc[r] \in {"payload", "snapshot", "consumer", "handoff"}
          /\ Put(pc[r], r) /\ pc' = [pc EXCEPT ![r] = Following(r)[pc[r]]]
      BY <2>2 DEF StoreEvidence, Following, Move
    <3>2. /\ Following(r)["payload"] = "snapshot" /\ Following(r)["snapshot"] = "consumer"
          /\ Following(r)["consumer"] = (IF FreezeE0 /\ HasE0(r) THEN "handoff" ELSE "complete")
          /\ Following(r)["handoff"] = "complete"
      BY DEF Following
    <3>3. /\ {"payload", "snapshot", "consumer", "handoff"} \subseteq Kinds
          /\ {"snapshot", "consumer", "handoff", "complete"} \subseteq Locked
      BY DEF Kinds, Locked
    <3>4. CASE pc[r] = "payload"
      BY <3>1, <3>2, <3>3, <3>4
    <3>5. CASE pc[r] = "snapshot"
      BY <3>1, <3>2, <3>3, <3>5
    <3>6. CASE pc[r] = "consumer"
      BY <3>1, <3>2, <3>3, <3>6
    <3>7. CASE pc[r] = "handoff"
      BY <3>1, <3>2, <3>3, <3>7
    <3>. QED BY <3>1, <3>4, <3>5, <3>6, <3>7
  <2>. QED BY <2>1, <2>2
<1>3. UNCHANGED <<run, requests>>
  BY DEF StoreReservation, StoreEvidence, observed
<1>4. /\ FileTypes' /\ UNCHANGED <<sessions, forecasts, receipts>>
      /\ \A k \in Kinds : files[k] \subseteq files'[k]
      /\ e \in files'[kind]
  BY <1>1, <1>2, PutAdds DEF EvidenceInv
<1>5. pc'[r] = to /\ \A o \in Runs \ {r} : pc'[o] = pc[o] /\ run'[o] = run[o]
  BY <1>1, <1>2, <1>3
<1>6. Evidence(r)'
  <2>1. Evidence(r) /\ HasE0(r)' = HasE0(r) /\ run'[r] = run[r]
    BY <1>3 DEF EvidenceInv, HasE0
  <2>2. /\ files["reservation"] \subseteq files'["reservation"]
        /\ files["payload"] \subseteq files'["payload"]
        /\ files["snapshot"] \subseteq files'["snapshot"]
        /\ files["consumer"] \subseteq files'["consumer"]
        /\ files["handoff"] \subseteq files'["handoff"]
        /\ files["epldispatch"] \subseteq files'["epldispatch"]
    BY <1>4 DEF Kinds
  <2>. QED BY <1>2, <1>4, <1>5, <2>1, <2>2 DEF Evidence
<1>7. run'[r].prepared \subseteq forecasts'
  BY <1>3, <1>4 DEF EvidenceInv, FilesPrecede
<1>. QED BY <1>3, <1>4, <1>5, <1>6, <1>7, FilesStay

\* A request leaves after its reservation is on file.
LEMMA SendKeepsEvidence ==
    ASSUME ClaimInv, EvidenceInv, NEW r \in Runs, Send(r)
    PROVE  EvidenceInv'
<1> DEFINE e == run[r].auth.experiment
<1>1. /\ pc[r] = "send" /\ pc' = [pc EXCEPT ![r] = "wait"]
      /\ requests' = [requests EXCEPT ![e] = @ + 1]
      /\ UNCHANGED <<forecasts, files, receipts, sessions, run>>
  BY DEF Send, Move, store
<1>2. pc \in [Runs -> Places] /\ requests \in [Experiments -> Nat]
  BY DEF ClaimInv, ClaimTypes
<1>3. pc'[r] = "wait" /\ \A o \in Runs \ {r} : pc'[o] = pc[o] /\ run'[o] = run[o]
  BY <1>1, <1>2
<1>4. e \in files["reservation"]
  BY <1>1 DEF EvidenceInv, Evidence
<1>5. FilesPrecede'
  <2>1. \A x \in Experiments \ {e} : requests'[x] = requests[x]
    BY <1>1, <1>2
  <2>2. \A x \in Experiments : requests'[x] > 0 => x \in files'["reservation"]
    BY <1>1, <1>4, <2>1 DEF EvidenceInv, FilesPrecede
  <2>. QED BY <1>1, <2>2 DEF EvidenceInv, FilesPrecede
<1>6. FileTypes' /\ ReceiptCommits'
  BY <1>1 DEF EvidenceInv, FileTypes, ReceiptCommits
<1>7. Evidence(r)'
  <2>1. Evidence(r) /\ HasE0(r)' = HasE0(r)
    BY <1>1 DEF EvidenceInv, HasE0
  <2>. QED BY <1>1, <1>3, <2>1 DEF Evidence
<1>8. \A o \in Runs : Evidence(o)'
  BY <1>1, <1>3, <1>7, OthersKeepEvidence
<1>. QED BY <1>5, <1>6, <1>8 DEF EvidenceInv

LEMMA NextKeepsEvidence == ClaimInv /\ EvidenceInv /\ [Next]_vars => EvidenceInv'
<1>1. SUFFICES ASSUME ClaimInv, EvidenceInv, [Next]_vars PROVE EvidenceInv'
  OBVIOUS
<1>2. CASE Tick \/ Postpone \/ Authorize \/ Collect \/ UNCHANGED vars
  <2>1. UNCHANGED <<forecasts, files, receipts, sessions, pc, run, requests>>
    BY <1>2 DEF Tick, Postpone, Authorize, Collect, vars, store, observed
  <2>. QED BY <1>1, <2>1 DEF EvidenceInv, FileTypes, FilesPrecede, ReceiptCommits, Evidence, HasE0
<1>. QED BY <1>1, <1>2, EntryKeepsEvidence, EndKeepsEvidence, PrepareKeepsEvidence,
            ClaimKeepsEvidence, FreezeKeepsEvidence, ReserveKeepsEvidence, RecordsKeepEvidence,
            SendKeepsEvidence DEF Next

\* In every reachable state the records are in the order run_once writes them.
THEOREM EvidenceInvariant == Spec => []EvidenceInv
BY ClaimInvariant, InitEvidenceInv, NextKeepsEvidence, PTL DEF Spec

\* When a request leaves, its charge, its claim, its reservation and the forecasts of
\* its Championship fixtures are on file.
THEOREM PreparedRequests == Spec => []RequestsArePrepared
<1>1. ClaimInv /\ EvidenceInv => RequestsArePrepared
  <2>1. SUFFICES ASSUME ClaimInv, EvidenceInv, NEW e \in Experiments, requests[e] > 0
                 PROVE  /\ charges[e] >= requests[e] /\ e \in files["reservation"]
                        /\ \E s \in sessions :
                              /\ s.experiment = e
                              /\ \A o \in s.obligations :
                                    o.fixture \in Championship => o \in forecasts
    BY DEF RequestsArePrepared
  <2>2. charges[e] >= requests[e] /\ HasSession(e)
    BY <2>1 DEF ClaimInv, ClaimTypes, Unclaimed
  <2>. QED BY <2>1, <2>2 DEF HasSession, EvidenceInv, FilesPrecede
<1>. QED BY <1>1, ClaimInvariant, EvidenceInvariant, PTL

\* A reader that finds RECORDED finds its whole evidence.
THEOREM ReceiptsCommit == Spec => []ReceiptCommits
<1>1. EvidenceInv => ReceiptCommits
  BY DEF EvidenceInv
<1>. QED BY <1>1, EvidenceInvariant, PTL

\* Every variable keeps its type, and the lock belongs to the invocation past it.
THEOREM TypeCorrect == Spec => []TypeOK
<1>1. ClaimInv /\ AccountInv /\ EvidenceInv => TypeOK
  BY DEF ClaimInv, ClaimTypes, LockIsHeld, AccountInv, EvidenceInv, FileTypes, TypeOK,
     RunRecord, Places
<1>. QED BY <1>1, ClaimInvariant, AccountInvariant, EvidenceInvariant, PTL

-----------------------------------------------------------------------------
(* Refinement                                                              *)

\* The abstract batch of an experiment is that of its only session.
LEMMA BatchOfExperiment ==
    ASSUME ClaimInv, NEW e \in Experiments
    PROVE  /\ HasSession(e) => Batch[e] # {}
           /\ ~HasSession(e) => Batch[e] = {}
           /\ Batch[e] \subseteq Claimed
<1>1. Batch[e] = UNION {s.obligations : s \in {s \in sessions : s.experiment = e}}
  BY DEF Batch
<1>2. ASSUME NEW s \in sessions, s.experiment = e PROVE Batch[e] # {}
  <2>1. s.obligations \subseteq Batch[e]
    BY <1>1, <1>2
  <2>. QED BY <2>1 DEF ClaimInv, ClaimsDiffer
<1>. QED BY <1>1, <1>2 DEF HasSession, Claimed

\* A step that touches neither claims nor accounts stutters.
LEMMA AccountsUntouched ==
    ASSUME UNCHANGED <<sessions, charges, requests>>
    PROVE  UNCHANGED <<Batch, charges, requests>>
BY DEF Batch

\* Claim is the abstract Claim.
LEMMA ClaimRefines ==
    ASSUME ClaimInv, NEW r \in Runs, Claim(r)
    PROVE  Once!Next
<1> DEFINE e == run[r].auth.experiment
           s == [experiment |-> e, obligations |-> run[r].batch]
<1>1. pc[r] = "prepare" /\ sessions' = sessions \cup {s} /\ UNCHANGED <<charges, requests>>
  BY DEF Claim, observed
<1>2. e \in Experiments /\ run[r].batch \subseteq Obligations
  BY <1>1, InsideAuthorized DEF RunRecord
<1>3. ~HasSession(e) /\ run[r].batch \cap Claimed = {} /\ run[r].batch # {}
  BY <1>1 DEF ClaimInv, Stage
<1>4. Batch[e] = {} /\ \A x \in Experiments : Batch[x] \cap run[r].batch = {}
  BY <1>2, <1>3, BatchOfExperiment
<1>5. Batch'[e] = run[r].batch
  <2>1. {t \in sessions' : t.experiment = e} = {s}
    BY <1>1, <1>3 DEF HasSession
  <2>2. Batch'[e] = UNION {t.obligations : t \in {s}}
    BY <1>2, <2>1 DEF Batch
  <2>. QED BY <2>2
<1>6. ASSUME NEW x \in Experiments, x # e PROVE Batch'[x] = Batch[x]
  <2>1. {t \in sessions' : t.experiment = x} = {t \in sessions : t.experiment = x}
    BY <1>1, <1>6
  <2>. QED BY <2>1 DEF Batch
<1>7. Batch' = [Batch EXCEPT ![e] = run[r].batch]
  <2>1. Batch = [x \in Experiments |-> Batch[x]] /\ Batch' = [x \in Experiments |-> Batch'[x]]
    BY DEF Batch
  <2>. QED BY <1>2, <1>5, <1>6, <2>1
<1>8. Once!Claim(e, run[r].batch)
  BY <1>1, <1>3, <1>4, <1>7 DEF Once!Claim
<1>. QED BY <1>2, <1>8 DEF Once!Next

\* Reserve is the abstract Charge.
LEMMA ReserveRefines ==
    ASSUME ClaimInv, NEW r \in Runs, Reserve(r)
    PROVE  Once!Next
<1> DEFINE e == run[r].auth.experiment
<1>1. /\ pc[r] = "reserve" /\ charges' = [charges EXCEPT ![e] = @ + 1]
      /\ UNCHANGED <<sessions, requests>>
  BY DEF Reserve, store
<1>2. e \in Experiments /\ charges \in [Experiments -> Nat]
  BY <1>1, InsideAuthorized DEF ClaimInv, ClaimTypes
<1>3. HasSession(e) /\ charges[e] = 0
  BY <1>1 DEF ClaimInv, Stage
<1>4. Once!Charge(e)
  <2>1. charges' = [charges EXCEPT ![e] = 1]
    BY <1>1, <1>2, <1>3
  <2>2. Batch' = Batch
    BY <1>1 DEF Batch
  <2>. QED BY <1>1, <1>2, <1>3, <2>1, <2>2, BatchOfExperiment DEF Once!Charge
<1>. QED BY <1>2, <1>4 DEF Once!Next

\* Send is the abstract Ask.
LEMMA SendRefines ==
    ASSUME ClaimInv, NEW r \in Runs, Send(r)
    PROVE  Once!Next
<1> DEFINE e == run[r].auth.experiment
<1>1. /\ pc[r] = "send" /\ requests' = [requests EXCEPT ![e] = @ + 1]
      /\ UNCHANGED <<sessions, charges>>
  BY DEF Send, store
<1>2. e \in Experiments /\ requests \in [Experiments -> Nat]
  BY <1>1, InsideAuthorized DEF ClaimInv, ClaimTypes
<1>3. charges[e] = 1 /\ requests[e] = 0
  BY <1>1 DEF ClaimInv, Stage
<1>4. Once!Ask(e)
  <2>1. requests' = [requests EXCEPT ![e] = 1]
    BY <1>1, <1>2, <1>3
  <2>2. Batch' = Batch
    BY <1>1 DEF Batch
  <2>. QED BY <1>1, <1>3, <2>1, <2>2 DEF Once!Ask
<1>. QED BY <1>2, <1>4 DEF Once!Next

\* Every step is a step of AtMostOnceAcquisition or stutters on it.
LEMMA StepRefines == ClaimInv /\ [Next]_vars => [Once!Next]_<<Batch, charges, requests>>
<1>1. SUFFICES ASSUME ClaimInv, [Next]_vars
               PROVE  Once!Next \/ UNCHANGED <<Batch, charges, requests>>
  OBVIOUS
<1>2. CASE UNCHANGED vars
  BY <1>2, AccountsUntouched DEF vars, store, observed
<1>3. CASE Tick \/ Postpone \/ Authorize \/ Collect
  BY <1>3, AccountsUntouched DEF Tick, Postpone, Authorize, Collect, store, observed
<1>4. ASSUME NEW r \in Runs,
             \/ Start(r) \/ Enter(r) \/ Decline(r) \/ Prepare(r) \/ Freeze(r) \/ Recheck(r)
             \/ StoreReservation(r) \/ Answer(r) \/ StoreEvidence(r)
             \/ TransportRejected(r) \/ ProcessingRejected(r) \/ Complete(r) \/ Stop(r)
      PROVE  UNCHANGED <<Batch, charges, requests>>
  BY <1>4, AccountsUntouched
     DEF Start, Enter, Decline, Prepare, Freeze, Recheck, StoreReservation, Answer,
         StoreEvidence, TransportRejected, ProcessingRejected, Complete, Stop, Finish,
         Put, store, observed
<1>. QED BY <1>1, <1>2, <1>3, <1>4, ClaimRefines, ReserveRefines, SendRefines DEF Next

\* The guarded acquisition implements AtMostOnceAcquisition: one claim per
\* experiment, disjoint from the others, then one charge, then one request.
THEOREM Refinement == Spec => ImplementsAtMostOnce
<1>1. Init => Once!Init
  BY DEF Init, Once!Init, Batch
<1>. QED BY <1>1, ClaimInvariant, StepRefines, PTL DEF Spec, ImplementsAtMostOnce, Once!Spec

-----------------------------------------------------------------------------
(* The Premier League operations beside the acquisition.  A theorem speaks of *)
(* one of the three specifications; names they have in common are declared    *)
(* once.                                                                      *)

CONSTANTS
    Ids, Sources, MaxLinks, MaxTime, Lines, MaxAge, Kickoff, Expiry, MaxForecasts, MaxResponses

VARIABLES
    now, ops, private, intents, results, job, said, responses, attempts,
    observations, certificates, picks

R == INSTANCE PLResults
Q == INSTANCE PLProduct

\* They count their sets as the library does.
LEMMA CountsAgree ==
    \A S : /\ R!IsFiniteSet(S) <=> IsFiniteSet(S)
           /\ R!Cardinality(S) = Cardinality(S)
           /\ Q!IsFiniteSet(S) <=> IsFiniteSet(S)
           /\ Q!Cardinality(S) = Cardinality(S)
BY Zenon DEF R!IsFiniteSet, Q!IsFiniteSet, IsFiniteSet, R!Cardinality, Q!Cardinality, Cardinality

-----------------------------------------------------------------------------
(* Premier League results.                                                 *)

\* Records: the private ones, and a parent, which may be none.
Recs == UNION {[1 .. n -> R!Links] : n \in 1 .. MaxLinks}
Parents == Recs \cup {<<>>}
OpRecord == [request : R!Requests, done : BOOLEAN]
ResultJobRecord == [op : Ids \cup {None}, record : Parents,
                    pc : {"check", "intent", "put", "project", "done"}]

\* What a reader answers from a set of projections that it accepts.
Reading(views) ==
    IF views = {} THEN R!Pending
    ELSE R!Last((CHOOSE v \in views : \A w \in views : Len(w.record) <= Len(v.record)).record).source

\* The variables have their types; nothing is of the future.
ResultsTyped ==
    /\ now \in 0 .. MaxTime
    /\ ops \in [Ids -> OpRecord \cup {None}]
    /\ private \subseteq Recs /\ intents \subseteq Recs
    /\ results \subseteq [record : Recs, projected : 0 .. MaxTime]
    /\ \A r \in intents : R!Last(r).at <= now
    /\ \A v \in results : v.projected <= now
    /\ said \in Seq({R!Pending, R!Rejected} \cup Sources) /\ Len(said) = now
JobTyped ==
    job # None =>
        /\ job \in ResultJobRecord
        /\ job.pc = "check" \/ job.op # None => ops[job.op] \in OpRecord /\ job.op \in Ids

\* An intent is filed before its record, the record before its projection; the intent that has
\* none is one, and is the tip of the chain or its next link.
InSequence ==
    /\ private \subseteq intents
    /\ \A v \in results : v.record \in private
    /\ \A r \in R!Uncommitted : R!Tip \in {r, R!Front(r)} /\ R!Uncommitted = {r}

\* What the job holds at each place.
JobHolds ==
    /\ job # None /\ job.pc = "intent" =>
          /\ job.record \in Recs /\ R!Front(job.record) = R!Tip /\ R!Uncommitted = {}
          /\ R!Last(job.record).at <= now
    /\ job # None /\ job.pc = "put" =>
          job.record \in intents /\ R!Tip \in {job.record, R!Front(job.record)}
    /\ job # None /\ job.pc = "project" => job.record \in private /\ job.record = R!Tip

\* What was told of a slot is what its projections say, and no later one is among them.
ToldOnce ==
    \A t \in 1 .. now : said[t] = R!Rejected \/ said[t] = Reading(R!Effective(t - 1))

\* One operation is pending.
OneIsPending == \A i, j \in R!PendingOps : i = j

\* The inductive invariant of the results.
RInv ==
    /\ ResultsTyped /\ JobTyped /\ R!OneChain /\ InSequence /\ JobHolds /\ R!OneProjection
    /\ ToldOnce /\ OneIsPending

-----------------------------------------------------------------------------
(* Records as sequences.                                                     *)

\* A record is a sequence of links, at most MaxLinks.
LEMMA RecordsAreSequences ==
    ASSUME R!ResultsAssumption, NEW r \in Recs
    PROVE  r \in Seq(R!Links) /\ Len(r) \in 1 .. MaxLinks /\ Len(r) \in Nat
<1>1. PICK n \in 1 .. MaxLinks : r \in [1 .. n -> R!Links]
  BY DEF Recs
<1>2. n \in Nat /\ MaxLinks \in Nat
  BY <1>1 DEF R!ResultsAssumption
<1>3. r \in Seq(R!Links) /\ Len(r) = n
  BY <1>1, <1>2
<1> QED
  BY <1>1, <1>2, <1>3

\* A prefix as long as the whole is the whole.
LEMMA WholePrefix ==
    ASSUME NEW r \in Seq(R!Links), NEW s \in Seq(R!Links), R!IsPrefix(r, s), Len(s) <= Len(r)
    PROVE  r = s
<1>1. Len(r) = Len(s)
  BY DEF R!IsPrefix
<1>2. SubSeq(r, 1, Len(r)) = r /\ SubSeq(s, 1, Len(s)) = s
  OBVIOUS
<1> QED
  BY <1>1, <1>2 DEF R!IsPrefix

\* What precedes the last link.
LEMMA FrontOfRecord ==
    ASSUME R!ResultsAssumption, NEW r \in Recs
    PROVE  /\ R!Front(r) \in Seq(R!Links) /\ Len(R!Front(r)) = Len(r) - 1
           /\ R!IsPrefix(R!Front(r), r)
           /\ \A i \in 1 .. Len(r) - 1 : R!Front(r)[i] = r[i]
<1>1. r \in Seq(R!Links) /\ Len(r) \in Nat \ {0}
  BY RecordsAreSequences
<1>2. R!Front(r) \in Seq(R!Links) /\ Len(R!Front(r)) = Len(r) - 1
  <2> DEFINE n == Len(r) - 1
  <2>1. n \in Nat /\ n <= Len(r)
    BY <1>1
  <2>2. \A i \in 1 .. n : r[i] \in R!Links
    BY <1>1, <2>1
  <2>3. SubSeq(r, 1, n) \in Seq(R!Links) /\ Len(SubSeq(r, 1, n)) = IF 1 <= n THEN n - 1 + 1 ELSE 0
    <3> HIDE DEF n
    <3> QED
      BY <2>1, <2>2, SubSeqProperties
  <2>4. Len(SubSeq(r, 1, n)) = n
    <3>1. \A k \in Nat : (IF 1 <= k THEN k - 1 + 1 ELSE 0) = k
      OBVIOUS
    <3> HIDE DEF n
    <3> QED
      BY <2>1, <2>3, <3>1
  <2> QED
    BY <2>3, <2>4 DEF R!Front
<1>3. \A i \in 1 .. Len(r) - 1 : R!Front(r)[i] = r[i]
  BY <1>1 DEF R!Front
<1>4. SubSeq(R!Front(r), 1, Len(r) - 1) = SubSeq(r, 1, Len(r) - 1)
  BY <1>1, <1>2, <1>3
<1> QED
  BY <1>1, <1>2, <1>3, <1>4 DEF R!IsPrefix

\* A link appended to a parent.
LEMMA AppendedLink ==
    ASSUME R!ResultsAssumption, NEW t \in Parents, NEW e \in R!Links, Len(Append(t, e)) <= MaxLinks
    PROVE  Append(t, e) \in Recs /\ R!Front(Append(t, e)) = t /\ R!Last(Append(t, e)) = e
<1>1. t \in Seq(R!Links)
  <2>1. CASE t \in Recs
    BY <2>1, RecordsAreSequences
  <2>2. CASE t = <<>>
    BY <2>2
  <2> QED
    BY <2>1, <2>2 DEF Parents
<1>2. Append(t, e) \in Seq(R!Links) /\ Len(Append(t, e)) = Len(t) + 1 /\ Len(t) \in Nat
  BY <1>1
<1>3. Append(t, e) \in [1 .. Len(t) + 1 -> R!Links] /\ Len(t) + 1 \in 1 .. MaxLinks
  <2>1. \A s \in Seq(R!Links) : s \in [1 .. Len(s) -> R!Links]
    OBVIOUS
  <2>2. Append(t, e) \in [1 .. Len(Append(t, e)) -> R!Links]
    BY <1>2, <2>1
  <2> QED
    BY <1>2, <2>2 DEF R!ResultsAssumption
<1>4. Append(t, e) \in Recs
  BY <1>3 DEF Recs
<1>5. R!Front(Append(t, e)) = t
  BY <1>1, <1>2 DEF R!Front
<1>6. R!Last(Append(t, e)) = e
  BY <1>1, <1>2 DEF R!Last
<1> QED
  BY <1>4, <1>5, <1>6

\* Prefixes of prefixes are prefixes.
LEMMA PrefixTransitive ==
    ASSUME NEW r \in Seq(R!Links), NEW s \in Seq(R!Links), NEW t \in Seq(R!Links),
           R!IsPrefix(r, s), R!IsPrefix(s, t)
    PROVE  R!IsPrefix(r, t)
<1>1. Len(r) \in Nat /\ Len(s) \in Nat /\ Len(t) \in Nat /\ Len(r) <= Len(s) /\ Len(s) <= Len(t)
  BY DEF R!IsPrefix
<1>2. \A i \in 1 .. Len(r) : r[i] = s[i]
  <2>1. SubSeq(r, 1, Len(r)) = SubSeq(s, 1, Len(r))
    BY DEF R!IsPrefix
  <2> SUFFICES ASSUME NEW i \in 1 .. Len(r) PROVE r[i] = s[i]
    OBVIOUS
  <2>2. SubSeq(r, 1, Len(r))[i] = r[i] /\ SubSeq(s, 1, Len(r))[i] = s[i]
    BY <1>1
  <2> QED
    BY <2>1, <2>2
<1>3. \A i \in 1 .. Len(s) : s[i] = t[i]
  <2>1. SubSeq(s, 1, Len(s)) = SubSeq(t, 1, Len(s))
    BY DEF R!IsPrefix
  <2> SUFFICES ASSUME NEW i \in 1 .. Len(s) PROVE s[i] = t[i]
    OBVIOUS
  <2>2. SubSeq(s, 1, Len(s))[i] = s[i] /\ SubSeq(t, 1, Len(s))[i] = t[i]
    BY <1>1
  <2> QED
    BY <2>1, <2>2
<1>4. \A i \in 1 .. Len(r) : r[i] = t[i]
  BY <1>1, <1>2, <1>3
<1>5. SubSeq(r, 1, Len(r)) = SubSeq(t, 1, Len(r))
  BY <1>1, <1>4
<1> QED
  BY <1>1, <1>5 DEF R!IsPrefix

\* Of a set of records one is the longest.
LEMMA LongestExists ==
    ASSUME R!ResultsAssumption, NEW S, S \subseteq Recs, S # {}
    PROVE  \E r \in S : \A o \in S : Len(o) <= Len(r)
<1> DEFINE Short == {MaxLinks - Len(r) : r \in S}
<1>1. \A r \in S : Len(r) \in 1 .. MaxLinks /\ MaxLinks \in Nat
  BY RecordsAreSequences DEF R!ResultsAssumption
<1>2. Short \subseteq Nat /\ Short # {}
  BY <1>1
<1>3. \E x \in Short : \A y \in Short : ~(<<y, x>> \in OpToRel(<, Nat))
  <2> HIDE DEF Short
  <2> QED
    BY <1>2, NatLessThanWellFounded, WFMin
<1>4. PICK r \in S : \A y \in Short : ~(<<y, MaxLinks - Len(r)>> \in OpToRel(<, Nat))
  BY <1>3
<1>5. ASSUME NEW o \in S PROVE Len(o) <= Len(r)
  <2>1. ~(<<MaxLinks - Len(o), MaxLinks - Len(r)>> \in OpToRel(<, Nat))
    BY <1>4
  <2>2. ~(MaxLinks - Len(o) < MaxLinks - Len(r))
    BY <1>1, <2>1 DEF OpToRel
  <2> QED
    BY <1>1, <2>2
<1> QED
  BY <1>5

\* The tip is the longest record, and every record is a prefix of it.
LEMMA TipIsLongest ==
    ASSUME R!ResultsAssumption, private \subseteq Recs, R!OneChain, private # {}
    PROVE  /\ R!Tip \in private
           /\ \A o \in private : Len(o) <= Len(R!Tip) /\ R!IsPrefix(o, R!Tip)
           /\ \A o \in private : Len(R!Tip) <= Len(o) => o = R!Tip
<1>1. \E r \in private : \A o \in private : Len(o) <= Len(r)
  BY LongestExists
<1>2. R!Tip \in private /\ \A o \in private : Len(o) <= Len(R!Tip)
  BY <1>1 DEF R!Tip
<1>3. ASSUME NEW o \in private
      PROVE  R!IsPrefix(o, R!Tip) /\ (Len(R!Tip) <= Len(o) => o = R!Tip)
  <2>1. /\ o \in Seq(R!Links) /\ R!Tip \in Seq(R!Links)
        /\ Len(o) <= Len(R!Tip) /\ Len(o) \in Nat /\ Len(R!Tip) \in Nat
    BY <1>2, RecordsAreSequences
  <2>2. CASE R!IsPrefix(o, R!Tip)
    BY <2>1, <2>2, WholePrefix
  <2>3. CASE R!IsPrefix(R!Tip, o)
    <3>1. o = R!Tip
      BY <2>1, <2>3, WholePrefix
    <3>2. R!IsPrefix(o, R!Tip)
      BY <2>3, <3>1
    <3> QED
      BY <3>1, <3>2
  <2> QED
    BY <1>2, <2>2, <2>3 DEF R!OneChain
<1> QED
  BY <1>2, <1>3

\* A tip has the type of a parent.
LEMMA TipTyped ==
    ASSUME R!ResultsAssumption, private \subseteq Recs, R!OneChain
    PROVE  R!Tip \in Parents
<1>1. CASE private = {}
  BY <1>1 DEF R!Tip, Parents
<1>2. CASE private # {}
  BY <1>2, TipIsLongest DEF Parents
<1> QED
  BY <1>1, <1>2

\* The next link of the tip becomes the tip; the chain stays one.
LEMMA TipGrows ==
    ASSUME R!ResultsAssumption, private \subseteq Recs, R!OneChain, NEW r \in Recs,
           R!Tip \in {r, R!Front(r)}, private' = private \cup {r}
    PROVE  R!OneChain' /\ R!Tip' = r
<1>0. r \in Seq(R!Links) /\ Len(r) \in Nat \ {0}
  BY RecordsAreSequences
<1>1. ASSUME NEW o \in private PROVE R!IsPrefix(o, r) /\ Len(o) <= Len(r) /\ (Len(r) <= Len(o) => o = r)
  <2>1. /\ R!Tip \in private /\ R!IsPrefix(o, R!Tip)
        /\ Len(o) <= Len(R!Tip) /\ (Len(R!Tip) <= Len(o) => o = R!Tip)
        /\ o \in Seq(R!Links) /\ R!Tip \in Seq(R!Links)
    BY TipIsLongest, RecordsAreSequences
  <2>2. CASE R!Tip = r
    BY <2>1, <2>2
  <2>3. CASE R!Tip = R!Front(r)
    <3>1. R!IsPrefix(R!Tip, r) /\ Len(R!Tip) = Len(r) - 1
      BY <2>3, FrontOfRecord
    <3>2. R!IsPrefix(o, r)
      BY <1>0, <2>1, <3>1, PrefixTransitive
    <3>3. Len(o) \in Nat /\ Len(o) < Len(r)
      BY <1>0, <2>1, <3>1
    <3> QED
      BY <1>0, <3>2, <3>3
  <2> QED
    BY <2>2, <2>3
<1>2. R!IsPrefix(r, r)
  BY <1>0 DEF R!IsPrefix
<1>3. R!OneChain'
  BY <1>1, <1>2 DEF R!OneChain
<1>4. R!Tip' \in private' /\ \A o \in private' : Len(o) <= Len(R!Tip')
  <2>1. private' \subseteq Recs /\ private' # {}
    OBVIOUS
  <2>2. \E s \in private' : \A o \in private' : Len(o) <= Len(s)
    BY <2>1, LongestExists
  <2> QED
    BY <2>1, <2>2 DEF R!Tip
<1> QED
  BY <1>1, <1>3, <1>4

-----------------------------------------------------------------------------
(* Steps.                                                                    *)

\* A step of the job that leaves the books alone but for the operations.
LEMMA OperationsOnly ==
    ASSUME RInv, UNCHANGED <<now, private, intents, results, said>>,
           ops' \in [Ids -> OpRecord \cup {None}], JobTyped', JobHolds', OneIsPending'
    PROVE  RInv'
<1>1. ResultsTyped' /\ R!OneChain' /\ R!OneProjection'
  BY DEF RInv, ResultsTyped, R!OneChain, R!OneProjection
<1>2. R!Tip' = R!Tip /\ R!Uncommitted' = R!Uncommitted
  BY DEF R!Tip, R!Uncommitted, R!Projected
<1>3. InSequence'
  BY <1>2 DEF RInv, InSequence
<1>4. ToldOnce'
  <2>1. ToldOnce
    BY DEF RInv
  <2>2. \A t : R!Effective(t)' = R!Effective(t)
    BY DEF R!Effective
  <2> QED
    BY <2>1, <2>2 DEF ToldOnce
<1> QED
  BY <1>1, <1>3, <1>4 DEF RInv

\* The clock moves: what readers were told of the slot is noted.
LEMMA TickPreserves ==
    ASSUME R!ResultsAssumption, RInv, R!Tick
    PROVE  RInv'
<1>1. /\ now \in Nat /\ now' = now + 1 /\ now' \in 0 .. MaxTime /\ now < MaxTime /\ MaxTime \in Nat
      /\ said' = Append(said, R!read_result(now))
      /\ UNCHANGED <<ops, private, intents, results, job>>
  BY DEF R!Tick, RInv, ResultsTyped, R!ResultsAssumption
<1>2. R!read_result(now) = R!Rejected \/ R!read_result(now) = Reading(R!Effective(now))
  BY DEF R!read_result, Reading
<1>3. R!read_result(now) \in {R!Pending, R!Rejected} \cup Sources
  <2>1. ASSUME R!Effective(now) # {} PROVE Reading(R!Effective(now)) \in Sources
    <3> DEFINE Longest(v) == \A w \in R!Effective(now) : Len(w.record) <= Len(v.record)
    <3>1. {v.record : v \in R!Effective(now)} \subseteq Recs /\ {v.record : v \in R!Effective(now)} # {}
      BY <2>1 DEF R!Effective, RInv, ResultsTyped
    <3>2. \E r \in {v.record : v \in R!Effective(now)} :
             \A o \in {v.record : v \in R!Effective(now)} : Len(o) <= Len(r)
      BY <3>1, LongestExists
    <3>3. \E v \in R!Effective(now) : Longest(v)
      BY <3>2
    <3>4. PICK v \in R!Effective(now) : v = CHOOSE u \in R!Effective(now) : Longest(u)
      BY <3>3
    <3>5. v.record \in Recs
      BY <3>1, <3>4
    <3>6. R!Last(v.record).source \in Sources
      <4>1. v.record \in Seq(R!Links) /\ Len(v.record) \in 1 .. Len(v.record)
        BY <3>5, RecordsAreSequences
      <4>2. v.record[Len(v.record)] \in R!Links
        BY <4>1
      <4> QED
        BY <4>2 DEF R!Last, R!Links
    <3> QED
      BY <2>1, <3>4, <3>6 DEF Reading
  <2> QED
    BY <1>2, <2>1 DEF Reading
<1>4. said \in Seq({R!Pending, R!Rejected} \cup Sources) /\ Len(said) = now
  BY DEF RInv, ResultsTyped
<1>5. /\ said' \in Seq({R!Pending, R!Rejected} \cup Sources) /\ Len(said') = now'
      /\ said'[now'] = R!read_result(now) /\ \A t \in 1 .. now : said'[t] = said[t]
  BY <1>1, <1>3, <1>4
<1>6. ResultsTyped'
  <2>1. \A r \in intents' : R!Last(r).at <= now'
    <3> SUFFICES ASSUME NEW r \in intents PROVE R!Last(r).at <= now'
      BY <1>1
    <3>1. R!Last(r).at <= now
      BY DEF RInv, ResultsTyped
    <3>2. R!Last(r).at \in Nat
      <4>1. r \in Seq(R!Links) /\ Len(r) \in 1 .. Len(r)
        BY RecordsAreSequences DEF RInv, ResultsTyped
      <4>2. r[Len(r)] \in R!Links
        BY <4>1
      <4> QED
        BY <1>1, <4>2 DEF R!Last, R!Links
    <3> QED
      BY <1>1, <3>1, <3>2
  <2>2. \A v \in results' : v.projected <= now'
    BY <1>1 DEF RInv, ResultsTyped
  <2> QED
    BY <1>1, <1>5, <2>1, <2>2 DEF RInv, ResultsTyped
<1>7. JobTyped' /\ R!OneChain' /\ R!OneProjection'
  BY <1>1 DEF RInv, JobTyped, R!OneChain, R!OneProjection
<1>8. R!Tip' = R!Tip /\ R!Uncommitted' = R!Uncommitted /\ R!PendingOps' = R!PendingOps
  BY <1>1 DEF R!Tip, R!Uncommitted, R!Projected, R!PendingOps
<1>9. InSequence' /\ OneIsPending'
  BY <1>1, <1>8 DEF RInv, InSequence, OneIsPending
<1>10. JobHolds'
  <2>1. ASSUME job # None, job.pc = "intent" PROVE R!Last(job.record).at <= now'
    <3>1. R!Last(job.record).at <= now /\ job.record \in Recs
      BY <2>1 DEF RInv, JobHolds
    <3>2. R!Last(job.record).at \in Nat
      <4>1. job.record \in Seq(R!Links) /\ Len(job.record) \in 1 .. Len(job.record)
        BY <3>1, RecordsAreSequences
      <4>2. job.record[Len(job.record)] \in R!Links
        BY <4>1
      <4> QED
        BY <1>1, <4>2 DEF R!Last, R!Links
    <3> QED
      BY <1>1, <3>1, <3>2
  <2> QED
    BY <1>1, <1>8, <2>1 DEF RInv, JobHolds
<1>11. ToldOnce'
  <2> SUFFICES ASSUME NEW t \in 1 .. now'
               PROVE  said'[t] = R!Rejected \/ said'[t] = Reading(R!Effective(t - 1)')
    BY DEF ToldOnce, Reading
  <2>1. R!Effective(t - 1)' = R!Effective(t - 1)
    BY <1>1 DEF R!Effective
  <2>2. CASE t = now'
    BY <1>1, <1>2, <1>5, <2>1, <2>2
  <2>3. CASE t \in 1 .. now
    BY <1>5, <2>1, <2>3 DEF RInv, ToldOnce
  <2>4. t = now' \/ t \in 1 .. now
    <3>1. now \in Nat /\ now' = now + 1
      BY <1>1
    <3> QED
      BY <3>1
  <2> QED
    BY <2>2, <2>3, <2>4
<1> QED
  BY <1>6, <1>7, <1>9, <1>10, <1>11 DEF RInv

\* A new operation, under no pending one.
LEMMA StartPreserves ==
    ASSUME R!ResultsAssumption, RInv, NEW i \in Ids, NEW s \in Sources,
           NEW parent \in private \cup {<<>>}, R!Start(i, [source |-> s, supersedes |-> parent])
    PROVE  RInv'
<1> DEFINE request == [source |-> s, supersedes |-> parent]
<1>1. /\ ops' = [ops EXCEPT ![i] = [request |-> request, done |-> FALSE]]
      /\ job' = [op |-> i, pc |-> "check", record |-> <<>>]
      /\ UNCHANGED <<now, private, intents, results, said>>
      /\ R!PendingOps = {}
  BY DEF R!Start, R!NoOther
<1>2. request \in R!Requests
  <2>1. parent \in UNION {[1 .. n -> R!Links] : n \in 0 .. MaxLinks}
    <3>1. CASE parent \in private
      <4>1. PICK n \in 1 .. MaxLinks : parent \in [1 .. n -> R!Links]
        BY <3>1 DEF RInv, ResultsTyped, Recs
      <4>2. n \in 0 .. MaxLinks
        BY <4>1 DEF R!ResultsAssumption
      <4> QED
        BY <4>1, <4>2
    <3>2. CASE parent = <<>>
      <4>1. parent \in [1 .. 0 -> R!Links]
        BY <3>2
      <4>2. 0 \in 0 .. MaxLinks
        BY DEF R!ResultsAssumption
      <4> QED
        BY <4>1, <4>2
    <3> QED
      BY <3>1, <3>2
  <2> QED
    BY <2>1 DEF R!Requests
<1>3. ops \in [Ids -> OpRecord \cup {None}]
  BY DEF RInv, ResultsTyped
<1>4. [request |-> request, done |-> FALSE] \in OpRecord
  BY <1>2 DEF OpRecord
<1> HIDE DEF request
<1>5. /\ ops' \in [Ids -> OpRecord \cup {None}] /\ ops'[i] \in OpRecord
      /\ \A j \in Ids : j # i => ops'[j] = ops[j]
  BY <1>1, <1>3, <1>4
<1>6. JobTyped'
  BY <1>1, <1>5 DEF JobTyped, ResultJobRecord, Parents
<1>7. JobHolds'
  BY <1>1 DEF JobHolds
<1>8. OneIsPending'
  BY <1>1, <1>5 DEF OneIsPending, R!PendingOps
<1> QED
  BY <1>1, <1>5, <1>6, <1>7, <1>8, OperationsOnly

\* The request repeats the tip, extends it, or is refused.
LEMMA CheckPreserves ==
    ASSUME R!ResultsAssumption, RInv, R!Check
    PROVE  RInv'
<1> DEFINE request == ops[job.op].request
           link == [source |-> request.source, at |-> now]
           record == Append(request.supersedes, link)
<1>1. /\ job # None /\ job.pc = "check" /\ job \in ResultJobRecord /\ job.op \in Ids
      /\ ops[job.op] \in OpRecord /\ request \in R!Requests
  BY DEF R!Check, RInv, JobTyped, OpRecord
<1>2. UNCHANGED <<now, ops, private, intents, results, said>>
  BY DEF R!Check
<1>3. R!PendingOps' = R!PendingOps
  BY <1>2 DEF R!PendingOps
<1>4. \/ R!Repeats(request) /\ job' = [job EXCEPT !.pc = "project", !.record = R!Tip]
      \/ /\ R!Extends(request) /\ R!NoIntentPending /\ Len(record) <= MaxLinks
         /\ job' = [job EXCEPT !.pc = "intent", !.record = record]
      \/ job' = None
  BY DEF R!Check
<1> HIDE DEF request
<1>5. R!Tip \in Parents
  BY TipTyped DEF RInv, ResultsTyped
<1>6. JobTyped' /\ JobHolds'
  <2>1. CASE R!Repeats(request) /\ job' = [job EXCEPT !.pc = "project", !.record = R!Tip]
    <3>1. /\ job' \in ResultJobRecord /\ job'.pc = "project" /\ job'.record = R!Tip /\ job'.op = job.op
      BY <1>1, <1>5, <2>1 DEF ResultJobRecord
    <3>2. R!Tip \in private
      BY <2>1, TipIsLongest DEF R!Repeats, RInv, ResultsTyped
    <3>3. R!Tip' = R!Tip
      BY <1>2 DEF R!Tip
    <3>4. JobTyped'
      BY <1>1, <1>2, <3>1 DEF JobTyped
    <3> QED
      BY <1>2, <3>1, <3>2, <3>3, <3>4 DEF JobHolds
  <2>2. CASE /\ R!Extends(request) /\ R!NoIntentPending /\ Len(record) <= MaxLinks
             /\ job' = [job EXCEPT !.pc = "intent", !.record = record]
    <3>1. request.supersedes = R!Tip /\ R!Uncommitted = {} /\ now \in 0 .. MaxTime
      BY <2>2 DEF R!Extends, R!NoIntentPending, RInv, ResultsTyped
    <3>2. link \in R!Links
      BY <1>1, <3>1 DEF R!Links, R!Requests
    <3>3. record \in Recs /\ R!Front(record) = R!Tip /\ R!Last(record) = link
      <4> HIDE DEF link
      <4> QED
        BY <1>5, <2>2, <3>1, <3>2, AppendedLink
    <3>4. R!Last(record).at = now
      BY <3>3
    <3> HIDE DEF record
    <3>5. job' \in ResultJobRecord /\ job'.pc = "intent" /\ job'.record = record /\ job'.op = job.op
      BY <1>1, <2>2, <3>3 DEF ResultJobRecord, Parents
    <3>6. R!Tip' = R!Tip /\ R!Uncommitted' = R!Uncommitted
      BY <1>2 DEF R!Tip, R!Uncommitted, R!Projected
    <3>7. JobTyped'
      BY <1>1, <1>2, <3>5 DEF JobTyped
    <3>8. R!Last(record).at <= now'
      BY <1>2, <3>1, <3>4
    <3> QED
      BY <3>1, <3>3, <3>5, <3>6, <3>7, <3>8 DEF JobHolds
  <2>3. CASE job' = None
    BY <2>3 DEF JobTyped, JobHolds
  <2> QED
    BY <1>4, <2>1, <2>2, <2>3
<1>7. OneIsPending' /\ ops' \in [Ids -> OpRecord \cup {None}]
  BY <1>2, <1>3 DEF RInv, OneIsPending, ResultsTyped
<1> QED
  BY <1>2, <1>6, <1>7, OperationsOnly

\* The intent is filed: one result waits for its projection.
LEMMA IntentPreserves ==
    ASSUME R!ResultsAssumption, RInv, R!Intent
    PROVE  RInv'
<1>1. /\ job # None /\ job.pc = "intent" /\ job \in ResultJobRecord
      /\ job.record \in Recs /\ R!Front(job.record) = R!Tip /\ R!Uncommitted = {}
      /\ R!Last(job.record).at <= now
      /\ intents' = intents \cup {job.record} /\ job' = [job EXCEPT !.pc = "put"]
      /\ UNCHANGED <<now, ops, private, results, said>>
  BY DEF R!Intent, RInv, JobTyped, JobHolds
<1>2. R!Tip' = R!Tip /\ R!PendingOps' = R!PendingOps
  BY <1>1 DEF R!Tip, R!PendingOps
<1>3. job.record \notin private
  <2> SUFFICES ASSUME job.record \in private PROVE FALSE
    OBVIOUS
  <2>1. Len(job.record) <= Len(R!Tip) /\ Len(job.record) \in Nat
    BY TipIsLongest, RecordsAreSequences, <1>1 DEF RInv, ResultsTyped
  <2>2. Len(R!Tip) = Len(job.record) - 1
    BY <1>1, FrontOfRecord
  <2> QED
    BY <2>1, <2>2
<1>4. R!Uncommitted' = {job.record}
  <2>1. ~R!Projected(job.record)'
    BY <1>1, <1>3 DEF R!Projected, RInv, InSequence
  <2>2. \A r \in intents : R!Projected(r)'
    BY <1>1 DEF R!Uncommitted, R!Projected
  <2> QED
    BY <1>1, <2>1, <2>2 DEF R!Uncommitted
<1>5. ResultsTyped'
  BY <1>1 DEF RInv, ResultsTyped
<1>6. job' \in ResultJobRecord /\ job'.pc = "put" /\ job'.record = job.record /\ job'.op = job.op
  BY <1>1 DEF ResultJobRecord
<1>7. JobTyped'
  BY <1>1, <1>6 DEF RInv, JobTyped
<1>8. InSequence'
  <2>1. R!Tip' \in {job.record, R!Front(job.record)}
    BY <1>1, <1>2
  <2> QED
    BY <1>1, <1>4, <2>1 DEF RInv, InSequence
<1>9. JobHolds'
  BY <1>1, <1>2, <1>6 DEF JobHolds
<1>10. R!OneChain' /\ R!OneProjection' /\ OneIsPending'
  BY <1>1, <1>2 DEF RInv, R!OneChain, R!OneProjection, OneIsPending
<1>11. ToldOnce'
  BY <1>1 DEF RInv, ToldOnce, R!Effective, Reading
<1> QED
  BY <1>5, <1>7, <1>8, <1>9, <1>10, <1>11 DEF RInv

\* The record is filed: it is the tip.
LEMMA PutPreserves ==
    ASSUME R!ResultsAssumption, RInv, R!Put
    PROVE  RInv'
<1>1. /\ job # None /\ job.pc = "put" /\ job \in ResultJobRecord
      /\ job.record \in intents /\ R!Tip \in {job.record, R!Front(job.record)} /\ job.record \in Recs
      /\ private' = private \cup {job.record} /\ job' = [job EXCEPT !.pc = "project"]
      /\ UNCHANGED <<now, ops, intents, results, said>>
  BY DEF R!Put, RInv, JobTyped, JobHolds, ResultsTyped
<1>2. R!OneChain' /\ R!Tip' = job.record
  BY <1>1, TipGrows DEF RInv, ResultsTyped
<1>3. R!Uncommitted' = R!Uncommitted /\ R!PendingOps' = R!PendingOps
  BY <1>1 DEF R!Uncommitted, R!Projected, R!PendingOps
<1>4. ResultsTyped'
  BY <1>1 DEF RInv, ResultsTyped
<1>5. job' \in ResultJobRecord /\ job'.pc = "project" /\ job'.record = job.record /\ job'.op = job.op
  BY <1>1 DEF ResultJobRecord
<1>6. JobTyped'
  BY <1>1, <1>5 DEF RInv, JobTyped
<1>7. InSequence'
  <2> SUFFICES ASSUME NEW r \in R!Uncommitted PROVE R!Tip' \in {r, R!Front(r)}
    BY <1>1, <1>3 DEF RInv, InSequence
  <2>1. R!Uncommitted = {r} /\ R!Tip \in {r, R!Front(r)}
    BY DEF RInv, InSequence
  <2>2. CASE R!Tip = job.record
    BY <1>2, <2>1, <2>2
  <2>3. CASE R!Tip # job.record
    <3>1. job.record \notin private
      <4> SUFFICES ASSUME job.record \in private PROVE FALSE
        OBVIOUS
      <4>1. Len(job.record) <= Len(R!Tip) /\ Len(job.record) \in Nat
        BY TipIsLongest, RecordsAreSequences, <1>1 DEF RInv, ResultsTyped
      <4>2. Len(R!Tip) = Len(job.record) - 1
        BY <1>1, <2>3, FrontOfRecord
      <4> QED
        BY <4>1, <4>2
    <3>2. job.record \in R!Uncommitted
      BY <1>1, <3>1 DEF R!Uncommitted, R!Projected, RInv, InSequence
    <3> QED
      BY <1>2, <2>1, <3>2
  <2> QED
    BY <2>2, <2>3
<1>8. JobHolds'
  BY <1>1, <1>2, <1>5 DEF JobHolds
<1>9. R!OneProjection' /\ OneIsPending'
  BY <1>1, <1>3 DEF RInv, R!OneProjection, OneIsPending
<1>10. ToldOnce'
  BY <1>1 DEF RInv, ToldOnce, R!Effective, Reading
<1> QED
  BY <1>2, <1>4, <1>6, <1>7, <1>8, <1>9, <1>10 DEF RInv

\* The tip is shown, once: readings of the slots before are the ones they were.
LEMMA ProjectPreserves ==
    ASSUME R!ResultsAssumption, RInv, R!Project
    PROVE  RInv'
<1> DEFINE view == [record |-> job.record, projected |-> now]
<1>1. /\ job # None /\ job.pc = "project" /\ job \in ResultJobRecord /\ job.record \in private
      /\ job.record = R!Tip /\ job.record \in Recs
      /\ results' = (IF R!Projected(job.record) THEN results ELSE results \cup {view})
      /\ job' = [job EXCEPT !.pc = "done"]
      /\ UNCHANGED <<now, ops, private, intents, said>>
  BY DEF R!Project, RInv, JobTyped, JobHolds, ResultsTyped
<1>2. view.record = job.record /\ view.projected = now /\ now \in 0 .. MaxTime
  BY DEF RInv, ResultsTyped
<1>3. view \in [record : Recs, projected : 0 .. MaxTime]
  BY <1>1, <1>2
<1> HIDE DEF view
<1>4. ResultsTyped'
  BY <1>1, <1>2, <1>3 DEF RInv, ResultsTyped
<1>5. job' \in ResultJobRecord /\ job'.pc = "done" /\ job'.op = job.op
  BY <1>1 DEF ResultJobRecord
<1>6. JobTyped' /\ JobHolds'
  BY <1>1, <1>5 DEF RInv, JobTyped, JobHolds
<1>7. R!Tip' = R!Tip /\ R!PendingOps' = R!PendingOps
  BY <1>1 DEF R!Tip, R!PendingOps
<1>8. R!Uncommitted' \subseteq R!Uncommitted
  BY <1>1 DEF R!Uncommitted, R!Projected
<1>9. InSequence'
  <2>1. \A v \in results' : v.record \in private
    BY <1>1, <1>2 DEF RInv, InSequence
  <2> QED
    BY <1>1, <1>7, <1>8, <2>1 DEF RInv, InSequence
<1>10. R!OneProjection'
  BY <1>1, <1>2 DEF RInv, R!OneProjection, R!Projected
<1>11. R!OneChain' /\ OneIsPending'
  BY <1>1, <1>7 DEF RInv, R!OneChain, OneIsPending
<1>12. ToldOnce'
  <2> SUFFICES ASSUME NEW t \in 1 .. now
               PROVE  R!Effective(t - 1)' = R!Effective(t - 1)
    BY <1>1 DEF RInv, ToldOnce, Reading
  <2>1. ~(view.projected <= t - 1)
    BY <1>2
  <2> QED
    BY <1>1, <2>1 DEF R!Effective
<1> QED
  BY <1>4, <1>6, <1>9, <1>10, <1>11, <1>12 DEF RInv

\* The operation is done.
LEMMA DonePreserves ==
    ASSUME RInv, R!Done
    PROVE  RInv'
<1>1. /\ job # None /\ job' = None /\ UNCHANGED <<now, private, intents, results, said>>
      /\ ops' = IF job.op = None THEN ops ELSE [ops EXCEPT ![job.op].done = TRUE]
  BY DEF R!Done
<1>2. /\ ops \in [Ids -> OpRecord \cup {None}]
      /\ job.op # None => ops[job.op] \in OpRecord /\ job.op \in Ids
  BY <1>1 DEF RInv, ResultsTyped, JobTyped
<1>3. ops' \in [Ids -> OpRecord \cup {None}] /\ R!PendingOps' \subseteq R!PendingOps
  <2>1. CASE job.op = None
    BY <1>1, <1>2, <2>1 DEF R!PendingOps
  <2>2. CASE job.op # None
    <3>1. [ops[job.op] EXCEPT !.done = TRUE] \in OpRecord /\ [ops[job.op] EXCEPT !.done = TRUE].done
      BY <1>2, <2>2 DEF OpRecord
    <3>2. ops' = [ops EXCEPT ![job.op] = [ops[job.op] EXCEPT !.done = TRUE]]
      BY <1>1, <2>2
    <3>3. /\ ops' \in [Ids -> OpRecord \cup {None}] /\ ops'[job.op].done
          /\ \A i \in Ids : i # job.op => ops'[i] = ops[i]
      BY <1>2, <2>2, <3>1, <3>2
    <3> QED
      BY <3>3 DEF R!PendingOps
  <2> QED
    BY <2>1, <2>2
<1>4. JobTyped' /\ JobHolds'
  BY <1>1 DEF JobTyped, JobHolds
<1>5. OneIsPending'
  BY <1>3 DEF RInv, OneIsPending
<1> QED
  BY <1>1, <1>3, <1>4, <1>5, OperationsOnly

\* An intent is put and projected again.
LEMMA ResumePreserves ==
    ASSUME RInv, NEW r \in intents, R!Resume(r)
    PROVE  RInv'
<1>1. /\ R!Tip \in {r, R!Front(r)} /\ job' = [op |-> None, pc |-> "put", record |-> r]
      /\ UNCHANGED <<now, ops, private, intents, results, said>>
  BY DEF R!Resume
<1>2. r \in Parents
  BY DEF RInv, ResultsTyped, Parents
<1>3. JobTyped'
  BY <1>1, <1>2 DEF JobTyped, ResultJobRecord
<1>4. JobHolds'
  <2>1. R!Tip' = R!Tip
    BY <1>1 DEF R!Tip
  <2> QED
    BY <1>1, <2>1 DEF JobHolds
<1>5. OneIsPending' /\ ops' \in [Ids -> OpRecord \cup {None}]
  BY <1>1 DEF RInv, OneIsPending, R!PendingOps, ResultsTyped
<1> QED
  BY <1>1, <1>3, <1>4, <1>5, OperationsOnly

\* The job stops, or a person clears a pending operation.
LEMMA StopPreserves ==
    ASSUME RInv, R!Crash \/ \E i \in Ids : R!Inspect(i)
    PROVE  RInv'
<1>1. job' = None /\ UNCHANGED <<now, private, intents, results, said>>
  BY DEF R!Crash, R!Inspect
<1>2. ops' \in [Ids -> OpRecord \cup {None}] /\ R!PendingOps' \subseteq R!PendingOps
  <2>1. ops \in [Ids -> OpRecord \cup {None}]
    BY DEF RInv, ResultsTyped
  <2>2. CASE R!Crash
    BY <2>1, <2>2 DEF R!Crash, R!PendingOps
  <2>3. ASSUME NEW i \in Ids, R!Inspect(i)
        PROVE  ops' \in [Ids -> OpRecord \cup {None}] /\ R!PendingOps' \subseteq R!PendingOps
    <3>1. ops' = [ops EXCEPT ![i] = None]
      BY <2>3 DEF R!Inspect
    <3> QED
      BY <2>1, <3>1 DEF R!PendingOps
  <2> QED
    BY <2>2, <2>3
<1>3. JobTyped' /\ JobHolds' /\ OneIsPending'
  BY <1>1, <1>2 DEF RInv, JobTyped, JobHolds, OneIsPending
<1> QED
  BY <1>1, <1>2, <1>3, OperationsOnly

\* Nothing is recorded at first.
LEMMA ResultsStart ==
    ASSUME R!ResultsAssumption, R!Init
    PROVE  RInv
<1>1. ResultsTyped
  BY DEF R!Init, ResultsTyped, R!ResultsAssumption
<1>2. JobTyped /\ JobHolds /\ R!OneChain /\ R!OneProjection
  BY DEF R!Init, JobTyped, JobHolds, R!OneChain, R!OneProjection
<1>3. InSequence /\ OneIsPending /\ ToldOnce
  BY DEF R!Init, InSequence, R!Uncommitted, OneIsPending, R!PendingOps, ToldOnce
<1> QED
  BY <1>1, <1>2, <1>3 DEF RInv

\* The inductive invariant holds in every state of the results, however jobs stop and are resumed.
THEOREM ResultsSafety ==
    ASSUME R!ResultsAssumption
    PROVE  R!Spec => []RInv
<1>1. R!Init => RInv
  BY ResultsStart
<1>2. RInv /\ [R!Next]_R!vars => RInv'
  <2> SUFFICES ASSUME RInv, [R!Next]_R!vars PROVE RInv'
    OBVIOUS
  <2>1. ASSUME NEW i \in Ids, NEW s \in Sources, NEW parent \in private \cup {<<>>},
               R!Start(i, [source |-> s, supersedes |-> parent])
        PROVE  RInv'
    BY <2>1, StartPreserves
  <2>2. CASE UNCHANGED R!vars
    <3>1. UNCHANGED <<now, private, intents, results, said, ops, job>>
      BY <2>2 DEF R!vars
    <3>2. R!Tip' = R!Tip /\ R!Uncommitted' = R!Uncommitted
      BY <3>1 DEF R!Tip, R!Uncommitted, R!Projected
    <3>3. JobTyped' /\ JobHolds' /\ OneIsPending' /\ ops' \in [Ids -> OpRecord \cup {None}]
      BY <3>1, <3>2 DEF RInv, JobTyped, JobHolds, OneIsPending, R!PendingOps, ResultsTyped
    <3> QED
      BY <3>1, <3>3, OperationsOnly
  <2> QED
    BY <2>1, <2>2, TickPreserves, CheckPreserves, IntentPreserves, PutPreserves, ProjectPreserves,
       DonePreserves, ResumePreserves, StopPreserves DEF R!Next
<1> QED
  BY <1>1, <1>2, PTL DEF R!Spec

\* Operations, records, projections and what was told keep their types.
THEOREM ResultsTypeCorrect ==
    ASSUME R!ResultsAssumption
    PROVE  R!Spec => []R!TypeOK
<1>1. RInv => R!TypeOK
  <2> SUFFICES ASSUME RInv PROVE R!TypeOK
    OBVIOUS
  <2>1. \A i \in Ids : ops[i] = None \/ (ops[i].request \in R!Requests /\ ops[i].done \in BOOLEAN)
    BY DEF RInv, ResultsTyped, OpRecord
  <2>2. private \cup intents \cup R!Shown \subseteq UNION {[1 .. n -> R!Links] : n \in 1 .. MaxLinks}
    BY DEF RInv, ResultsTyped, R!Shown, Recs
  <2>3. job = None \/ job.op \in Ids \cup {None}
    BY DEF RInv, JobTyped, ResultJobRecord
  <2> QED
    BY <2>1, <2>2, <2>3 DEF RInv, ResultsTyped, R!TypeOK
<1> QED
  BY <1>1, ResultsSafety, PTL

\* The private results are one chain: two corrections of the same result never both exist, however
\* jobs stop and are resumed (record_result, resume_result).
THEOREM ResultsAreOneChain ==
    ASSUME R!ResultsAssumption
    PROVE  R!Spec => []R!OneChain
<1>1. RInv => R!OneChain
  BY DEF RInv
<1> QED
  BY <1>1, ResultsSafety, PTL

\* A reader of the public evidence answers the tip of the private chain or refuses (read_result): the
\* intents it finds name every private record, and what is projected is private.
THEOREM ReadersSeeTheTip ==
    ASSUME R!ResultsAssumption
    PROVE  R!Spec => []R!ReaderSeesTip
<1>1. RInv => R!ReaderSeesTip
  <2> SUFFICES ASSUME RInv, R!Consistent
               PROVE  R!read_result(now) = IF private = {} THEN R!Pending ELSE R!Last(R!Tip).source
    BY DEF R!ReaderSeesTip, R!read_result
  <2>1. R!Effective(now) = results
    <3>1. \A v \in results : v.record \in intents
      BY DEF RInv, InSequence
    <3> QED
      BY <3>1 DEF R!Effective, RInv, ResultsTyped
  <2>2. intents = R!Shown /\ private \subseteq intents /\ \A v \in results : v.record \in private
    BY DEF R!Consistent, RInv, InSequence
  <2>3. CASE results = {}
    BY <2>1, <2>2, <2>3 DEF R!read_result, R!Shown
  <2>4. CASE results # {}
    <3>1. private # {}
      BY <2>2, <2>4
    <3>2. /\ R!Tip \in private /\ \A o \in private : Len(o) <= Len(R!Tip)
          /\ \A o \in private : Len(R!Tip) <= Len(o) => o = R!Tip
      BY <3>1, TipIsLongest DEF RInv, ResultsTyped
    <3>3. PICK u \in results : u.record = R!Tip
      BY <2>2, <3>2 DEF R!Shown
    <3> DEFINE Longest(v) == \A w \in R!Effective(now) : Len(w.record) <= Len(v.record)
               chosen == CHOOSE v \in R!Effective(now) : Longest(v)
    <3>4. \E v \in R!Effective(now) : Longest(v)
      BY <2>1, <2>2, <3>2, <3>3
    <3>5. chosen \in results /\ Len(R!Tip) <= Len(chosen.record)
      BY <2>1, <3>3, <3>4
    <3>6. chosen.record = R!Tip
      BY <2>2, <3>2, <3>5
    <3>7. R!read_result(now) = R!Last(chosen.record).source
      BY <2>1, <2>4 DEF R!read_result
    <3> QED
      BY <3>1, <3>6, <3>7
  <2> QED
    BY <2>3, <2>4
<1> QED
  BY <1>1, ResultsSafety, PTL

\* What readers were told of a slot when it ended they are never told otherwise, though a resumed
\* result keeps the time it was observed (read_result's as_of).
THEOREM PastStaysTold ==
    ASSUME R!ResultsAssumption
    PROVE  R!Spec => []R!PastIsStable
<1>1. RInv => R!PastIsStable
  BY DEF RInv, ToldOnce, R!PastIsStable, R!read_result, Reading
<1> QED
  BY <1>1, ResultsSafety, PTL

\* What a stopped job left half written can be resumed (resume_result).
THEOREM AlwaysCanResume ==
    ASSUME R!ResultsAssumption
    PROVE  R!Spec => []R!AlwaysResumable
<1>1. RInv => R!AlwaysResumable
  BY DEF RInv, InSequence, R!AlwaysResumable
<1> QED
  BY <1>1, ResultsSafety, PTL

\* At most one operation is pending (run_once).
THEOREM OneOperationPending ==
    ASSUME R!ResultsAssumption
    PROVE  R!Spec => []R!OnePending
<1>1. RInv => R!OnePending
  <2> SUFFICES ASSUME RInv PROVE R!Cardinality(R!PendingOps) <= 1
    BY DEF R!OnePending
  <2>1. CASE R!PendingOps = {}
    BY <2>1, FS_EmptySet, CountsAgree
  <2>2. CASE R!PendingOps # {}
    <3>1. PICK i : i \in R!PendingOps
      BY <2>2
    <3>2. R!PendingOps = {i}
      BY <3>1 DEF RInv, OneIsPending
    <3>3. R!Cardinality({i}) = 1
      BY FS_Singleton, CountsAgree
    <3> QED
      BY <3>2, <3>3
  <2> QED
    BY <2>1, <2>2
<1> QED
  BY <1>1, ResultsSafety, PTL

\* Repeating or resuming never projects a result a second time.
THEOREM ProjectedOnce ==
    ASSUME R!ResultsAssumption
    PROVE  R!Spec => []R!OneProjection
<1>1. RInv => R!OneProjection
  BY DEF RInv
<1> QED
  BY <1>1, ResultsSafety, PTL

-----------------------------------------------------------------------------
(* From a frozen forecast to a published pick.                             *)

\* What the books hold.
Response == [forecast : 0 .. MaxTime, at : 0 .. MaxTime, price : [Lines -> 0 .. 1]]
Observation == [response : Response, line : Lines, at : 0 .. MaxTime]
Attempt == [response : Response, line : Lines]
Certificate == [choice : Observation, at : 0 .. MaxTime, verified : 0 .. MaxTime, until : Int]
Pick == [choice : Observation, checked : 0 .. MaxTime, at : 0 .. MaxTime, linked : 0 .. MaxTime]
Choosing == {"validate", "certify", "link"}
PickJobRecord == [pc : {"observe"} \cup Choosing, response : Response, lines : SUBSET Lines,
                  choice : Observation \cup {None}, checked : (0 .. MaxTime) \cup {None},
                  at : (0 .. MaxTime) \cup {None}]

\* The variables have their types; nothing is of the future.
ProductTyped ==
    /\ now \in 0 .. MaxTime /\ forecasts \subseteq 0 .. now
    /\ responses \subseteq Response /\ observations \subseteq Observation
    /\ attempts \subseteq Attempt /\ certificates \subseteq Certificate /\ picks \subseteq Pick
    /\ job # None => job \in PickJobRecord

\* A response came after its cohort was frozen, an observation after its response; an attempt at a
\* line left its observation.
InOrderOfTime ==
    /\ \A r \in responses : r.forecast \in forecasts /\ r.forecast < r.at /\ r.at <= now
    /\ \A o \in observations :
          o.response \in responses /\ o.response.at <= o.at /\ o.at <= now /\ o.at < Kickoff
    /\ \A a \in attempts : \E o \in observations : o.response = a.response /\ o.line = a.line
    /\ \A p \in picks : p.checked <= now

\* The choice of a publication, under way or linked, is what the records of its check select.
Chosen(choice, checked) == choice \in observations /\ choice \in Q!select(checked)
JobChooses ==
    job # None =>
        /\ job.pc = "observe" => job.response \in responses
        /\ job.pc \in Choosing =>
              /\ picks = {} /\ job.checked \in 0 .. MaxTime /\ job.checked <= now
              /\ Chosen(job.choice, job.checked) /\ job.response = job.choice.response
        /\ job.pc = "certify" => job.at \in 0 .. now /\ \A c \in certificates : c.at < job.at
        /\ job.pc = "link" =>
              /\ job.at \in 0 .. now
              /\ \E c \in certificates : c.choice = job.choice /\ c.at = job.at /\ c.verified <= now
PicksChosen ==
    /\ \A p, q \in picks : p = q
    /\ \A p \in picks :
          /\ Chosen(p.choice, p.checked)
          /\ \E c \in certificates : c.choice = p.choice /\ c.at = p.at /\ c.verified <= p.linked
    /\ \A c, d \in certificates : c.at = d.at => c = d

\* The inductive invariant of the product.
PInv ==
    ProductTyped /\ InOrderOfTime /\ JobChooses /\ PicksChosen /\ Q!LinkedInWindow

\* What was selected as of a time stays selected when nothing of that time is added.
LEMMA SelectionStands ==
    ASSUME NEW t, observations \subseteq observations', forecasts \subseteq forecasts',
           \A o \in observations' \ observations : ~(o.at <= t),
           \A f \in forecasts' \ forecasts : ~(f <= t)
    PROVE  Q!select(t)' = Q!select(t)
<1>1. {f \in forecasts' : f <= t} = {f \in forecasts : f <= t}
  OBVIOUS
<1>2. Q!Cohort(t)' = Q!Cohort(t)
  BY <1>1 DEF Q!Cohort, Q!Latest
<1>3. Q!Seen(t)' = Q!Seen(t)
  BY <1>2 DEF Q!Seen
<1>4. Q!Newest(t)' = Q!Newest(t)
  BY <1>3 DEF Q!Newest, Q!Latest
<1>5. Q!Current(t)' = Q!Current(t)
  BY <1>3, <1>4 DEF Q!Current, Q!Latest
<1>6. Q!Offers(t)' = Q!Offers(t)
  BY <1>5 DEF Q!Offers, Q!Usable
<1> QED
  BY <1>6 DEF Q!select, Q!Better

\* A selected observation is of the newest cohort and the newest response seen of it.
LEMMA SelectedIsNewest ==
    ASSUME NEW t, NEW c \in Q!select(t)
    PROVE  /\ c \in observations /\ c.at <= t /\ c.response.forecast \in Q!Cohort(t)
           /\ \A o \in Q!Seen(t) : o.response.at <= c.response.at
<1>1. c \in Q!Current(t)
  BY DEF Q!select, Q!Offers
<1>2. c \in Q!Seen(t) /\ \E n \in Q!Newest(t) : c.response = n.response
  BY <1>1 DEF Q!Current, Q!Latest
<1>3. \A n \in Q!Newest(t) : \A o \in Q!Seen(t) : o.response.at <= n.response.at
  BY DEF Q!Newest, Q!Latest
<1> QED
  BY <1>2, <1>3 DEF Q!Seen

\* The clock moves.
LEMMA ProductTickPreserves ==
    ASSUME Q!ProductAssumption, PInv, Q!Tick
    PROVE  PInv'
<1>1. /\ now \in Nat /\ now' = now + 1 /\ now' \in 0 .. MaxTime /\ MaxTime \in Nat
      /\ UNCHANGED <<forecasts, responses, attempts, observations, certificates, picks, job>>
  BY DEF Q!Tick, PInv, ProductTyped, Q!ProductAssumption
<1>2. \A n \in Int : n <= now => n <= now'
  BY <1>1
<1>3. ProductTyped'
  <2>1. forecasts' \subseteq 0 .. now'
    BY <1>1 DEF PInv, ProductTyped
  <2> QED
    BY <1>1, <2>1 DEF PInv, ProductTyped
<1>4. InOrderOfTime'
  <2>1. \A r \in responses : r.at <= now'
    BY <1>1, <1>2 DEF PInv, ProductTyped, InOrderOfTime, Response
  <2>2. \A o \in observations : o.at <= now'
    BY <1>1, <1>2 DEF PInv, ProductTyped, InOrderOfTime, Observation
  <2>3. \A p \in picks : p.checked <= now'
    BY <1>1, <1>2 DEF PInv, ProductTyped, InOrderOfTime, Pick
  <2> QED
    BY <1>1, <2>1, <2>2, <2>3 DEF PInv, InOrderOfTime
<1>5. \A t : Q!select(t)' = Q!select(t)
  BY <1>1, SelectionStands
<1>6. PicksChosen' /\ Q!LinkedInWindow'
  BY <1>1, <1>5 DEF PInv, PicksChosen, Chosen, Q!LinkedInWindow
<1>7. JobChooses'
  <2> SUFFICES ASSUME job # None PROVE JobChooses'
    BY <1>1 DEF JobChooses
  <2>1. job.pc \in Choosing => job.checked \in Int /\ job.checked <= now'
    BY <1>1, <1>2 DEF PInv, JobChooses
  <2>2. job.pc \in {"certify", "link"} => job.at \in 0 .. now'
    BY <1>1 DEF PInv, JobChooses
  <2>3. ASSUME NEW c \in certificates, c.verified <= now PROVE c.verified <= now'
    BY <1>1, <2>3 DEF PInv, ProductTyped, Certificate
  <2> QED
    BY <1>1, <1>5, <2>1, <2>2, <2>3 DEF PInv, JobChooses, Chosen
<1> QED
  BY <1>3, <1>4, <1>6, <1>7 DEF PInv

\* A cohort is frozen, later than any check.
LEMMA FreezePreserves ==
    ASSUME Q!ProductAssumption, PInv, Q!Freeze
    PROVE  PInv'
<1>1. /\ job = None /\ forecasts' = forecasts \cup {now} /\ \A p \in picks : p.checked < now
      /\ UNCHANGED <<now, responses, attempts, observations, certificates, picks, job>>
  BY DEF Q!Freeze, Q!ClockMoved
<1>2. now \in Nat /\ forecasts' \subseteq 0 .. now
  BY <1>1 DEF PInv, ProductTyped, Q!ProductAssumption
<1>3. ProductTyped'
  BY <1>1, <1>2 DEF PInv, ProductTyped
<1>4. InOrderOfTime'
  BY <1>1 DEF PInv, InOrderOfTime
<1>5. ASSUME NEW p \in picks PROVE Q!select(p.checked)' = Q!select(p.checked)
  <2>1. p.checked \in Int /\ p.checked < now
    BY <1>1 DEF PInv, ProductTyped, Pick
  <2>2. ~(now <= p.checked)
    BY <1>2, <2>1
  <2> QED
    BY <1>1, <2>2, SelectionStands
<1>6. PicksChosen' /\ Q!LinkedInWindow'
  BY <1>1, <1>5 DEF PInv, PicksChosen, Chosen, Q!LinkedInWindow
<1>7. JobChooses'
  BY <1>1 DEF JobChooses
<1> QED
  BY <1>3, <1>4, <1>6, <1>7 DEF PInv

\* A response is retained for a cohort frozen before.
LEMMA RespondPreserves ==
    ASSUME Q!ProductAssumption, PInv, NEW f \in forecasts, NEW price \in [Lines -> 0 .. 1],
           Q!Respond(f, price)
    PROVE  PInv'
<1> DEFINE r == [forecast |-> f, at |-> now, price |-> price]
<1>1. /\ job = None /\ f < now /\ responses' = responses \cup {r}
      /\ UNCHANGED <<now, forecasts, attempts, observations, certificates, picks, job>>
  BY DEF Q!Respond, Q!AfterFreeze
<1>2. r \in Response /\ r.forecast = f /\ r.at = now
  <2>1. now \in 0 .. MaxTime /\ f \in 0 .. MaxTime
    BY DEF PInv, ProductTyped, Q!ProductAssumption
  <2> QED
    BY <2>1 DEF Response
<1> HIDE DEF r
<1>3. ProductTyped'
  BY <1>1, <1>2 DEF PInv, ProductTyped
<1>4. InOrderOfTime'
  <2>1. r.at <= now
    BY <1>2 DEF PInv, ProductTyped, Q!ProductAssumption
  <2> QED
    BY <1>1, <1>2, <2>1 DEF PInv, InOrderOfTime
<1>5. \A t : Q!select(t)' = Q!select(t)
  BY <1>1, SelectionStands
<1>6. PicksChosen' /\ Q!LinkedInWindow' /\ JobChooses'
  BY <1>1, <1>5 DEF PInv, PicksChosen, Chosen, Q!LinkedInWindow, JobChooses
<1> QED
  BY <1>3, <1>4, <1>6 DEF PInv

\* A line of the response is observed, later than any check.
LEMMA ObservePreserves ==
    ASSUME Q!ProductAssumption, PInv, Q!Observe
    PROVE  PInv'
<1>1. /\ job # None /\ job.pc = "observe" /\ \A p \in picks : p.checked < now
      /\ UNCHANGED <<now, forecasts, responses, certificates, picks>>
  BY DEF Q!Observe, Q!ClockMoved
<1>2. /\ job \in PickJobRecord /\ job.response \in responses /\ job.response \in Response
      /\ now \in 0 .. MaxTime /\ now \in Nat /\ job.response.at <= now
  BY <1>1 DEF PInv, ProductTyped, JobChooses, InOrderOfTime, Q!ProductAssumption
<1>3. CASE job' = None /\ UNCHANGED <<attempts, observations>>
  <2>1. ProductTyped' /\ InOrderOfTime' /\ JobChooses'
    BY <1>1, <1>3 DEF PInv, ProductTyped, InOrderOfTime, JobChooses
  <2>2. \A t : Q!select(t)' = Q!select(t)
    BY <1>1, <1>3, SelectionStands
  <2>3. PicksChosen' /\ Q!LinkedInWindow'
    BY <1>1, <1>3, <2>2 DEF PInv, PicksChosen, Chosen, Q!LinkedInWindow
  <2> QED
    BY <2>1, <2>3 DEF PInv
<1>4. CASE ~(job.lines = {} \/ now >= Kickoff)
  <2> DEFINE l == Q!Min(job.lines)
             o == [response |-> job.response, line |-> l, at |-> now]
             a == [response |-> job.response, line |-> l]
  <2>1. l \in Lines
    <3>1. job.lines \subseteq Nat /\ job.lines # {} /\ job.lines \subseteq Lines
      BY <1>2, <1>4 DEF PickJobRecord, Q!ProductAssumption
    <3>2. \E x \in job.lines : \A y \in job.lines : ~(<<y, x>> \in OpToRel(<, Nat))
      BY <3>1, NatLessThanWellFounded, WFMin
    <3>3. \E x \in job.lines : \A y \in job.lines : x <= y
      <4>1. \A x, y \in job.lines : ~(<<y, x>> \in OpToRel(<, Nat)) => x <= y
        BY <3>1, SMT DEF OpToRel
      <4> QED
        BY <3>2, <4>1
    <3>4. l \in job.lines
      BY <3>3 DEF Q!Min
    <3> QED
      BY <3>1, <3>4
  <2>2. now < Kickoff
    BY <1>2, <1>4 DEF Q!ProductAssumption
  <2>3. /\ attempts' = attempts \cup {a} /\ observations' = observations \cup {o}
        /\ job' = [job EXCEPT !.lines = @ \ {l}]
    BY <1>1, <1>4, <2>2 DEF Q!Observe, Q!Kept
  <2> HIDE DEF l
  <2>4. o \in Observation /\ a \in Attempt /\ o.at = now /\ o.response = job.response
        /\ o.line = a.line /\ a.response = o.response
    BY <1>2, <2>1 DEF Observation, Attempt
  <2> HIDE DEF o, a
  <2>5. job' \in PickJobRecord /\ job'.pc = "observe" /\ job'.response = job.response
    BY <1>1, <1>2, <2>3 DEF PickJobRecord
  <2>6. ProductTyped'
    BY <1>1, <2>3, <2>4, <2>5 DEF PInv, ProductTyped
  <2>7. InOrderOfTime'
    <3>1. o.response \in responses /\ o.response.at <= o.at /\ o.at <= now /\ o.at < Kickoff
      BY <1>2, <2>2, <2>4
    <3> QED
      BY <1>1, <2>3, <2>4, <3>1 DEF PInv, InOrderOfTime
  <2>8. JobChooses'
    BY <1>1, <1>2, <2>5 DEF JobChooses, Choosing
  <2>9. ASSUME NEW p \in picks PROVE Q!select(p.checked)' = Q!select(p.checked)
    <3>1. p.checked \in Int /\ p.checked < now
      BY <1>1 DEF PInv, ProductTyped, Pick
    <3>2. ~(o.at <= p.checked)
      BY <1>2, <2>4, <3>1
    <3> QED
      BY <1>1, <2>3, <3>2, SelectionStands
  <2>10. PicksChosen' /\ Q!LinkedInWindow'
    BY <1>1, <2>3, <2>9 DEF PInv, PicksChosen, Chosen, Q!LinkedInWindow
  <2> QED
    BY <2>6, <2>7, <2>8, <2>10 DEF PInv
<1> QED
  BY <1>3, <1>4 DEF Q!Observe, Q!End

\* A step of the job that adds nothing to the evidence.
LEMMA JobOnly ==
    ASSUME PInv, UNCHANGED <<now, forecasts, responses, attempts, observations, certificates, picks>>,
           job' # None => job' \in PickJobRecord, JobChooses'
    PROVE  PInv'
<1>1. ProductTyped' /\ InOrderOfTime'
  BY DEF PInv, ProductTyped, InOrderOfTime
<1>2. \A t : Q!select(t)' = Q!select(t)
  BY SelectionStands
<1>3. PicksChosen' /\ Q!LinkedInWindow'
  BY <1>2 DEF PInv, PicksChosen, Chosen, Q!LinkedInWindow
<1> QED
  BY <1>1, <1>3 DEF PInv

\* A retained response is taken, or the newest offer selected.
LEMMA BeginPreserves ==
    ASSUME Q!ProductAssumption, PInv, Q!Select \/ \E r \in responses : Q!Deliver(r)
    PROVE  PInv'
<1>1. ASSUME NEW r \in responses, Q!Deliver(r) PROVE PInv'
  <2>1. job' = [pc |-> "observe", response |-> r,
                lines |-> {l \in Lines : [response |-> r, line |-> l] \notin attempts},
                choice |-> None, checked |-> None, at |-> None]
    BY <1>1 DEF Q!Deliver
  <2>2. UNCHANGED <<now, forecasts, responses, attempts, observations, certificates, picks>>
    BY <1>1 DEF Q!Deliver
  <2>3. job' \in PickJobRecord /\ job'.pc = "observe" /\ job'.response = r
    BY <2>1 DEF PickJobRecord, PInv, ProductTyped
  <2>4. JobChooses'
    BY <2>2, <2>3 DEF JobChooses, Choosing
  <2> QED
    BY <2>2, <2>3, <2>4, JobOnly
<1>2. CASE Q!Select
  <2>1. PICK o \in Q!select(now) :
           job' = [pc |-> "validate", response |-> o.response, lines |-> {}, choice |-> o,
                   checked |-> now, at |-> None]
    BY <1>2 DEF Q!Select
  <2>2. /\ picks = {}
        /\ UNCHANGED <<now, forecasts, responses, attempts, observations, certificates, picks>>
    BY <1>2 DEF Q!Select, Q!SlotFree
  <2>3. o \in observations /\ o \in Observation /\ o.response \in Response /\ now \in 0 .. MaxTime
    BY SelectedIsNewest DEF PInv, ProductTyped, Observation
  <2>4. /\ job' \in PickJobRecord /\ job'.pc = "validate" /\ job'.choice = o /\ job'.checked = now
        /\ job'.response = o.response
    BY <2>1, <2>3 DEF PickJobRecord, Choosing
  <2>5. Q!select(now)' = Q!select(now)
    BY <2>2, SelectionStands
  <2>6. now <= now
    BY <2>3 DEF Q!ProductAssumption
  <2>7. JobChooses'
    BY <2>2, <2>3, <2>4, <2>5, <2>6 DEF JobChooses, Chosen, Choosing
  <2> QED
    BY <2>2, <2>4, <2>7, JobOnly
<1> QED
  BY <1>1, <1>2

\* The choice is stamped if the records still give it, or nothing is published.
LEMMA ValidatePreserves ==
    ASSUME Q!ProductAssumption, PInv, Q!Validate \/ Q!Crash
    PROVE  PInv'
<1>1. UNCHANGED <<now, forecasts, responses, attempts, observations, certificates, picks>>
  BY DEF Q!Validate, Q!Crash
<1>2. CASE job' = None
  BY <1>1, <1>2, JobOnly DEF JobChooses
<1>3. CASE Q!Validate /\ job' # None
  <2>1. /\ job # None /\ job.pc = "validate" /\ (\A c \in certificates : c.at < now)
        /\ job' = [job EXCEPT !.pc = "certify", !.at = now] /\ job \in PickJobRecord
        /\ now \in 0 .. MaxTime /\ now \in 0 .. now
    BY <1>3 DEF Q!Validate, Q!End, PInv, ProductTyped, Q!ProductAssumption
  <2>2. /\ job' \in PickJobRecord /\ job'.pc = "certify" /\ job'.at = now /\ job'.choice = job.choice
        /\ job'.checked = job.checked /\ job'.response = job.response
    BY <2>1 DEF PickJobRecord, Choosing
  <2>4. Chosen(job.choice, job.checked) /\ picks = {} /\ job.checked \in 0 .. MaxTime
        /\ job.checked <= now /\ job.response = job.choice.response
    BY <2>1 DEF PInv, JobChooses, Choosing
  <2>5. PICK s : s = job.checked
    OBVIOUS
  <2>6. Q!select(s)' = Q!select(s)
    BY <1>1, SelectionStands
  <2>7. Chosen(job.choice, job.checked)'
    BY <1>1, <2>2, <2>4, <2>5, <2>6 DEF Chosen
  <2>8. JobChooses'
    BY <1>1, <2>1, <2>2, <2>4, <2>7 DEF JobChooses, Choosing
  <2> QED
    BY <1>1, <2>2, <2>8, JobOnly
<1> QED
  BY <1>2, <1>3 DEF Q!Validate, Q!Crash, Q!End

\* The choice is certified, under a stamp no certificate has.
LEMMA CertifyPreserves ==
    ASSUME Q!ProductAssumption, PInv, Q!Certify
    PROVE  PInv'
<1>1. /\ job # None /\ job.pc = "certify" /\ job \in PickJobRecord
      /\ UNCHANGED <<now, forecasts, responses, attempts, observations, picks>>
  BY DEF Q!Certify, PInv, ProductTyped
<1>2. CASE job' = None /\ UNCHANGED certificates
  BY <1>1, <1>2, JobOnly DEF JobChooses
<1>3. CASE Q!Window(job.choice)
  <2> DEFINE c == [choice |-> job.choice, at |-> job.at, verified |-> now,
                   until |-> Q!Min({Kickoff, Expiry, job.response.at + MaxAge + 1})]
  <2>1. certificates' = certificates \cup {c} /\ job' = [job EXCEPT !.pc = "link"]
    BY <1>3 DEF Q!Certify
  <2>2. /\ Chosen(job.choice, job.checked) /\ picks = {} /\ job.checked \in 0 .. MaxTime
        /\ job.checked <= now /\ job.response = job.choice.response
        /\ job.at \in 0 .. now /\ \A d \in certificates : d.at < job.at
        /\ now \in 0 .. MaxTime
    BY <1>1 DEF PInv, JobChooses, Choosing, ProductTyped
  <2>3. Q!Min({Kickoff, Expiry, job.response.at + MaxAge + 1}) \in Int
    <3>1. job.response.at \in Int /\ Kickoff \in Int /\ Expiry \in Int /\ MaxAge \in Int
      BY <1>1 DEF PickJobRecord, Response, Q!ProductAssumption
    <3>2. \E x \in {Kickoff, Expiry, job.response.at + MaxAge + 1} :
             \A y \in {Kickoff, Expiry, job.response.at + MaxAge + 1} : x <= y
      BY <3>1
    <3> QED
      BY <3>1, <3>2 DEF Q!Min
  <2>4. c \in Certificate /\ c.choice = job.choice /\ c.at = job.at /\ c.verified = now
    <3>1. job.choice \in Observation
      BY <2>2 DEF Chosen, PInv, ProductTyped
    <3>2. job.at \in 0 .. MaxTime
      BY <2>2 DEF Q!ProductAssumption
    <3> QED
      BY <2>2, <2>3, <3>1, <3>2 DEF Certificate
  <2> HIDE DEF c
  <2>5. /\ job' \in PickJobRecord /\ job'.pc = "link" /\ job'.at = job.at /\ job'.choice = job.choice
        /\ job'.checked = job.checked /\ job'.response = job.response
    BY <1>1, <2>1 DEF PickJobRecord, Choosing
  <2>6. PICK s : s = job.checked
    OBVIOUS
  <2>7. Q!select(s)' = Q!select(s)
    BY <1>1, SelectionStands
  <2>8. Chosen(job.choice, job.checked)'
    BY <1>1, <2>2, <2>5, <2>6, <2>7 DEF Chosen
  <2>9. c.verified <= now
    BY <2>2, <2>4 DEF Q!ProductAssumption
  <2>10. JobChooses'
    BY <1>1, <2>1, <2>2, <2>4, <2>5, <2>8, <2>9 DEF JobChooses, Choosing
  <2>11. ProductTyped' /\ InOrderOfTime' /\ Q!LinkedInWindow'
    BY <1>1, <2>1, <2>4, <2>5 DEF PInv, ProductTyped, InOrderOfTime, Q!LinkedInWindow
  <2>12. PicksChosen'
    <3>1. \A d \in certificates : d.at # c.at
      <4> SUFFICES ASSUME NEW d \in certificates PROVE d.at # c.at
        OBVIOUS
      <4>1. d.at < job.at /\ d.at \in Int /\ job.at \in Int
        BY <2>2 DEF PInv, ProductTyped, Certificate
      <4> QED
        BY <2>4, <4>1
    <3> QED
      BY <1>1, <2>1, <2>2, <3>1 DEF PInv, PicksChosen
  <2> QED
    BY <2>10, <2>11, <2>12 DEF PInv
<1> QED
  BY <1>2, <1>3 DEF Q!Certify, Q!End

\* The pick is linked inside its window, or not at all.
LEMMA LinkPreserves ==
    ASSUME Q!ProductAssumption, PInv, Q!Link
    PROVE  PInv'
<1>1. /\ job # None /\ job.pc = "link" /\ job \in PickJobRecord /\ job' = None
      /\ UNCHANGED <<now, forecasts, responses, attempts, observations, certificates>>
  BY DEF Q!Link, Q!End, PInv, ProductTyped
<1>2. CASE UNCHANGED picks
  BY <1>1, <1>2, JobOnly DEF JobChooses
<1>3. CASE Q!Window(job.choice)
  <2>0. PICK p : p = [choice |-> job.choice, checked |-> job.checked, at |-> job.at, linked |-> now]
    OBVIOUS
  <2>1. picks' = picks \cup {p}
    BY <1>3, <2>0 DEF Q!Link
  <2>2. /\ Chosen(job.choice, job.checked) /\ picks = {} /\ job.checked \in 0 .. MaxTime
        /\ job.checked <= now /\ job.at \in 0 .. now /\ now \in 0 .. MaxTime
        /\ \E c \in certificates : c.choice = job.choice /\ c.at = job.at /\ c.verified <= now
    BY <1>1 DEF PInv, JobChooses, Choosing, ProductTyped
  <2>3. /\ p \in Pick /\ p.choice = job.choice /\ p.checked = job.checked /\ p.at = job.at
        /\ p.linked = now
    <3>1. job.choice \in Observation
      BY <2>2 DEF Chosen, PInv, ProductTyped
    <3>2. job.at \in 0 .. MaxTime
      BY <2>2 DEF Q!ProductAssumption
    <3> QED
      BY <2>0, <2>2, <3>1, <3>2 DEF Pick
  <2>4. p.linked - p.choice.response.at <= MaxAge /\ p.linked < Kickoff /\ p.linked < Expiry
    BY <1>3, <2>3 DEF Q!Window, Q!Usable
  <2>5. picks' = {p}
    BY <2>1, <2>2
  <2>6. PICK s : s = job.checked
    OBVIOUS
  <2>7. Q!select(s)' = Q!select(s)
    BY <1>1, SelectionStands
  <2>8. Chosen(p.choice, p.checked)'
    BY <1>1, <2>2, <2>3, <2>6, <2>7 DEF Chosen
  <2>9. PicksChosen'
    BY <1>1, <2>2, <2>3, <2>5, <2>8 DEF PInv, PicksChosen
  <2>10. ProductTyped' /\ InOrderOfTime'
    BY <1>1, <2>2, <2>3, <2>5 DEF PInv, ProductTyped, InOrderOfTime
  <2>11. Q!LinkedInWindow' /\ JobChooses'
    BY <1>1, <2>4, <2>5 DEF Q!LinkedInWindow, JobChooses
  <2> QED
    BY <2>9, <2>10, <2>11 DEF PInv
<1> QED
  BY <1>2, <1>3 DEF Q!Link

\* Nothing is recorded at first.
LEMMA ProductStarts ==
    ASSUME Q!ProductAssumption, Q!Init
    PROVE  PInv
BY DEF Q!Init, PInv, ProductTyped, InOrderOfTime, JobChooses, PicksChosen, Q!LinkedInWindow,
       Q!ProductAssumption

\* The inductive invariant holds in every state, wherever the job stops.
THEOREM ProductSafety ==
    ASSUME Q!ProductAssumption
    PROVE  Q!Spec => []PInv
<1>1. Q!Init => PInv
  BY ProductStarts
<1>2. PInv /\ [Q!Next]_Q!vars => PInv'
  <2> SUFFICES ASSUME PInv, [Q!Next]_Q!vars PROVE PInv'
    OBVIOUS
  <2>1. CASE UNCHANGED Q!vars
    <3>1. UNCHANGED <<now, forecasts, responses, attempts, observations, certificates, picks, job>>
      BY <2>1 DEF Q!vars
    <3>2. PICK s, d : job # None => s = job.checked /\ d = job.choice
      OBVIOUS
    <3>3. Q!select(s)' = Q!select(s)
      BY <3>1, SelectionStands
    <3>4. JobChooses'
      BY <3>1, <3>2, <3>3 DEF PInv, JobChooses, Chosen
    <3>5. job' # None => job' \in PickJobRecord
      BY <3>1 DEF PInv, ProductTyped
    <3> QED
      BY <3>1, <3>4, <3>5, JobOnly
  <2>2. CASE Q!Next
    BY <2>2, ProductTickPreserves, FreezePreserves, RespondPreserves, ObservePreserves, BeginPreserves,
       ValidatePreserves, CertifyPreserves, LinkPreserves DEF Q!Next
  <2> QED
    BY <2>1, <2>2
<1> QED
  BY <1>1, <1>2, PTL DEF Q!Spec

\* Responses answer frozen cohorts, observations are of retained responses before the match, and a
\* fixture has one pick.
THEOREM ProductTypeCorrect ==
    ASSUME Q!ProductAssumption
    PROVE  Q!Spec => []Q!TypeOK
<1>1. PInv => Q!TypeOK
  <2> SUFFICES ASSUME PInv PROVE Q!TypeOK
    OBVIOUS
  <2>1. Q!Cardinality(picks) <= 1
    <3>1. CASE picks = {}
      BY <3>1, FS_EmptySet, CountsAgree
    <3>2. CASE picks # {}
      <4>1. PICK p : p \in picks
        BY <3>2
      <4>2. picks = {p}
        BY <4>1 DEF PInv, PicksChosen
      <4>3. Q!Cardinality({p}) = 1
        BY FS_Singleton, CountsAgree
      <4> QED
        BY <4>2, <4>3
    <3> QED
      BY <3>1, <3>2
  <2> QED
    BY <2>1 DEF PInv, ProductTyped, InOrderOfTime, Q!TypeOK
<1> QED
  BY <1>1, ProductSafety, PTL

\* A cohort was frozen before the response that prices it, and this before it was observed (freeze,
\* retain, handoff).
THEOREM ForecastsComeFirst ==
    ASSUME Q!ProductAssumption
    PROVE  Q!Spec => []Q!ForecastFirst
<1>1. PInv => Q!ForecastFirst
  BY DEF PInv, InOrderOfTime, Q!ForecastFirst
<1> QED
  BY <1>1, ProductSafety, PTL

\* The cohort of a pick is the newest of its check: a newer one without quotes suppresses older prices
\* (select).
THEOREM PicksUseNewestCohort ==
    ASSUME Q!ProductAssumption
    PROVE  Q!Spec => []Q!NewestCohort
<1>1. PInv => Q!NewestCohort
  <2> SUFFICES ASSUME PInv, NEW p \in picks, NEW f \in forecasts, f <= p.checked
               PROVE  f <= p.choice.response.forecast
    BY DEF Q!NewestCohort
  <2>1. p.choice.response.forecast \in Q!Cohort(p.checked)
    BY SelectedIsNewest DEF PInv, PicksChosen, Chosen
  <2> QED
    BY <2>1 DEF Q!Cohort, Q!Latest
<1> QED
  BY <1>1, ProductSafety, PTL

\* A pick never uses a price that a newer response was seen to replace: every line of a response
\* that was attempted left its observation, usable or not, and those of the newest response
\* decide (select).
THEOREM NewestPriceOnly ==
    ASSUME Q!ProductAssumption
    PROVE  Q!Spec => []Q!NoOlderPrice
<1>1. PInv => Q!NoOlderPrice
  <2> SUFFICES ASSUME PInv, NEW p \in picks, NEW a \in attempts,
                      ~\E o \in observations :
                          o.response = a.response /\ o.line = a.line /\ o.at > p.checked,
                      ~(a.response.forecast < p.choice.response.forecast)
               PROVE  a.response.at <= p.choice.response.at
    BY DEF Q!NoOlderPrice
  <2>1. PICK o \in observations : o.response = a.response /\ o.line = a.line
    BY DEF PInv, InOrderOfTime
  <2>2. /\ o \in Observation /\ o.response \in Response /\ p \in Pick /\ p.choice \in Observation
        /\ p.choice.response \in Response
    BY DEF PInv, ProductTyped, Observation, Pick
  <2>3. /\ o.at \in Int /\ p.checked \in Int /\ o.response.forecast \in Int /\ o.response.at \in Int
        /\ p.choice.response.forecast \in Int
    BY <2>2 DEF Observation, Response, Pick
  <2>4. o.at <= p.checked
    BY <2>1, <2>3
  <2>5. /\ p.choice.response.forecast \in Q!Cohort(p.checked)
        /\ \A e \in Q!Seen(p.checked) : e.response.at <= p.choice.response.at
    BY SelectedIsNewest DEF PInv, PicksChosen, Chosen
  <2>6. /\ o.response.forecast \in forecasts /\ o.response.forecast < o.response.at
        /\ o.response.at <= o.at
    BY DEF PInv, InOrderOfTime
  <2>7. o.response.forecast <= p.checked
    BY <2>3, <2>4, <2>6
  <2>8. o.response.forecast <= p.choice.response.forecast
    BY <2>5, <2>6, <2>7 DEF Q!Cohort, Q!Latest
  <2>9. o.response.forecast = p.choice.response.forecast
    BY <2>1, <2>3, <2>8
  <2>10. o \in Q!Seen(p.checked)
    BY <2>4, <2>5, <2>9 DEF Q!Seen
  <2> QED
    BY <2>1, <2>5, <2>10
<1> QED
  BY <1>1, ProductSafety, PTL

\* However long the certificate took, the pick is linked while its price, the contract and the fixture
\* stand (publication_window).
THEOREM LinkedInTime ==
    ASSUME Q!ProductAssumption
    PROVE  Q!Spec => []Q!LinkedInWindow
<1>1. PInv => Q!LinkedInWindow
  BY DEF PInv
<1> QED
  BY <1>1, ProductSafety, PTL

\* Every later read selects the pick again from the records as of its check and finds one
\* certificate for it, whatever was recorded since (validate_publication).
THEOREM PicksStayReplayable ==
    ASSUME Q!ProductAssumption
    PROVE  Q!Spec => []Q!PicksReplay
<1>1. PInv => Q!PicksReplay
  <2> SUFFICES ASSUME PInv, NEW p \in picks
               PROVE  /\ Q!Replays(p.choice, p.checked)
                      /\ Q!Cardinality({c \in certificates : c.choice = p.choice /\ c.at = p.at
                                                           /\ c.verified <= p.linked}) = 1
    BY DEF Q!PicksReplay
  <2>1. Q!Replays(p.choice, p.checked)
    BY DEF PInv, PicksChosen, Chosen, Q!Replays
  <2>2. PICK d \in certificates : d.choice = p.choice /\ d.at = p.at /\ d.verified <= p.linked
    BY DEF PInv, PicksChosen
  <2>3. {c \in certificates : c.choice = p.choice /\ c.at = p.at /\ c.verified <= p.linked} = {d}
    BY <2>2 DEF PInv, PicksChosen
  <2> QED
    BY <2>1, <2>3, FS_Singleton, CountsAgree
<1> QED
  BY <1>1, ProductSafety, PTL

-----------------------------------------------------------------------------
(* The corner replay.                                                      *)
(* Its one record is called kept here.                                     *)

CONSTANTS
    Clients, PerDay, KickAt, Requests, MinHistory, Unfit, MaxDeploys, Payloads, MaxQuoteAge

VARIABLES
    code, durable, holder, call, cache, created, existing, replay, kept

W == INSTANCE CornerReplay WITH store <- kept

\* What a capture holds: a payload until the record is made, then the record.
Draft == [at : {"lock", "look"}, record : [payload : W!Payload]]
Made == [at : {"put"}, record : W!Record]

\* The variables have their types.
ReplayTyped ==
    /\ now \in W!Time /\ code \in 0 .. MaxDeploys /\ durable \in BOOLEAN
    /\ kept \in W!Record \cup {None}
    /\ holder \in Clients \cup {None}
    /\ call \in [Clients -> Draft \cup Made \cup {None}]
    /\ created \subseteq W!Record
    /\ existing # None => existing.record \in W!Record /\ existing.asked \in W!Payload

\* A payload is what its request prepares, of an observation that is past.
Sound(p) ==
    /\ p.state = W!State(p.request) /\ p.rows = W!Rows(p.request)
    /\ p.forecasts = IF p.state = "CAPTURED" THEN W!Eligible(p.request) ELSE {}
    /\ p.request.as_of <= now

\* The capture past the lock is its holder's; until it writes, the store it found is empty.
CallsHold ==
    \A c \in Clients : call[c] # None =>
        /\ Sound(call[c].record.payload)
        /\ call[c].at # "lock" => holder = c
        /\ call[c].at = "put" =>
              /\ kept = None
              /\ call[c].record.payload.request.as_of <= call[c].record.recorded_at

\* The store's record is sound, and is the one reported, which was synced by then.
StoreHolds ==
    /\ kept # None => Sound(kept.payload) /\ kept.payload.request.as_of <= kept.recorded_at
    /\ \A r \in created : kept = r /\ durable

\* The cached snapshot is what its own bytes normalise to.
CacheHolds == cache # None => cache = W!Normalise(cache.payload, cache.retrieved)

\* The inductive invariant of the replay.
CornerInv ==
    ReplayTyped /\ CallsHold /\ StoreHolds /\ CacheHolds /\ W!ExistingIsExact /\ W!ReplayIsOrdered

\* What prepare returns is a sound payload.
LEMMA PreparedIsSound ==
    ASSUME W!ReplayConstants, ReplayTyped, NEW r \in Requests, r.as_of <= now
    PROVE  W!prepare(r) \in W!Payload /\ Sound(W!prepare(r))
<1>1. {W!Rows(r), W!OnDay(r), W!Eligible(r)} \subseteq SUBSET Fixtures
  BY DEF W!Rows, W!OnDay, W!Eligible
<1>2. W!State(r) \in {"EMPTY", "CAPTURED", "MODEL_REJECTED", "BLOCKED"}
  BY DEF W!State
<1> QED
  BY <1>1, <1>2 DEF W!prepare, W!Payload, Sound, ReplayTyped

\* The first state has nothing.
LEMMA ReplayStarts ==
    ASSUME W!ReplayConstants, W!Init PROVE CornerInv
BY DEF W!ReplayConstants, W!Init, CornerInv, ReplayTyped, CallsHold, StoreHolds, CacheHolds,
       W!ExistingIsExact, W!ReplayIsOrdered, W!Time

\* A sound payload stays sound.
LEMMA SoundStays ==
    ASSUME W!ReplayConstants, ReplayTyped, now' = now \/ W!Tick
    PROVE  now' \in W!Time /\ \A p \in W!Payload : Sound(p) => Sound(p)'
<1>1. now \in Nat /\ now' \in W!Time /\ now <= now'
  BY DEF W!ReplayConstants, ReplayTyped, W!Time, W!Tick
<1>2. ASSUME NEW p \in W!Payload, Sound(p) PROVE Sound(p)'
  BY <1>1, <1>2 DEF Sound, W!Payload, W!ReplayConstants, W!Time
<1> QED
  BY <1>1, <1>2

\* What a capture holds is a payload; the record it made is one.
LEMMA HeldPayloads ==
    ASSUME ReplayTyped, NEW c \in Clients, call[c] # None
    PROVE  /\ call[c] \in Draft \cup Made /\ call[c].record.payload \in W!Payload
           /\ call[c].at \in {"lock", "look", "put"}
           /\ call[c].at = "put" => call[c].record \in W!Record
BY DEF ReplayTyped, Draft, Made, W!Record

\* A step that moves neither the calls nor the store preserves the invariant.
LEMMA BooksStay ==
    ASSUME W!ReplayConstants, CornerInv, now' = now \/ W!Tick, code' \in 0 .. MaxDeploys,
           UNCHANGED <<kept, durable, W!process, W!reports>>,
           cache' \in {cache, None} \/ CacheHolds', replay' = replay \/ W!ReplayIsOrdered'
    PROVE  CornerInv'
<1>1. now' \in W!Time /\ \A p \in W!Payload : Sound(p) => Sound(p)'
  BY SoundStays DEF CornerInv
<1>2. ReplayTyped'
  BY <1>1 DEF CornerInv, ReplayTyped, W!process, W!reports
<1>3. CallsHold'
  <2> SUFFICES ASSUME NEW c \in Clients, call[c] # None
               PROVE  /\ Sound(call[c].record.payload)'
                      /\ call[c].at # "lock" => holder = c
                      /\ call[c].at = "put" =>
                            /\ kept = None
                            /\ call[c].record.payload.request.as_of <= call[c].record.recorded_at
    BY DEF CallsHold, W!process
  <2>1. call' = call /\ holder' = holder
    BY DEF W!process
  <2> QED
    BY <1>1, <2>1, HeldPayloads DEF CornerInv, CallsHold
<1>4. StoreHolds'
  BY <1>1 DEF CornerInv, StoreHolds, ReplayTyped, W!Record, W!reports
<1>5. CacheHolds'
  BY DEF CornerInv, CacheHolds, W!Normalise
<1>6. W!ExistingIsExact' /\ W!ReplayIsOrdered'
  BY DEF CornerInv, W!ExistingIsExact, W!ReplayIsOrdered, W!reports, W!Normalise, W!Kicks
<1> QED
  BY <1>2, <1>3, <1>4, <1>5, <1>6 DEF CornerInv

\* Time passing, new code and a power loss.
LEMMA EnvironmentPreserves ==
    ASSUME W!ReplayConstants, CornerInv, W!Tick \/ W!Deploy \/ W!PowerLoss PROVE CornerInv'
<1>1. CASE W!Tick
  BY <1>1, BooksStay DEF W!Tick, CornerInv, ReplayTyped
<1>2. CASE W!Deploy
  <2>1. code' \in 0 .. MaxDeploys
    BY <1>2 DEF W!Deploy, CornerInv, ReplayTyped, W!ReplayConstants
  <2> QED
    BY <1>2, <2>1, BooksStay DEF W!Deploy
<1>3. CASE W!PowerLoss
  <2>1. now' = now /\ \A p \in W!Payload : Sound(p) => Sound(p)'
    BY <1>3, SoundStays DEF W!PowerLoss, CornerInv
  <2>2. ReplayTyped' /\ CallsHold'
    BY <1>3 DEF W!PowerLoss, CornerInv, ReplayTyped, CallsHold, W!reports
  <2>3. StoreHolds'
    BY <1>3, <2>1 DEF W!PowerLoss, CornerInv, StoreHolds, ReplayTyped, W!Record, W!reports
  <2>4. CacheHolds' /\ W!ExistingIsExact' /\ W!ReplayIsOrdered'
    BY <1>3 DEF W!PowerLoss, CornerInv, CacheHolds, W!ExistingIsExact, W!ReplayIsOrdered, W!reports,
                W!Normalise, W!Kicks
  <2> QED
    BY <2>2, <2>3, <2>4 DEF CornerInv
<1> QED
  BY <1>1, <1>2, <1>3

\* Only one capture moves: the others and what they hold stay, while the store and the lock
\* are theirs alone.
LEMMA OneCall ==
    ASSUME W!ReplayConstants, CornerInv, NEW c \in Clients, now' = now, code' = code,
           UNCHANGED <<cache, replay>>, existing' = existing \/ W!ExistingIsExact',
           NEW m \in Draft \cup Made \cup {None}, call' = [call EXCEPT ![c] = m],
           holder' \in Clients \cup {None}, durable' \in BOOLEAN,
           kept' \in W!Record \cup {None}, created' \subseteq W!Record,
           \A d \in Clients \ {c} : holder = d => holder' = d /\ kept' = kept,
           existing' # None => existing'.record \in W!Record /\ existing'.asked \in W!Payload,
           m # None => /\ Sound(m.record.payload)
                       /\ m.at # "lock" => holder' = c
                       /\ m.at = "put" => /\ kept' = None
                                          /\ m.record.payload.request.as_of <= m.record.recorded_at,
           kept' # None => Sound(kept'.payload) /\ kept'.payload.request.as_of <= kept'.recorded_at,
           \A r \in created' : kept' = r /\ durable'
    PROVE  CornerInv'
<1>1. \A p \in W!Payload : Sound(p) => Sound(p)'
  BY SoundStays DEF CornerInv
<1>2. ReplayTyped'
  BY DEF CornerInv, ReplayTyped
<1>3. CallsHold'
  <2> SUFFICES ASSUME NEW d \in Clients, call'[d] # None
               PROVE  /\ Sound(call[d].record.payload)'
                      /\ call'[d].at # "lock" => holder' = d
                      /\ call'[d].at = "put" =>
                            /\ kept' = None
                            /\ call'[d].record.payload.request.as_of <= call'[d].record.recorded_at
    BY DEF CallsHold
  <2>1. Sound(call'[d].record.payload) => Sound(call[d].record.payload)'
    BY DEF Sound
  <2>2. CASE d = c
    <3>1. call'[d] = m
      BY <2>2 DEF CornerInv, ReplayTyped
    <3> QED
      BY <2>1, <2>2, <3>1
  <2>3. CASE d # c
    <3>1. call'[d] = call[d]
      BY <2>3 DEF CornerInv, ReplayTyped
    <3>2. call[d].at \in {"lock", "look", "put"}
      BY <3>1, HeldPayloads DEF CornerInv
    <3> QED
      BY <2>1, <2>3, <3>1, <3>2 DEF CornerInv, CallsHold
  <2> QED
    BY <2>2, <2>3
<1>4. StoreHolds'
  BY DEF StoreHolds, Sound
<1>5. CacheHolds' /\ W!ReplayIsOrdered'
  BY DEF CornerInv, CacheHolds, W!ReplayIsOrdered, W!Normalise, W!Kicks
<1>6. W!ExistingIsExact'
  BY DEF CornerInv, W!ExistingIsExact
<1> QED
  BY <1>2, <1>3, <1>4, <1>5, <1>6 DEF CornerInv

\* A capture begins with what prepare returns.
LEMMA CapturePreserves ==
    ASSUME W!ReplayConstants, CornerInv, NEW c \in Clients, NEW r \in Requests, W!Begin(c, r)
    PROVE  CornerInv'
<1> DEFINE m == [at |-> "lock", record |-> [payload |-> W!prepare(r)]]
<1>1. W!prepare(r) \in W!Payload /\ Sound(W!prepare(r))
  BY PreparedIsSound DEF CornerInv, W!Begin
<1>2. m \in Draft /\ m.at = "lock" /\ m.record.payload = W!prepare(r)
  BY <1>1 DEF Draft
<1>3. call' = [call EXCEPT ![c] = m]
  BY DEF W!Begin, W!Goto
<1> HIDE DEF m
<1> QED
  BY <1>1, <1>2, <1>3, OneCall DEF W!Begin, W!reports, CornerInv, ReplayTyped, StoreHolds

\* A capture ends without a record, with one that was synced, or with one that was not.
LEMMA LeavePreserves ==
    ASSUME W!ReplayConstants, CornerInv, NEW c \in Clients, W!Leave(c),
           UNCHANGED <<now, code, cache, replay>>,
           \/ UNCHANGED <<kept, durable, created>>
           \/ /\ W!At(c, "put") /\ kept' = call[c].record /\ durable' \in BOOLEAN
              /\ created' = IF durable' THEN created \cup {call[c].record} ELSE created,
           existing' = existing \/ W!ExistingIsExact',
           existing' # None => existing'.record \in W!Record /\ existing'.asked \in W!Payload
    PROVE  CornerInv'
<1>1. call' = [call EXCEPT ![c] = None] /\ holder' \in Clients \cup {None}
      /\ \A d \in Clients \ {c} : holder = d => holder' = d
  BY DEF W!Leave, CornerInv, ReplayTyped
<1>2. CASE UNCHANGED <<kept, durable, created>>
  BY <1>1, <1>2, OneCall DEF CornerInv, ReplayTyped, StoreHolds
<1>3. CASE /\ W!At(c, "put") /\ kept' = call[c].record /\ durable' \in BOOLEAN
           /\ created' = IF durable' THEN created \cup {call[c].record} ELSE created
  <2>1. /\ call[c] # None /\ call[c].at = "put" /\ holder = c /\ kept = None
        /\ call[c].record \in W!Record /\ Sound(call[c].record.payload)
        /\ call[c].record.payload.request.as_of <= call[c].record.recorded_at
    BY <1>3, HeldPayloads DEF W!At, CornerInv, CallsHold
  <2>2. created = {}
    BY <2>1 DEF CornerInv, StoreHolds, ReplayTyped, W!ReplayConstants
  <2>3. c # None
    BY DEF W!ReplayConstants
  <2>4. \A d \in Clients \ {c} : holder # d
    BY <2>1
  <2> QED
    BY <1>1, <1>3, <2>1, <2>2, <2>4, OneCall DEF CornerInv
<1> QED
  BY <1>2, <1>3

\* A capture takes a free lock or gives up.
LEMMA LockPreserves ==
    ASSUME W!ReplayConstants, CornerInv, NEW c \in Clients, W!Lock(c) PROVE CornerInv'
<1>1. CASE holder = None
  <2> DEFINE m == [at |-> "look", record |-> call[c].record]
  <2>1. /\ call[c] # None /\ call[c].at = "lock"
        /\ call[c] \in Draft \cup Made /\ Sound(call[c].record.payload)
    BY HeldPayloads DEF W!Lock, W!At, CornerInv, CallsHold
  <2>2. m \in Draft /\ m.at = "look" /\ m.record = call[c].record
    BY <2>1 DEF Draft, Made
  <2>3. call' = [call EXCEPT ![c] = m] /\ holder' = c
    BY <1>1 DEF W!Lock, W!Goto
  <2>4. \A d \in Clients : holder # d
    BY <1>1 DEF W!ReplayConstants
  <2> HIDE DEF m
  <2> QED
    BY <2>1, <2>2, <2>3, <2>4, OneCall DEF W!Lock, W!reports, CornerInv, ReplayTyped, StoreHolds
<1>2. CASE holder # None
  BY <1>2, LeavePreserves DEF W!Lock, W!reports, CornerInv, ReplayTyped
<1> QED
  BY <1>1, <1>2

\* Under the lock it finds the record, the same or another, or makes one.
LEMMA LookPreserves ==
    ASSUME W!ReplayConstants, CornerInv, NEW c \in Clients, W!Look(c) PROVE CornerInv'
<1> DEFINE p == call[c].record.payload
           b == p.forecasts # {} /\ \A f \in p.forecasts : now < W!Kicks(p.request)[f]
           m == [at |-> "put", record |-> [payload |-> p, recorded_at |-> now, before |-> b]]
<1>1. call[c] # None /\ call[c].at = "look" /\ p \in W!Payload /\ Sound(p) /\ holder = c
  BY HeldPayloads DEF W!Look, W!At, CornerInv, CallsHold
<1>2. CASE kept # None
  <2>1. \/ existing' = existing
        \/ existing' = [asked |-> p, record |-> kept] /\ kept.payload = p
    BY <1>2 DEF W!Look, W!Same
  <2>2. kept \in W!Record
    BY <1>2 DEF CornerInv, ReplayTyped
  <2>3. /\ existing' = existing \/ W!ExistingIsExact'
        /\ existing' # None => existing'.record \in W!Record /\ existing'.asked \in W!Payload
    BY <1>1, <2>1, <2>2 DEF W!ExistingIsExact, CornerInv, ReplayTyped
  <2> QED
    BY <1>2, <2>3, LeavePreserves DEF W!Look
<1>3. CASE kept = None
  <2>1. b \in BOOLEAN /\ now \in W!Time
    BY DEF CornerInv, ReplayTyped
  <2>2. /\ m \in Made /\ m.at = "put" /\ m.record.payload = p /\ m.record.recorded_at = now
    BY <1>1, <2>1 DEF Made, W!Record
  <2>3. call' = [call EXCEPT ![c] = m] /\ holder' = holder /\ existing' = existing
    BY <1>3 DEF W!Look, W!Goto
  <2>4. p.request.as_of <= now
    BY <1>1 DEF Sound
  <2> HIDE DEF m, p
  <2> QED
    BY <1>1, <1>3, <2>2, <2>3, <2>4, OneCall DEF W!Look, CornerInv, ReplayTyped, StoreHolds
<1> QED
  BY <1>2, <1>3

\* The write, its failure, and the end of the process.
LEMMA CaptureWritePreserves ==
    ASSUME W!ReplayConstants, CornerInv, NEW c \in Clients, W!Put(c) \/ W!PutFails(c) \/ W!Kill(c)
    PROVE  CornerInv'
<1>1. existing' # None => existing'.record \in W!Record /\ existing'.asked \in W!Payload
  BY DEF W!Put, W!PutFails, W!Kill, W!reports, CornerInv, ReplayTyped
<1>2. CASE W!Put(c)
  BY <1>1, <1>2, LeavePreserves DEF W!Put
<1>3. CASE W!PutFails(c)
  BY <1>1, <1>3, LeavePreserves DEF W!PutFails, W!reports
<1>4. CASE W!Kill(c)
  BY <1>1, <1>4, LeavePreserves DEF W!Kill, W!reports
<1> QED
  BY <1>2, <1>3, <1>4

\* A replay reads the record of the store and the bytes of its own call.
LEMMA ConsumePreserves ==
    ASSUME W!ReplayConstants, CornerInv,
           NEW f \in Fixtures, NEW payload \in Payloads, NEW retrieved \in W!Time, NEW as_of \in W!Time,
           W!consume(f, payload, retrieved, as_of)
    PROVE  CornerInv'
<1> DEFINE snapshot == W!Snapshot(payload, retrieved)
<1>1. snapshot = W!Normalise(payload, retrieved)
  BY DEF W!Snapshot, W!Hit, CornerInv, CacheHolds
<1>2. snapshot.payload = payload /\ snapshot.retrieved = retrieved
      /\ snapshot.dated = (payload.changed <= retrieved)
  BY <1>1 DEF W!Normalise
<1>3. CacheHolds'
  BY <1>1, <1>2 DEF W!consume, CacheHolds, W!Normalise
<1>4. W!ReplayIsOrdered'
  <2>1. \/ /\ replay' = [fixture |-> f, artifact |-> kept.payload, code |-> code,
                          snapshot |-> snapshot, payload |-> payload, retrieved |-> retrieved,
                          as_of |-> as_of]
           /\ snapshot.dated
        \/ replay' = None
    BY DEF W!consume
  <2>2. kept.payload.request.as_of < retrieved /\ as_of < W!Kicks(kept.payload.request)[f]
    BY DEF W!consume, W!QuoteChronology
  <2>3. snapshot.dated => payload.changed <= retrieved
    BY <1>2
  <2> HIDE DEF snapshot
  <2>4. CASE replay' = None
    BY <2>4 DEF W!ReplayIsOrdered
  <2>5. ASSUME replay' # None
        PROVE  /\ replay'.artifact = kept.payload /\ replay'.snapshot = snapshot
               /\ replay'.fixture = f /\ replay'.payload = payload
               /\ replay'.retrieved = retrieved /\ replay'.as_of = as_of /\ snapshot.dated
    BY <2>1, <2>5
  <2> QED
    BY <1>1, <2>2, <2>3, <2>4, <2>5 DEF W!ReplayIsOrdered, W!Normalise, W!Kicks
<1> QED
  BY <1>3, <1>4, BooksStay DEF W!consume, CornerInv, ReplayTyped

\* The inductive invariant: what prepare returned, what the lock's holder found, and what was
\* reported, through uncertain writes, new code and power losses.
THEOREM CornerSafety ==
    ASSUME W!ReplayConstants
    PROVE  W!Spec => []CornerInv
<1>1. W!Init => CornerInv
  BY ReplayStarts
<1>2. CornerInv /\ [W!Next]_W!vars => CornerInv'
  <2> SUFFICES ASSUME CornerInv, [W!Next]_W!vars PROVE CornerInv'
    OBVIOUS
  <2>1. CASE W!Tick \/ W!Deploy \/ W!PowerLoss
    BY <2>1, EnvironmentPreserves
  <2>2. ASSUME NEW c \in Clients, NEW r \in Requests, W!Begin(c, r) PROVE CornerInv'
    BY <2>2, CapturePreserves
  <2>3. ASSUME NEW c \in Clients, W!Lock(c) \/ W!Look(c) PROVE CornerInv'
    BY <2>3, LockPreserves, LookPreserves
  <2>4. ASSUME NEW c \in Clients, W!Put(c) \/ W!PutFails(c) \/ W!Kill(c) PROVE CornerInv'
    BY <2>4, CaptureWritePreserves
  <2>5. ASSUME NEW f \in Fixtures, NEW payload \in Payloads,
               NEW retrieved \in W!Time, NEW as_of \in W!Time,
               W!consume(f, payload, retrieved, as_of)
        PROVE  CornerInv'
    BY <2>5, ConsumePreserves
  <2>6. CASE UNCHANGED W!vars
    BY <2>6, BooksStay DEF W!vars, CornerInv, ReplayTyped
  <2> QED
    BY <2>1, <2>2, <2>3, <2>4, <2>5, <2>6 DEF W!Next
<1> QED
  BY <1>1, <1>2, PTL DEF W!Spec

\* The store's one record is typed, its lock has an owner among the captures.
THEOREM ReplayTypeCorrect ==
    ASSUME W!ReplayConstants
    PROVE  W!Spec => []W!TypeOK
<1>1. CornerInv => W!TypeOK
  BY HeldPayloads DEF CornerInv, ReplayTyped, W!TypeOK
<1> QED
  BY <1>1, CornerSafety, PTL

\* A batch reported as CREATED is the store's one record from then on (capture).
THEOREM CreatedIsKept ==
    ASSUME W!ReplayConstants
    PROVE  W!Spec => []W!CreatedStays
<1>1. CornerInv => W!CreatedStays
  BY DEF CornerInv, StoreHolds, W!CreatedStays
<1> QED
  BY <1>1, CornerSafety, PTL

\* EXISTING is said of the exact request, evidence and code only (capture).
THEOREM OnlyExactRepeats ==
    ASSUME W!ReplayConstants
    PROVE  W!Spec => []W!ExistingIsExact
<1>1. CornerInv => W!ExistingIsExact
  BY DEF CornerInv
<1> QED
  BY <1>1, CornerSafety, PTL

\* The day is frozen whole or not at all, before every one of its matches, and from nothing
\* retrieved or played on or after the day of the observation (prepare).
THEOREM DayIsFrozenBlind ==
    ASSUME W!ReplayConstants
    PROVE  W!Spec => [](W!WholeDay /\ W!FrozenIsBlind)
<1>1. ASSUME NEW p \in W!Payload, Sound(p)
      PROVE  /\ p.forecasts # {} <=> p.state = "CAPTURED"
             /\ p.state = "CAPTURED" =>
                   /\ p.forecasts =
                        {f \in Fixtures : W!Day(W!Kicks(p.request)[f]) = W!FixtureDay(p.request)}
                   /\ \A f \in p.forecasts : p.request.as_of < W!Kicks(p.request)[f]
                   /\ p.request.calendar <= p.request.as_of /\ p.request.history <= p.request.as_of
             /\ \A f \in p.rows : W!Day(KickAt[p.request.history][f]) < W!Day(p.request.as_of)
  <2> DEFINE r == p.request
  <2>1. p.state = "CAPTURED" => W!Ready(r) /\ W!Eligible(r) # {}
    BY <1>1 DEF Sound, W!State
  <2>2. W!Eligible(r) # {} => W!Eligible(r) = W!OnDay(r) /\ \A f \in W!OnDay(r) : W!PreMatch(r, f)
    BY DEF W!Eligible
  <2>3. \A f \in W!OnDay(r) : W!PreMatch(r, f) => r.as_of < W!Kicks(r)[f]
    BY DEF W!PreMatch
  <2>4. W!Ready(r) => r.calendar <= r.as_of /\ r.history <= r.as_of
    BY DEF W!Ready, W!Chronology
  <2>5. W!OnDay(r) = {f \in Fixtures : W!Day(W!Kicks(r)[f]) = W!FixtureDay(r)}
    BY DEF W!OnDay
  <2>6. \A f \in p.rows : W!Day(KickAt[r.history][f]) < W!Day(r.as_of)
    BY <1>1 DEF Sound, W!Rows, W!HistoryBefore
  <2> QED
    BY <1>1, <2>1, <2>2, <2>3, <2>4, <2>5, <2>6 DEF Sound
<1>2. CornerInv => W!WholeDay /\ W!FrozenIsBlind
  BY <1>1 DEF CornerInv, StoreHolds, ReplayTyped, W!Record, W!WholeDay, W!FrozenIsBlind
<1> QED
  BY <1>2, CornerSafety, PTL

\* A replayed price was retrieved after its forecast was frozen and before its match, and is
\* read from the bytes of its own call (consume).
THEOREM ReplaysAreOrdered ==
    ASSUME W!ReplayConstants
    PROVE  W!Spec => []W!ReplayIsOrdered
<1>1. CornerInv => W!ReplayIsOrdered
  BY DEF CornerInv
<1> QED
  BY <1>1, CornerSafety, PTL

-----------------------------------------------------------------------------
(* What the runs check of each of the three parts, for every value of the  *)
(* constants.                                                              *)

\* Whatever writes, crashes and resumptions do to the intents, records and projections of the
\* results, there is one chain, its readers see its tip, the past stays told, and there is
\* always a way on (pl_results.py).
THEOREM ResultsHold ==
    ASSUME R!ResultsAssumption
    PROVE  R!Spec => [](/\ R!TypeOK /\ R!OneChain /\ R!ReaderSeesTip /\ R!AlwaysResumable
                        /\ R!OnePending /\ R!OneProjection /\ R!PastIsStable)
BY ResultsTypeCorrect, ResultsAreOneChain, ReadersSeeTheTip, AlwaysCanResume,
   OneOperationPending, ProjectedOnce, PastStaysTold, PTL

\* A pick is of a forecast made before, in the newest cohort, at no older price, linked within
\* its window, and a later reader derives it again (pl_product.py).
THEOREM ProductHolds ==
    ASSUME Q!ProductAssumption
    PROVE  Q!Spec => [](/\ Q!TypeOK /\ Q!ForecastFirst /\ Q!NoOlderPrice
                        /\ Q!NewestCohort /\ Q!LinkedInWindow /\ Q!PicksReplay)
BY ProductTypeCorrect, ForecastsComeFirst, NewestPriceOnly, PicksUseNewestCohort,
   LinkedInTime, PicksStayReplayable, PTL

\* One whole and blind day is captured, what was reported of it stays true, and replayed prices
\* keep their order, through failed writes, new code and power losses (capture and consume).
THEOREM CornerReplayHolds ==
    ASSUME W!ReplayConstants
    PROVE  W!Spec => [](/\ W!TypeOK /\ W!CreatedStays /\ W!ExistingIsExact
                        /\ W!WholeDay /\ W!FrozenIsBlind /\ W!ReplayIsOrdered)
BY ReplayTypeCorrect, CreatedIsKept, OnlyExactRepeats, DayIsFrozenBlind, ReplaysAreOrdered, PTL
=============================================================================
