-------------------------- MODULE GuardedAcquisition --------------------------
(***************************************************************************)
(* The separately authorized tournament acquisition                        *)
(* (guarded_acquisition.py, with acquisition_storage.py, the planner, the  *)
(* shared request budget and the qualified EPL freeze).  Invocations may   *)
(* overlap with one another and with the ordinary collector; any of them   *)
(* may die after any durable write.                                        *)
(***************************************************************************)
EXTENDS Naturals, FiniteSets

CONSTANTS
    Fixtures,
    Championship,     \* the E1 fixtures; the others are Premier League (E0)
    FirstKickoff,     \* the hour each fixture is first scheduled for
    Experiments,      \* experiment_id
    Runs,             \* invocations of run_once
    Opens, Closes,    \* EARLY_24H: hours before kickoff, 27 and 21
    CalendarAge,      \* MAX_CALENDAR_AGE in hours
    Lifetime,         \* expires_at - issued_at in hours
    Allowance,        \* of the shared monthly budget
    Floor,            \* quota_floor
    MonthEnd,         \* the hour at which the calendar month ends
    FreezeE0,         \* epl_freeze is given
    OneShot,          \* epl_one_shot
    Delays,           \* by how much a kickoff may move
    MaxClock,         \* bound
    None

ASSUME AcquisitionConstants ==
    /\ Championship \subseteq Fixtures
    /\ FirstKickoff \in [Fixtures -> Nat]
    /\ {Opens, Closes, CalendarAge, Lifetime, Allowance, Floor, MonthEnd, MaxClock} \subseteq Nat
    /\ Delays \subseteq Nat
    /\ FreezeE0 \in BOOLEAN /\ OneShot \in BOOLEAN
    /\ OneShot => FreezeE0 /\ Championship = {}
    /\ None \notin Runs

Obligations == {[fixture |-> f, kickoff |-> FirstKickoff[f] + d] :
                   f \in Fixtures, d \in Delays \cup {0}}
Kinds == {"reservation", "epldispatch", "payload", "snapshot", "consumer", "handoff"}
Locked == {"prepare", "freeze", "recheck", "reserve", "receipt", "send", "wait",
           "payload", "snapshot", "consumer", "handoff", "complete"}

VARIABLES
    clock,
    schedule,      \* the provider's kickoffs
    installed,     \* the authorization file and the calendar it pins by hash
    control,       \* control.json of the collector: month and credits reserved
    lock,          \* runner.lock
    sessions,      \* private store: session-*.json
    forecasts,     \* forecast-*.json, by obligation
    files,         \* the other records, by kind and experiment
    receipts,      \* receipt-*.json
    pc, run,       \* per invocation: where it stands and what it holds in memory
    \* observations of the environment, read by no action
    charges, requests,  \* per experiment
    spent               \* credits reserved by anybody, per month

store == <<sessions, forecasts, files, receipts>>
observed == <<charges, requests, spent>>
vars == <<clock, schedule, installed, control, lock, store, pc, run, observed>>

Month(t) == IF t < MonthEnd THEN 0 ELSE 1

NoControl == [month |-> 0, reserved |-> 0]
NoRun == [auth |-> None, as_of |-> 0, control |-> NoControl, completed |-> {},
          batch |-> {}, prepared |-> {}, e0 |-> "none"]

Init ==
    /\ clock = 0
    /\ schedule = FirstKickoff
    /\ installed = None
    /\ control = NoControl
    /\ lock = None
    /\ sessions = {} /\ forecasts = {} /\ receipts = {}
    /\ files = [k \in Kinds |-> {}]
    /\ pc = [r \in Runs |-> "idle"]
    /\ run = [r \in Runs |-> NoRun]
    /\ charges = [e \in Experiments |-> 0]
    /\ requests = [e \in Experiments |-> 0]
    /\ spent = [m \in {0, 1} |-> 0]

-----------------------------------------------------------------------------
(* Environment                                                             *)

Tick ==
    /\ clock < MaxClock
    /\ clock' = clock + 1
    /\ UNCHANGED <<schedule, installed, control, lock, store, pc, run, observed>>

Postpone ==
    \E f \in Fixtures, d \in Delays :
       /\ schedule[f] = FirstKickoff[f]
       /\ schedule' = [schedule EXCEPT ![f] = @ + d]
       /\ UNCHANGED <<clock, installed, control, lock, store, pc, run, observed>>

\* The operator exports a calendar and installs an authorization that pins it,
\* possibly for an experiment that was used before.
Authorize ==
    \E e \in Experiments :
       /\ installed' = [experiment |-> e, expires |-> clock + Lifetime,
                        verified |-> clock, kickoff |-> schedule]
       /\ UNCHANGED <<clock, schedule, control, lock, store, pc, run, observed>>

Rolled == [month |-> Month(clock),
           reserved |-> IF Month(clock) = control.month THEN control.reserved ELSE 0]

MutantLockIgnored == TRUE
LockFree == lock = None

\* One batch of the collector, which reserves under the same lock.
Collect ==
    /\ LockFree
    /\ Rolled.reserved < Allowance
    /\ control' = [Rolled EXCEPT !.reserved = @ + 1]
    /\ spent' = [spent EXCEPT ![Month(clock)] = @ + 1]
    /\ UNCHANGED <<clock, schedule, installed, lock, store, pc, run, charges, requests>>

-----------------------------------------------------------------------------
(* Reading the inputs                                                      *)

Usable(auth) ==
    /\ clock < auth.expires
    /\ clock - auth.verified <= CalendarAge

MutantClaimed == {}
Claimed == UNION {s.obligations : s \in sessions}

\* plan_acquisition: the window is inclusive; a moved kickoff is a new obligation
Outstanding(auth, t, completed) ==
    {o \in {[fixture |-> f, kickoff |-> auth.kickoff[f]] : f \in Fixtures} :
        t + Closes <= o.kickoff /\ o.kickoff <= t + Opens} \ completed

\* the authorization, the calendar and the windows, checked again at dispatch
StillOpen(r) ==
    /\ installed = run[r].auth
    /\ Usable(run[r].auth)
    /\ clock - run[r].as_of <= CalendarAge
    /\ Outstanding(run[r].auth, clock, run[r].completed) = run[r].batch

\* check_operator_window, which only the one-shot operator installs in the guard
MutantOperatorWindow(r) == TRUE
OperatorWindow(r) ==
    OneShot => /\ installed = run[r].auth
               /\ clock < run[r].auth.expires
               /\ Month(clock) = run[r].control.month

FloorKept(c) == OneShot => c.reserved + 1 + Floor <= Allowance

-----------------------------------------------------------------------------
(* run_once                                                                *)

Move(r, to) ==
    /\ pc' = [pc EXCEPT ![r] = to]
    /\ UNCHANGED <<clock, schedule, installed>>

MutantLeave(r) ==
    /\ pc' = [pc EXCEPT ![r] = "idle"]
    /\ run' = [run EXCEPT ![r] = NoRun]
    /\ UNCHANGED <<clock, schedule, installed, lock>>

Leave(r) ==
    /\ pc' = [pc EXCEPT ![r] = "idle"]
    /\ run' = [run EXCEPT ![r] = NoRun]
    /\ lock' = IF lock = r THEN None ELSE lock
    /\ UNCHANGED <<clock, schedule, installed>>

\* the inputs are read before the lock is taken
Start(r) ==
    /\ pc[r] = "idle" /\ installed # None
    /\ Usable(installed)
    /\ run' = [run EXCEPT ![r].auth = installed, ![r].as_of = clock]
    /\ Move(r, "ready")
    /\ UNCHANGED <<control, lock, store, observed>>

MutantHasSession(e) == FALSE
HasSession(e) == \E s \in sessions : s.experiment = e

Plan(r) == Outstanding(run[r].auth, run[r].as_of, Claimed)

\* what must hold before and after the rollover; the rollover is durable
Planned(r) == Plan(r) # {} /\ ~HasSession(run[r].auth.experiment)
Affordable == Rolled.reserved < Allowance /\ FloorKept(Rolled)

Enter(r) ==
    /\ pc[r] = "ready" /\ LockFree
    /\ Planned(r) /\ Affordable
    /\ lock' = r
    /\ control' = Rolled
    /\ run' = [run EXCEPT ![r].control = Rolled, ![r].completed = Claimed,
                          ![r].batch = Plan(r)]
    /\ Move(r, "prepare")
    /\ UNCHANGED <<store, observed>>

\* BUSY, NO_ELIGIBLE_FIXTURES, ALREADY_ATTEMPTED, REQUEST_BUDGET
Decline(r) ==
    /\ pc[r] = "ready"
    /\ ~(LockFree /\ Planned(r) /\ Affordable)
    /\ control' = IF LockFree /\ Planned(r) THEN Rolled ELSE control
    /\ Leave(r)
    /\ UNCHANGED <<store, observed>>

MutantToPrepare(r) == {}
ToPrepare(r) == {o \in run[r].batch : o.fixture \in Championship} \ run[r].prepared

\* a forecast of an earlier run is read again, otherwise a new one is frozen
Prepare(r) ==
    /\ pc[r] = "prepare"
    /\ \E o \in ToPrepare(r) :
          /\ forecasts' = forecasts \cup {o}
          /\ run' = [run EXCEPT ![r].prepared = @ \cup {o}]
    /\ UNCHANGED <<clock, schedule, installed, control, lock, sessions, files, receipts,
                   pc, observed>>

HasE0(r) == \E o \in run[r].batch : o.fixture \notin Championship
HasE1(r) == \E o \in run[r].batch : o.fixture \in Championship

\* the claim precedes reservation and HTTP
Claim(r) ==
    /\ pc[r] = "prepare" /\ ToPrepare(r) = {}
    /\ StillOpen(r)
    /\ sessions' = sessions \cup
          {[experiment |-> run[r].auth.experiment, obligations |-> run[r].batch]}
    /\ Move(r, IF FreezeE0 /\ HasE0(r) THEN "freeze" ELSE "reserve")
    /\ UNCHANGED <<control, lock, forecasts, files, receipts, run, observed>>

Put(kind, r) ==
    /\ files' = [files EXCEPT ![kind] = @ \cup {run[r].auth.experiment}]
    /\ UNCHANGED <<sessions, forecasts, receipts>>

\* an EPL failure holds back E0 alone, unless nothing else is in the batch
HoldE0(r) == HasE1(r) /\ run' = [run EXCEPT ![r].e0 = "HELD"]

Freeze(r) ==
    /\ pc[r] = "freeze"
    /\ \/ Put("epldispatch", r) /\ run' = [run EXCEPT ![r].e0 = "FROZEN"]
       \/ HoldE0(r) /\ UNCHANGED store
    /\ Move(r, "recheck")
    /\ UNCHANGED <<control, lock, observed>>

\* the same checks after the delay of the freeze
Recheck(r) ==
    /\ pc[r] = "recheck"
    /\ StillOpen(r)
    /\ UNCHANGED run \/ HoldE0(r)
    /\ Move(r, "reserve")
    /\ UNCHANGED <<control, lock, store, observed>>

Reserve(r) ==
    /\ pc[r] = "reserve"
    /\ FloorKept(run[r].control) /\ OperatorWindow(r)
    /\ Month(clock) = run[r].control.month
    /\ run[r].control.reserved < Allowance
    /\ control' = [run[r].control EXCEPT !.reserved = @ + 1]
    /\ run' = [run EXCEPT ![r].control.reserved = @ + 1]
    /\ charges' = [charges EXCEPT ![run[r].auth.experiment] = @ + 1]
    /\ spent' = [spent EXCEPT ![run[r].control.month] = @ + 1]
    /\ Move(r, "receipt")
    /\ UNCHANGED <<lock, store, requests>>

StoreReservation(r) ==
    /\ pc[r] = "receipt"
    /\ Put("reservation", r)
    /\ Move(r, "send")
    /\ UNCHANGED <<control, lock, run, observed>>

Send(r) ==
    /\ pc[r] = "send"
    /\ OperatorWindow(r)
    /\ requests' = [requests EXCEPT ![run[r].auth.experiment] = @ + 1]
    /\ Move(r, "wait")
    /\ UNCHANGED <<control, lock, store, run, charges, spent>>

\* a frozen forecast that is not older than the answer holds E0 back as well
Answer(r) ==
    /\ pc[r] = "wait"
    /\ UNCHANGED run \/ (run[r].e0 = "FROZEN" /\ HoldE0(r))
    /\ Move(r, "payload")
    /\ UNCHANGED <<control, lock, store, observed>>

Finish(r, status) ==
    /\ receipts' = receipts \cup
          {[experiment |-> run[r].auth.experiment, status |-> status, e0 |-> run[r].e0]}
    /\ Leave(r)
    /\ UNCHANGED <<control, sessions, forecasts, files, observed>>

TransportRejected(r) == pc[r] = "wait" /\ Finish(r, "REVIEW")

\* the order of the evidence; the handoff is retained for a batch with E0
MutantFollowing(r) ==
    [payload |-> "snapshot", snapshot |-> "complete", consumer |-> "handoff",
     handoff |-> "complete"]
Following(r) ==
    [payload |-> "snapshot", snapshot |-> "consumer",
     consumer |-> IF FreezeE0 /\ HasE0(r) THEN "handoff" ELSE "complete",
     handoff |-> "complete"]

StoreEvidence(r) ==
    /\ pc[r] \in DOMAIN Following(r)
    /\ Put(pc[r], r)
    /\ Move(r, Following(r)[pc[r]])
    /\ UNCHANGED <<control, lock, run, observed>>

\* the response names another fixture, or its evidence is refused
ProcessingRejected(r) ==
    pc[r] \in DOMAIN Following(r) \cup {"complete"} /\ Finish(r, "REJECTED")

Complete(r) == pc[r] = "complete" /\ Finish(r, "RECORDED")

\* a check refuses, a write fails or the process dies: no receipt, no lock
Stop(r) ==
    /\ pc[r] # "idle"
    /\ Leave(r)
    /\ UNCHANGED <<control, store, observed>>

Next ==
    \/ Tick \/ Postpone \/ Authorize \/ Collect
    \/ \E r \in Runs :
          \/ Start(r) \/ Enter(r) \/ Decline(r) \/ Prepare(r) \/ Claim(r)
          \/ Freeze(r) \/ Recheck(r) \/ Reserve(r) \/ StoreReservation(r) \/ Send(r)
          \/ Answer(r) \/ TransportRejected(r) \/ StoreEvidence(r)
          \/ ProcessingRejected(r) \/ Complete(r) \/ Stop(r)

Spec == Init /\ [][Next]_vars

-----------------------------------------------------------------------------
(* Properties                                                              *)

Auth == [experiment: Experiments, expires: Nat, verified: Nat, kickoff: [Fixtures -> Nat]]
Control == [month: {0, 1}, reserved: 0 .. Allowance]

\* Files and memory hold what run_once writes, and the runner lock belongs to
\* exactly the invocation that is past it.
TypeOK ==
    /\ clock \in Nat /\ schedule \in [Fixtures -> Nat]
    /\ installed \in Auth \cup {None}
    /\ control \in Control
    /\ sessions \subseteq [experiment: Experiments, obligations: SUBSET Obligations]
    /\ forecasts \subseteq Obligations
    /\ files \in [Kinds -> SUBSET Experiments]
    /\ receipts \subseteq [experiment: Experiments, e0: {"none", "HELD", "FROZEN"},
                            status: {"RECORDED", "REJECTED", "REVIEW"}]
    /\ pc \in [Runs -> Locked \cup {"idle", "ready"}]
    /\ run \in [Runs -> [auth: Auth \cup {None}, as_of: Nat, control: Control,
                         completed: SUBSET Obligations, batch: SUBSET Obligations,
                         prepared: SUBSET Obligations, e0: {"none", "HELD", "FROZEN"}]]
    /\ charges \in [Experiments -> Nat] /\ requests \in [Experiments -> Nat]
    /\ spent \in [{0, 1} -> Nat]
    /\ \A r \in Runs : pc[r] \in Locked <=> lock = r

\* Whatever crashes, overlapping invocations and new authorizations do, an
\* experiment sends at most one request, and no fixture at its kickoff is
\* asked for by two experiments.
NeverAskedTwice ==
    /\ \A e \in Experiments : requests[e] <= 1
    /\ \A s, t \in sessions :
          s # t => /\ s.experiment # t.experiment
                   /\ s.obligations \cap t.obligations = {}

\* When a request leaves, its credit is in the shared budget, its claim and its
\* reservation are on file, and so is a forecast for each Championship fixture.
RequestsArePrepared ==
    \A e \in Experiments : requests[e] > 0 =>
       /\ charges[e] >= requests[e] /\ e \in files["reservation"]
       /\ \E s \in sessions :
             /\ s.experiment = e
             /\ \A o \in s.obligations : o.fixture \in Championship => o \in forecasts

\* Acquisition and collector share one account: no reservation of either is lost
\* by the other's save, and none is charged to a month that is over.
SharedAccounting == control.reserved = spent[control.month]

\* The receipt is the commit marker of its evidence: readers that find RECORDED
\* find the payload, the snapshot, the consumers and, for E0, the frozen dispatch
\* and the handoff.
ReceiptCommits ==
    \A c \in receipts : c.status = "RECORDED" =>
       /\ \A k \in {"reservation", "payload", "snapshot", "consumer"} : c.experiment \in files[k]
       /\ c.e0 = "FROZEN" => /\ c.experiment \in files["epldispatch"]
                             /\ c.experiment \in files["handoff"]

\* A request of the one-shot operator leaves only while its authorization is
\* installed and in force, in the month it was charged to, and with the reserve
\* floor of the shared budget intact, although hours may pass since the claim.
OperatorStaysAuthorized ==
    \A r \in Runs : pc[r] = "send" /\ pc'[r] = "wait" =>
        /\ installed = run[r].auth /\ clock < installed.expires
        /\ control.month = Month(clock)
        /\ control.reserved + Floor <= Allowance
OperatorRequestsStayAuthorized == [][OperatorStaysAuthorized]_vars

\* the guarded acquisition implements AtMostOnceAcquisition
Batch == [e \in Experiments |-> UNION {s.obligations : s \in {s \in sessions : s.experiment = e}}]
Once == INSTANCE AtMostOnceAcquisition WITH batch <- Batch
ImplementsAtMostOnce == Once!Spec
=============================================================================
