------------------------ MODULE ProspectiveBudgetProofs ------------------------
(* The accounting of ProspectiveBudget, for every number of invocations, month  *)
(* length, allowance and failure bound.  AccountingInv: reservations cover the  *)
(* requests.  OriginInv: the saved control loads and has one event behind it.   *)
(* MonthInv: what a month sends beyond its own charges is the one batch that    *)
(* was on its way when it began.                                                *)
(* The collector that spends this budget comes last (C, ProspectiveCollector):  *)
(* CInv: what a run leaves loads, acquisitions are recorded before they are     *)
(* sent, evidence stays readable.  QInv: the quotas of the weekend.             *)
EXTENDS ProspectiveBudget, Sequences, FiniteSetTheorems, WellFoundedInduction,
        TLAPS

\* An invocation is past its start exactly while it holds runner.lock.
Exclusive == \A p \in Runners : pc[p] # "idle" <=> lock = p

\* The in-memory control of the invocation holding the lock is the saved one.
Coherent == \A p \in Runners : pc[p] # "idle" => mem[p] = control

\* What an event about to take effect may do to the accounting: an enrollment
\* keeps the reserved count of the saved period, a rollover starts from nothing.
PlanSound ==
    \A p \in Runners : pc[p] \in {"publish", "write", "save"} =>
        /\ plan[p].after.reserved <= plan[p].after.allowance
        /\ plan[p].type = "ENROLLMENT" =>
              plan[p].after.reserved = control.period.reserved
        /\ plan[p].type # "ENROLLMENT" => plan[p].after.reserved = 0

AccountingInv ==
    TypeOK /\ Exclusive /\ Coherent /\ PlanSound /\ ReservationsCoverRequests

USE DEF Period, Control, Event, EventFile, PCs, Free, NoTransition

\* MonthStart and MonthEnd are whole days.
LEMMA MonthBoundsType ==
    ASSUME NEW day \in Nat
    PROVE  MonthStart(day) \in Int /\ MonthEnd(day) \in Int
BY BudgetConstants DEF MonthStart, MonthEnd

\* Charging a control raises its reserved count and nothing else.
LEMMA ChargedType ==
    ASSUME NEW c \in Control, NEW count \in Nat
    PROVE  /\ Charged(c, count) \in Control
           /\ Charged(c, count).period.reserved = c.period.reserved + count
           /\ Charged(c, count).period.allowance = c.period.allowance
           /\ Charged(c, count).period.start = c.period.start
           /\ Charged(c, count).period.end = c.period.end
           /\ Charged(c, count).version = c.version
           /\ Charged(c, count).transitional = c.transitional
<1> DEFINE charged == [c.period EXCEPT !.reserved = @ + count]
<1>1. c.period \in Period
  OBVIOUS
<1>2. c.period.reserved + count \in Nat
  BY <1>1
<1>3. charged \in Period
  BY <1>1, <1>2
<1>4. charged.reserved = c.period.reserved + count
      /\ charged.allowance = c.period.allowance
      /\ charged.start = c.period.start /\ charged.end = c.period.end
  BY <1>1
<1>5. Charged(c, count) = [c EXCEPT !.period = charged]
  BY DEF Charged
<1> HIDE DEF charged
<1> QED
  BY <1>3, <1>4, <1>5

\* The initial state, with no control file and no invocation, is accounted for.
LEMMA AccountingInit == Init => AccountingInv
<1> SUFFICES ASSUME Init PROVE AccountingInv
  OBVIOUS
<1> USE DEF Init, NoControl, NoPeriod, NoEvent, NewGuard
<1>1. TypeOK
  <2>1. control \in Control
    OBVIOUS
  <2>2. /\ mem \in [Runners -> Control] /\ plan \in [Runners -> Event]
        /\ guard \in [Runners -> [reserved: Nat, tokens: Nat]]
    OBVIOUS
  <2>3. pc \in [Runners -> PCs] /\ rolls \in [Runners -> Nat]
    OBVIOUS
  <2>4. wholeMonth \in BOOLEAN
    OBVIOUS
  <2> QED
    BY <2>1, <2>2, <2>3, <2>4 DEF TypeOK
<1>2. Exclusive /\ Coherent /\ PlanSound
  BY BudgetConstants DEF BudgetConstants, Exclusive, Coherent, PlanSound
<1>3. ReservationsCoverRequests
  BY DEF ReservationsCoverRequests
<1> QED
  BY <1>1, <1>2, <1>3 DEF AccountingInv

\* Leaving an invocation with the control untouched keeps the accounting.
LEMMA LeaveKeeps ==
    ASSUME AccountingInv, NEW p \in Runners, lock = p, Leave(p),
           UNCHANGED <<today, control, spent, monthSent, wholeMonth>>,
           events' \subseteq EventFile, failures' \in Nat
    PROVE  AccountingInv'
BY BudgetConstants DEF AccountingInv, TypeOK, Exclusive, Coherent, PlanSound,
   ReservationsCoverRequests, Leave, NoControl, NoPeriod, NoEvent, NewGuard

\* Every step of the system keeps the accounting.
LEMMA AccountingStep == AccountingInv /\ [Next]_vars => AccountingInv'
<1> SUFFICES ASSUME AccountingInv, [Next]_vars PROVE AccountingInv'
  OBVIOUS
<1> USE DEF AccountingInv
<1>1. ASSUME NEW start \in Days, NEW end \in Days, NEW allowance \in PilotAllowances,
             InitializePeriod(start, end, allowance)
      PROVE  AccountingInv'
  <2>1. start \in Int /\ end \in Int /\ allowance \in Nat
    BY <1>1, BudgetConstants DEF Days, BudgetConstants
  <2>2. \A p \in Runners : pc[p] = "idle"
    BY <1>1, BudgetConstants DEF InitializePeriod, LockFree, Exclusive, BudgetConstants
  <2> QED
    BY <1>1, <2>1, <2>2 DEF InitializePeriod, TypeOK, Exclusive, Coherent, PlanSound,
       ReservationsCoverRequests
<1>2. ASSUME NEW p \in Runners, StartRun(p) PROVE AccountingInv'
  <2>1. \A q \in Runners : pc[q] = "idle"
    BY <1>2, BudgetConstants DEF StartRun, LockFree, Exclusive, BudgetConstants
  <2>2. \A q \in Runners : q # p => pc'[q] = "idle"
    BY <1>2, <2>1 DEF StartRun, TypeOK
  <2>3. pc'[p] \in {"check", "working"} /\ mem'[p] = control /\ lock' = p
    BY <1>2 DEF StartRun, TypeOK
  <2>4. TypeOK'
    BY <1>2 DEF StartRun, TypeOK, Observed
  <2>5. Exclusive' /\ Coherent' /\ PlanSound'
    BY <1>2, <2>2, <2>3 DEF StartRun, Exclusive, Coherent, PlanSound
  <2>6. ReservationsCoverRequests'
    BY <1>2, <2>2, <2>3 DEF StartRun, ReservationsCoverRequests, Observed
  <2> QED
    BY <2>4, <2>5, <2>6
<1>3. ASSUME NEW p \in Runners, StartEnrollment(p) PROVE AccountingInv'
  <2>1. \A q \in Runners : pc[q] = "idle"
    BY <1>3, BudgetConstants DEF StartEnrollment, LockFree, Exclusive, BudgetConstants
  <2>2. \A q \in Runners : q # p => pc'[q] = "idle"
    BY <1>3, <2>1 DEF StartEnrollment, TypeOK
  <2>3. pc'[p] = "publish" /\ mem'[p] = control /\ lock' = p
    BY <1>3 DEF StartEnrollment, TypeOK
  <2>4. plan'[p] = [type |-> "ENROLLMENT", before |-> control.period,
                    after |-> [control.period EXCEPT !.allowance = MonthlyAllowance]]
    BY <1>3 DEF StartEnrollment, TypeOK
  <2>5. /\ plan'[p] \in Event
        /\ plan'[p].after.reserved = control.period.reserved
        /\ plan'[p].after.allowance = MonthlyAllowance
        /\ plan'[p].type = "ENROLLMENT"
    <3>1. control.period \in Period /\ MonthlyAllowance \in Nat
      BY BudgetConstants DEF TypeOK, BudgetConstants
    <3> DEFINE enrolled == [control.period EXCEPT !.allowance = MonthlyAllowance]
    <3>2. enrolled \in Period /\ enrolled.reserved = control.period.reserved
          /\ enrolled.allowance = MonthlyAllowance
      BY <3>1
    <3> HIDE DEF enrolled
    <3>3. plan'[p] = [type |-> "ENROLLMENT", before |-> control.period, after |-> enrolled]
      BY <2>4 DEF enrolled
    <3> QED
      BY <3>1, <3>2, <3>3
  <2>6. control.period.reserved <= MonthlyAllowance
    BY <1>3, BudgetConstants DEF StartEnrollment, ReservationsCoverRequests, TypeOK,
       BudgetConstants
  <2>7. TypeOK'
    BY <1>3, <2>5 DEF StartEnrollment, TypeOK, Observed
  <2>8. Exclusive' /\ Coherent' /\ PlanSound'
    BY <1>3, <2>2, <2>3, <2>5, <2>6 DEF StartEnrollment, Exclusive, Coherent, PlanSound
  <2>9. ReservationsCoverRequests'
    BY <1>3, <2>2, <2>3 DEF StartEnrollment, ReservationsCoverRequests, Observed
  <2> QED
    BY <2>7, <2>8, <2>9
<1>4. ASSUME NEW p \in Runners, Rolling(p) PROVE AccountingInv'
  <2>1. pc[p] # "idle" /\ lock = p
    BY <1>4 DEF Rolling, RolloverRejected, RolloverNotNeeded, RolloverBegins,
       RolloverDue, Exclusive
  <2>2. CASE RolloverRejected(p)
    BY <2>1, <2>2, LeaveKeeps DEF RolloverRejected, Observed, TypeOK
  <2>3. CASE RolloverNotNeeded(p)
    BY <2>1, <2>3 DEF RolloverNotNeeded, Observed, TypeOK, Exclusive, Coherent,
       PlanSound, ReservationsCoverRequests
  <2>4. CASE RolloverBegins(p)
    <3>1. CurrentMonth \in Period /\ CurrentMonth.reserved = 0
          /\ CurrentMonth.allowance = MonthlyAllowance
      BY MonthBoundsType, BudgetConstants DEF CurrentMonth, TypeOK, BudgetConstants
    <3>2. plan'[p] = [type |-> "MONTH_ROLLOVER", before |-> mem[p].period,
                      after |-> CurrentMonth]
      BY <2>4 DEF RolloverBegins, TypeOK
    <3>3. plan'[p] \in Event /\ plan'[p].after = CurrentMonth
          /\ plan'[p].type = "MONTH_ROLLOVER"
      BY <3>1, <3>2 DEF TypeOK
    <3>4. TypeOK'
      BY <2>4, <3>3 DEF RolloverBegins, TypeOK, Observed
    <3>5. MonthlyAllowance \in Nat
      BY BudgetConstants DEF BudgetConstants
    <3>6. PlanSound'
      BY <2>1, <2>4, <3>1, <3>3, <3>5 DEF RolloverBegins, PlanSound, TypeOK, Exclusive
    <3>7. Exclusive' /\ Coherent'
      BY <2>1, <2>4 DEF RolloverBegins, Exclusive, Coherent, TypeOK
    <3>8. ReservationsCoverRequests'
      BY <2>1, <2>4 DEF RolloverBegins, ReservationsCoverRequests, TypeOK, Exclusive,
         Observed
    <3> QED
      BY <3>4, <3>6, <3>7, <3>8
  <2> QED
    BY <1>4, <2>2, <2>3, <2>4 DEF Rolling
<1>5. ASSUME NEW p \in Runners, Publishing(p) \/ WriteFails(p) PROVE AccountingInv'
  <2>1. pc[p] \in {"publish", "write", "save"} /\ lock = p
    BY <1>5 DEF Publishing, CreateEvent, ExistingEventAccepted, ExistingEventRejected,
       WriteEvent, SaveEnrollment, SaveRollover, WriteFails, Exclusive
  <2>2. \A q \in Runners : q # p => pc[q] = "idle"
    BY <2>1 DEF Exclusive
  <2>3. [event |-> plan[p], written |-> FALSE] \in EventFile
        /\ [event |-> plan[p], written |-> TRUE] \in EventFile
    BY DEF TypeOK
  <2>4. CASE CreateEvent(p)
    <3>1. TypeOK'
      BY <2>3, <2>4 DEF CreateEvent, TypeOK, Observed
    <3> QED
      BY <2>1, <2>4, <3>1 DEF CreateEvent, TypeOK, Exclusive, Coherent, PlanSound,
         ReservationsCoverRequests, Observed
  <2>5. CASE ExistingEventAccepted(p)
    BY <2>1, <2>5 DEF ExistingEventAccepted, TypeOK, Exclusive, Coherent, PlanSound,
       ReservationsCoverRequests, Observed
  <2>6. CASE ExistingEventRejected(p)
    BY <2>1, <2>6, LeaveKeeps DEF ExistingEventRejected, Observed, TypeOK
  <2>7. CASE WriteEvent(p)
    <3>1. TypeOK'
      BY <2>3, <2>7 DEF WriteEvent, TypeOK, Observed
    <3> QED
      BY <2>1, <2>7, <3>1 DEF WriteEvent, TypeOK, Exclusive, Coherent, PlanSound,
         ReservationsCoverRequests, Observed
  <2>8. CASE WriteFails(p)
    BY <2>1, <2>8, LeaveKeeps DEF WriteFails, TypeOK, Observed
  <2>9. AdvancedControl(plan[p]) \in Control
        /\ AdvancedControl(plan[p]).period = plan[p].after
    BY DEF AdvancedControl, TypeOK
  <2>10. CASE SaveEnrollment(p)
    <3>1. control' = AdvancedControl(plan[p]) /\ plan[p].type = "ENROLLMENT"
      BY <2>10 DEF SaveEnrollment
    <3>2. control'.period.reserved = control.period.reserved
          /\ control'.period.reserved <= control'.period.allowance
      BY <2>1, <2>9, <3>1 DEF PlanSound
    <3>3. \A q \in Runners : pc'[q] = "idle"
      BY <2>2, <2>10 DEF SaveEnrollment, Leave, TypeOK
    <3>4. TypeOK'
      BY <2>9, <2>10 DEF SaveEnrollment, Leave, TypeOK, Observed, NoControl, NoPeriod,
         NoEvent, NewGuard
    <3>5. Exclusive' /\ Coherent' /\ PlanSound'
      BY <2>10, <3>3, BudgetConstants DEF SaveEnrollment, Leave, Exclusive, Coherent,
         PlanSound, BudgetConstants
    <3>6. ReservationsCoverRequests'
      BY <2>10, <3>2, <3>3 DEF SaveEnrollment, ReservationsCoverRequests, Observed
    <3> QED
      BY <3>4, <3>5, <3>6
  <2>11. CASE SaveRollover(p)
    <3>1. control' = AdvancedControl(plan[p]) /\ mem'[p] = control'
          /\ pc'[p] = "working" /\ spent' = 0 /\ lock' = p
      BY <2>1, <2>11 DEF SaveRollover, TypeOK
    <3>2. control'.period.reserved = 0 /\ 0 <= control'.period.allowance
      BY <2>1, <2>9, <2>11, <3>1 DEF PlanSound, SaveRollover
    <3>3. \A q \in Runners : q # p => pc'[q] = "idle"
      BY <2>2, <2>11 DEF SaveRollover, TypeOK
    <3>4. TypeOK'
      BY <2>9, <2>11 DEF SaveRollover, TypeOK, NoPeriod, NoEvent
    <3>5. Exclusive' /\ Coherent' /\ PlanSound'
      BY <3>1, <3>3 DEF Exclusive, Coherent, PlanSound
    <3>6. ReservationsCoverRequests'
      BY <3>1, <3>2, <3>3 DEF ReservationsCoverRequests
    <3> QED
      BY <3>4, <3>5, <3>6
  <2> QED
    BY <1>5, <2>4, <2>5, <2>6, <2>7, <2>8, <2>10, <2>11 DEF Publishing
<1>6. ASSUME NEW p \in Runners, NEW count \in 1 .. MaxReserve, Reserve(p, count)
      PROVE  AccountingInv'
  <2>1. pc[p] = "working" /\ lock = p /\ mem[p] = control /\ count \in Nat
    BY <1>6, BudgetConstants DEF Reserve, Exclusive, Coherent, BudgetConstants
  <2>2. \A q \in Runners : q # p => pc'[q] = "idle"
    BY <1>6, <2>1 DEF Reserve, Exclusive, TypeOK
  <2>3. /\ Charged(control, count) \in Control
        /\ Charged(control, count).period.reserved = control.period.reserved + count
        /\ Charged(control, count).period.allowance = control.period.allowance
    BY ZenonT(60), <2>1, ChargedType DEF TypeOK
  <2>4. control' = Charged(control, count) /\ mem'[p] = control'
        /\ pc'[p] = "requesting" /\ guard'[p].tokens = count
        /\ lock' = lock /\ spent' = spent
    BY <1>6, <2>1 DEF Reserve, TypeOK, Observed
  <2>5. control.period.reserved + count <= control.period.allowance
    BY <1>6, <2>1 DEF Reserve, MayReserve
  <2>6. TypeOK'
    BY <1>6, <2>1, <2>3 DEF Reserve, TypeOK, Observed
  <2>7. Exclusive' /\ Coherent' /\ PlanSound'
    BY <2>1, <2>2, <2>4 DEF Exclusive, Coherent, PlanSound
  <2>8. ReservationsCoverRequests'
    <3>1. /\ spent' <= control'.period.reserved
          /\ control'.period.reserved <= control'.period.allowance
          /\ spent' + guard'[p].tokens <= control'.period.reserved
      BY <2>1, <2>3, <2>4, <2>5 DEF ReservationsCoverRequests, TypeOK
    <3> QED
      BY <2>2, <3>1 DEF ReservationsCoverRequests
  <2> QED
    BY <2>6, <2>7, <2>8
<1>7. ASSUME NEW p \in Runners, SendRequest(p) PROVE AccountingInv'
  <2>1. lock = p /\ mem[p] = control /\ pc[p] = "requesting" /\ control' = control
    BY <1>7 DEF SendRequest, Exclusive, Coherent
  <2>2. \A q \in Runners : q # p => pc[q] = "idle"
    BY <2>1 DEF Exclusive
  <2>3. guard'[p].tokens = guard[p].tokens - 1 /\ spent' = spent + 1
    BY <1>7 DEF SendRequest, TypeOK
  <2>4. spent + guard[p].tokens <= control.period.reserved /\ guard[p].tokens > 0
    BY <1>7, <2>1 DEF SendRequest, ReservationsCoverRequests
  <2>5. TypeOK'
    <3>1. guard' \in [Runners -> [reserved: Nat, tokens: Nat]]
      BY <1>7 DEF SendRequest, TypeOK
    <3> QED
      BY <1>7, <2>1, <3>1 DEF SendRequest, TypeOK
  <2>6. Exclusive' /\ Coherent' /\ PlanSound'
    BY <1>7, <2>1, <2>2 DEF SendRequest, Exclusive, Coherent, PlanSound
  <2>7. ReservationsCoverRequests'
    BY <1>7, <2>1, <2>2, <2>3, <2>4 DEF TypeOK, SendRequest, ReservationsCoverRequests
  <2> QED
    BY <2>5, <2>6, <2>7
<1>8. ASSUME NEW p \in Runners, EndBatch(p) PROVE AccountingInv'
  BY <1>8 DEF EndBatch, TypeOK, Exclusive, Coherent, PlanSound,
     ReservationsCoverRequests, Observed
<1>9. ASSUME NEW p \in Runners, EndRun(p) \/ Crash(p) PROVE AccountingInv'
  BY <1>9, LeaveKeeps DEF EndRun, Crash, Exclusive, TypeOK, Observed
<1>10. CASE Tick
  <2>1. monthSent' \in Nat /\ today' \in Nat
    BY <1>10 DEF Tick, TypeOK
  <2>2. wholeMonth' \in BOOLEAN
    BY <1>10 DEF Tick, TypeOK
  <2>3. UNCHANGED <<control, events, lock, pc, mem, plan, guard, rolls, failures, spent>>
    BY <1>10 DEF Tick
  <2> QED
    BY <2>1, <2>2, <2>3 DEF TypeOK, Exclusive, Coherent, PlanSound,
       ReservationsCoverRequests
<1>11. CASE UNCHANGED vars
  BY <1>11 DEF vars, Observed, TypeOK, Exclusive, Coherent, PlanSound, ReservationsCoverRequests
<1> QED
  BY <1>1, <1>2, <1>3, <1>4, <1>5, <1>6, <1>7, <1>8, <1>9, <1>10, <1>11 DEF Next

\* The accounting invariant holds in every reachable state.
THEOREM AccountingInvariant == Spec => []AccountingInv
BY AccountingInit, AccountingStep, PTL DEF Spec

\* Every variable keeps its type.
THEOREM TypeCorrect == Spec => []TypeOK
<1>1. AccountingInv => TypeOK
  BY DEF AccountingInv
<1> QED
  BY <1>1, AccountingInvariant, PTL

\* corner_prospective.py: "Request reservations are conservative": the requests
\* sent and those a live run may still send are covered by what control.json
\* says is reserved, within the allowance.
THEOREM ConservativeReservations == Spec => []ReservationsCoverRequests
<1>1. AccountingInv => ReservationsCoverRequests
  BY DEF AccountingInv
<1> QED
  BY <1>1, AccountingInvariant, PTL

-----------------------------------------------------------------------------
(* The saved control always loads, has exactly one event behind it, and is    *)
(* never refunded; a month overshoots by one batch at most.                   *)

\* An event is being published, or is published and about to take effect.
Committing(p) == pc[p] \in {"publish", "write", "save"}

\* The files have different names, tell of possible events, and a rollover among
\* them starts from the saved period or led to it or to an earlier one.
EventsSound ==
    /\ \A f, g \in events : EventId(f.event) = EventId(g.event) => f = g
    /\ \A f \in events :
          /\ ValidEvent(f.event)
          /\ f.event.type = "MONTH_ROLLOVER" =>
                /\ control.version = 2
                /\ f.event.after.start <= today
                /\ f.event.before.start <= control.period.start
                /\ f.event.before.start < control.period.start =>
                      f.event.after.start <= control.period.start

\* An event about to take effect starts from the saved period, no rollover on file
\* leads further, and its file is there once it was created or written.
PlanOrigin ==
    \A p \in Runners : Committing(p) =>
        /\ ValidEvent(plan[p])
        /\ plan[p].before = control.period
        /\ plan[p].type = "ENROLLMENT" => control.version = 1
        /\ plan[p].type = "MONTH_ROLLOVER" =>
              /\ control.version = 2 /\ plan[p].after.start <= today
              /\ \A f \in events : f.event.type = "MONTH_ROLLOVER" =>
                    f.event.after.start <= plan[p].after.start
        /\ pc[p] = "write" => [event |-> plan[p], written |-> FALSE] \in events
        /\ pc[p] = "save" => [event |-> plan[p], written |-> TRUE] \in events

\* The saved period has exactly one event behind it.
Origin == control.version = 2 => \E f \in events : Matching(control) = {f}

OriginInv == SavedControlLoads /\ EventsSound /\ PlanOrigin /\ Origin

\* What the current month may have been charged for: nothing while the saved period
\* is an older one.
ChargedThisMonth == IF Covers(control.period, today) THEN control.period.reserved ELSE 0

\* Beyond what the current month was charged for, at most the batch that was on its
\* way when the month began has been or will be sent in it.
MonthInv ==
    /\ \A p \in Runners : pc[p] = "requesting" => guard[p].tokens <= MaxReserve
    /\ wholeMonth =>
          /\ control.version = 2
          /\ monthSent <= MaxReserve + ChargedThisMonth
          /\ \A p \in Runners : pc[p] = "requesting" =>
                monthSent + guard[p].tokens <= MaxReserve + ChargedThisMonth

-----------------------------------------------------------------------------
(* Months                                                                     *)

\* A day is a whole number of months and the days since.
LEMMA Division ==
    ASSUME NEW day \in Int
    PROVE  \E q \in Int : day = DaysPerMonth * q + (day % DaysPerMonth)
<1>1. day = DaysPerMonth * (day \div DaysPerMonth) + (day % DaysPerMonth)
      /\ day \div DaysPerMonth \in Int
  BY BudgetConstants DEF BudgetConstants
<1> QED
  BY <1>1

\* A month begins on or before each of its days and ends after it; its first day and the
\* day after its last one begin months.
LEMMA MonthBounds ==
    ASSUME NEW day \in Int
    PROVE  /\ MonthStart(day) \in Int /\ MonthEnd(day) \in Int
           /\ MonthStart(day) <= day /\ day < MonthEnd(day)
           /\ MonthStart(MonthStart(day)) = MonthStart(day)
           /\ MonthEnd(MonthStart(day)) = MonthEnd(day)
           /\ MonthStart(MonthEnd(day)) = MonthEnd(day)
<1> USE BudgetConstants DEF BudgetConstants
<1>1. /\ MonthStart(day) \in Int /\ MonthEnd(day) \in Int
      /\ MonthStart(day) <= day /\ day < MonthEnd(day)
  BY DEF MonthStart, MonthEnd
<1>2. PICK q \in Int : day = DaysPerMonth * q + (day % DaysPerMonth)
  BY Division
<1>3. MonthStart(day) = DaysPerMonth * q
  BY <1>2 DEF MonthStart
<1>4. (DaysPerMonth * q + 0) % DaysPerMonth = 0
  OBVIOUS
<1>5. (DaysPerMonth * (q + 1) + 0) % DaysPerMonth = 0
  OBVIOUS
<1>6. DaysPerMonth * (q + 1) = DaysPerMonth * q + DaysPerMonth
  OBVIOUS
<1>7. MonthStart(MonthStart(day)) = MonthStart(day)
  BY <1>3, <1>4 DEF MonthStart
<1> QED
  BY <1>1, <1>3, <1>5, <1>6, <1>7 DEF MonthStart, MonthEnd

\* A month that has begun did not begin after the current one.
LEMMA LatestMonth ==
    ASSUME NEW start \in Int, NEW day \in Int, MonthStart(start) = start, start <= day
    PROVE  start <= MonthStart(day)
BY BudgetConstants DEF BudgetConstants, MonthStart

-----------------------------------------------------------------------------
(* Events                                                                     *)

\* What is known of an event of each kind.
LEMMA EnrollmentEvent ==
    ASSUME NEW e \in Event, e.type = "ENROLLMENT"
    PROVE  ValidEvent(e) <=>
              /\ e.before.start < e.before.end /\ e.after.start < e.after.end
              /\ e.before.reserved <= e.before.allowance
              /\ e.after.reserved <= e.after.allowance
              /\ e.before.start = e.after.start /\ e.before.end = e.after.end
              /\ MonthEnd(e.before.start) = e.before.end
              /\ e.before.allowance < MonthlyAllowance
              /\ e.after.allowance = MonthlyAllowance
              /\ e.before.reserved = e.after.reserved
BY DEF ValidEvent

LEMMA RolloverEvent ==
    ASSUME NEW e \in Event, e.type = "MONTH_ROLLOVER"
    PROVE  ValidEvent(e) <=>
              /\ e.before.start < e.before.end /\ e.after.start < e.after.end
              /\ e.before.reserved <= e.before.allowance
              /\ e.after.reserved <= e.after.allowance
              /\ e.before.allowance = MonthlyAllowance
              /\ e.after.allowance = MonthlyAllowance
              /\ e.after.reserved = 0
              /\ MonthStart(e.after.start) = e.after.start
              /\ MonthEnd(e.after.start) = e.after.end
              /\ e.before.end <= e.after.start
BY DEF ValidEvent

LEMMA KnownEvent ==
    ASSUME NEW e \in Event, ValidEvent(e)
    PROVE  e.type \in {"ENROLLMENT", "MONTH_ROLLOVER"}
BY DEF ValidEvent

\* The control an event leads to loads again.
LEMMA AdvancedLoads ==
    ASSUME NEW e \in Event, ValidEvent(e)
    PROVE  Loadable(AdvancedControl(e))
BY EnrollmentEvent, BudgetConstants, RolloverEvent, KnownEvent DEF AdvancedControl, Loadable,
   ValidCalendarControl, BudgetConstants

-----------------------------------------------------------------------------
(* The event behind the saved period                                          *)

LEMMA OriginInit == Init => OriginInv
BY BudgetConstants DEF Init, NoControl, NoPeriod, NoEvent, OriginInv, SavedControlLoads,
   EventsSound, PlanOrigin, Origin, Committing

\* A step that leaves control and events alone and begins no publication.
LEMMA OriginUndisturbed ==
    ASSUME AccountingInv, OriginInv, UNCHANGED <<control, events>>,
           today' \in Nat, today <= today',
           \A q \in Runners : pc'[q] \in {"publish", "write", "save"} =>
               pc'[q] = pc[q] /\ plan'[q] = plan[q]
    PROVE  OriginInv'
<1>1. SavedControlLoads' /\ Origin'
  BY DEF OriginInv, SavedControlLoads, Origin, Matching, Loadable, ValidCalendarControl
<1>2. EventsSound'
  BY DEF OriginInv, EventsSound, AccountingInv, TypeOK
<1>3. PlanOrigin'
  <2> SUFFICES ASSUME NEW q \in Runners, Committing(q)'
               PROVE  PlanOrigin!(q)'
    BY DEF PlanOrigin
  <2>1. pc'[q] = pc[q] /\ plan'[q] = plan[q] /\ Committing(q)
    BY DEF Committing
  <2>2. plan[q] \in Event /\ today \in Nat
    BY DEF AccountingInv, TypeOK
  <2>3. plan[q].after.start <= today => plan'[q].after.start <= today'
    BY <2>1, <2>2
  <2> QED
    BY <2>1, <2>3 DEF OriginInv, PlanOrigin
<1> QED
  BY <1>1, <1>2, <1>3 DEF OriginInv

\* Ending an invocation, with at most an unwritten event removed.
LEMMA OriginLeave ==
    ASSUME AccountingInv, OriginInv, NEW p \in Runners, lock = p, Leave(p),
           UNCHANGED <<today, control>>, events' \subseteq events,
           \A f \in events \ events' : ~f.written
    PROVE  OriginInv'
<1>1. \A q \in Runners : pc'[q] = "idle"
  BY DEF AccountingInv, TypeOK, Exclusive, Leave
<1>2. PlanOrigin'
  BY <1>1 DEF PlanOrigin, Committing
<1>3. SavedControlLoads' /\ EventsSound'
  BY DEF OriginInv, SavedControlLoads, EventsSound
<1>4. Matching(control)' = Matching(control)
  BY DEF Matching
<1>5. Origin'
  BY <1>4 DEF Origin, OriginInv, Matching
<1> QED
  BY <1>2, <1>3, <1>5 DEF OriginInv

\* A new period of an operator: there is no rollover on file yet.
LEMMA OriginInitialize ==
    ASSUME AccountingInv, OriginInv, NEW start \in Days, NEW end \in Days,
           NEW allowance \in PilotAllowances, InitializePeriod(start, end, allowance)
    PROVE  OriginInv'
<1> USE DEF InitializePeriod
<1>1. /\ start \in Int /\ end \in Int /\ start < end
      /\ allowance \in Nat /\ allowance > 0
  BY BudgetConstants DEF Days, BudgetConstants, AccountingInv, TypeOK
<1>2. control'.version = 1 /\ control.version # 2
  OBVIOUS
<1>3. \A q \in Runners : pc'[q] = "idle"
  BY BudgetConstants DEF LockFree, AccountingInv, Exclusive, BudgetConstants
<1>4. SavedControlLoads'
  BY <1>1 DEF SavedControlLoads, Loadable
<1>5. EventsSound'
  BY <1>2 DEF OriginInv, EventsSound
<1>6. PlanOrigin' /\ Origin'
  BY <1>2, <1>3 DEF PlanOrigin, Committing, Origin
<1> QED
  BY <1>4, <1>5, <1>6 DEF OriginInv

\* The event an enrollment will publish keeps the period and its reserved count.
LEMMA OriginEnrollment ==
    ASSUME AccountingInv, OriginInv, NEW p \in Runners, StartEnrollment(p)
    PROVE  OriginInv'
<1> DEFINE enrolled == [control.period EXCEPT !.allowance = MonthlyAllowance]
           e == [type |-> "ENROLLMENT", before |-> control.period, after |-> enrolled]
<1>1. \A q \in Runners : pc[q] = "idle"
  BY BudgetConstants DEF StartEnrollment, LockFree, AccountingInv, Exclusive, BudgetConstants
<1>2. pc'[p] = "publish" /\ \A q \in Runners : q # p => pc'[q] = "idle"
  BY <1>1 DEF StartEnrollment, AccountingInv, TypeOK
<1>3. control.period \in Period /\ MonthlyAllowance \in Nat
  BY BudgetConstants DEF BudgetConstants, AccountingInv, TypeOK
<1>4. enrolled \in Period /\ enrolled.start = control.period.start
      /\ enrolled.end = control.period.end /\ enrolled.allowance = MonthlyAllowance
      /\ enrolled.reserved = control.period.reserved
  BY <1>3
<1>5. plan'[p] = e
  BY DEF StartEnrollment, AccountingInv, TypeOK
<1> HIDE DEF enrolled
<1>6. e \in Event /\ e.type = "ENROLLMENT" /\ e.before = control.period /\ e.after = enrolled
  BY <1>3, <1>4
<1>7. /\ control.version = 1 /\ control.period.start < control.period.end
      /\ control.period.reserved <= control.period.allowance
      /\ MonthEnd(control.period.start) = control.period.end
      /\ control.period.allowance < MonthlyAllowance
  BY DEF StartEnrollment, Loadable
<1> HIDE DEF e
<1>8. ValidEvent(e)
  BY <1>3, <1>4, <1>6, <1>7, EnrollmentEvent
<1>9. PlanOrigin'
  BY <1>2, <1>5, <1>6, <1>7, <1>8 DEF PlanOrigin, Committing, StartEnrollment
<1>10. SavedControlLoads' /\ EventsSound' /\ Origin'
  BY DEF StartEnrollment, OriginInv, SavedControlLoads, EventsSound, Origin, Matching,
     Loadable, ValidCalendarControl
<1> QED
  BY <1>9, <1>10 DEF OriginInv

\* The event a rollover will publish starts the current month; no rollover on file leads
\* further, because none was made for a month that has not begun.
LEMMA OriginRollover ==
    ASSUME AccountingInv, OriginInv, NEW p \in Runners, RolloverBegins(p)
    PROVE  OriginInv'
<1> DEFINE e == [type |-> "MONTH_ROLLOVER", before |-> mem[p].period, after |-> CurrentMonth]
<1>1. pc[p] # "idle" /\ mem[p] = control /\ lock = p
  BY DEF RolloverBegins, RolloverDue, AccountingInv, Exclusive, Coherent
<1>2. pc'[p] = "publish" /\ \A q \in Runners : q # p => pc'[q] = "idle"
  BY <1>1 DEF RolloverBegins, AccountingInv, TypeOK, Exclusive
<1>3. today \in Nat /\ control.period \in Period /\ MonthlyAllowance \in Nat
  BY BudgetConstants DEF BudgetConstants, AccountingInv, TypeOK
<1>4. /\ CurrentMonth \in Period
      /\ CurrentMonth.start = MonthStart(today) /\ CurrentMonth.end = MonthEnd(today)
      /\ CurrentMonth.allowance = MonthlyAllowance /\ CurrentMonth.reserved = 0
  BY <1>3, MonthBounds DEF CurrentMonth
<1>5. plan'[p] = e
  BY DEF RolloverBegins, AccountingInv, TypeOK
<1>6. /\ e \in Event /\ e.type = "MONTH_ROLLOVER" /\ e.before = control.period
      /\ e.after = CurrentMonth
  BY <1>1, <1>3, <1>4
<1>7. ValidCalendarControl(control) /\ control.period.end <= today
  BY <1>1 DEF RolloverBegins, EvidenceAccepted
<1>8. /\ control.version = 2 /\ control.period.allowance = MonthlyAllowance
      /\ control.period.reserved <= control.period.allowance
      /\ control.period.start < control.period.end
      /\ MonthStart(control.period.end) = control.period.end
  BY <1>3, <1>7, MonthBounds DEF ValidCalendarControl
<1>9. control.period.end <= MonthStart(today)
  BY <1>3, <1>7, <1>8, LatestMonth
<1> HIDE DEF e
<1>10. ValidEvent(e)
  BY <1>3, <1>4, <1>6, <1>8, <1>9, MonthBounds, RolloverEvent
<1>11. e.after.start <= today
  BY <1>3, <1>4, <1>6, MonthBounds
<1>12. \A f \in events : f.event.type = "MONTH_ROLLOVER" => f.event.after.start <= e.after.start
  BY <1>3, <1>4, <1>6, RolloverEvent, LatestMonth DEF OriginInv, EventsSound, AccountingInv, TypeOK
<1>13. PlanOrigin'
  BY <1>2, <1>5, <1>6, <1>8, <1>10, <1>11, <1>12 DEF PlanOrigin, Committing, RolloverBegins
<1>14. SavedControlLoads' /\ EventsSound' /\ Origin'
  BY DEF RolloverBegins, OriginInv, SavedControlLoads, EventsSound, Origin, Matching,
     Loadable, ValidCalendarControl
<1> QED
  BY <1>13, <1>14 DEF OriginInv

\* A rollover about to take effect leads to a later period.
LEMMA RolloverIsLater ==
    ASSUME AccountingInv, OriginInv, NEW p \in Runners, Committing(p),
           plan[p].type = "MONTH_ROLLOVER"
    PROVE  /\ plan[p].after.start >= control.period.end
           /\ control.period.end > control.period.start
           /\ plan[p].before.start = control.period.start
BY RolloverEvent DEF OriginInv, PlanOrigin, AccountingInv, TypeOK

\* Creating the event file: it has no content and explains nothing yet.
LEMMA OriginCreate ==
    ASSUME AccountingInv, OriginInv, NEW p \in Runners, CreateEvent(p)
    PROVE  OriginInv'
<1> DEFINE file == [event |-> plan[p], written |-> FALSE]
<1>1. Committing(p) /\ lock = p /\ pc'[p] = "write"
  BY DEF CreateEvent, Committing, AccountingInv, TypeOK, Exclusive
<1>2. \A q \in Runners : q # p => pc'[q] = "idle"
  BY <1>1 DEF CreateEvent, AccountingInv, TypeOK, Exclusive
<1>3. file \in EventFile /\ file.event = plan[p] /\ file.written = FALSE
  BY DEF AccountingInv, TypeOK
<1>4. events' = events \cup {file}
  BY DEF CreateEvent
<1> HIDE DEF file
<1>5. EventsSound'
  <2>1. \A f \in events : EventId(f.event) # EventId(plan[p])
    BY DEF CreateEvent, SameName
  <2>2. \A f, g \in events' : EventId(f.event) = EventId(g.event) => f = g
    BY <1>3, <1>4, <2>1 DEF OriginInv, EventsSound
  <2>3. ValidEvent(plan[p]) /\ (plan[p].type = "MONTH_ROLLOVER" =>
           /\ control.version = 2 /\ plan[p].after.start <= today
           /\ plan[p].before.start = control.period.start)
    BY <1>1 DEF OriginInv, PlanOrigin
  <2>4. control.period.start \in Int
    BY DEF AccountingInv, TypeOK
  <2>5. UNCHANGED <<control, today>>
    BY DEF CreateEvent
  <2> QED
    BY <1>3, <1>4, <2>2, <2>3, <2>4, <2>5 DEF OriginInv, EventsSound
<1>6. PlanOrigin'
  <2> SUFFICES ASSUME NEW q \in Runners, Committing(q)' PROVE PlanOrigin!(q)'
    BY DEF PlanOrigin
  <2>1. q = p
    BY <1>2 DEF Committing
  <2>2. PlanOrigin!(p)
    BY DEF OriginInv, PlanOrigin
  <2>3. UNCHANGED <<control, today, plan>>
    BY DEF CreateEvent
  <2>4. plan[p].type = "MONTH_ROLLOVER" => \A f \in events' : f.event.type = "MONTH_ROLLOVER" =>
           f.event.after.start <= plan[p].after.start
    BY <1>1, <1>3, <1>4, <2>2 DEF AccountingInv, TypeOK
  <2>5. [event |-> plan[p], written |-> FALSE] \in events'
    BY <1>4 DEF file
  <2> QED
    BY <1>1, <2>1, <2>2, <2>3, <2>4, <2>5
<1>7. Origin'
  BY <1>3, <1>4 DEF Matching, CreateEvent, OriginInv, Origin
<1>8. SavedControlLoads'
  BY DEF CreateEvent, OriginInv, SavedControlLoads, Loadable, ValidCalendarControl
<1> QED
  BY <1>5, <1>6, <1>7, <1>8 DEF OriginInv

\* An existing event of this name is this event.
LEMMA OriginExisting ==
    ASSUME AccountingInv, OriginInv, NEW p \in Runners, ExistingEventAccepted(p)
    PROVE  OriginInv'
<1>1. Committing(p) /\ lock = p /\ pc'[p] = "save"
  BY DEF ExistingEventAccepted, Committing, AccountingInv, TypeOK, Exclusive
<1>2. \A q \in Runners : q # p => pc'[q] = "idle"
  BY <1>1 DEF ExistingEventAccepted, AccountingInv, TypeOK, Exclusive
<1>3. [event |-> plan[p], written |-> TRUE] \in events
  <2>1. PICK f \in events : f.written /\ f.event = plan[p]
    BY DEF ExistingEventAccepted, SameName
  <2>2. f \in EventFile
    BY DEF AccountingInv, TypeOK
  <2>3. f.written = TRUE
    BY <2>1, <2>2
  <2>4. f = [event |-> plan[p], written |-> TRUE]
    BY <2>1, <2>2, <2>3
  <2> QED
    BY <2>4
<1>4. PlanOrigin!(p)
  BY DEF OriginInv, PlanOrigin
<1>5. PlanOrigin'
  BY <1>1, <1>2, <1>3, <1>4 DEF PlanOrigin, Committing, ExistingEventAccepted
<1>6. SavedControlLoads' /\ EventsSound' /\ Origin'
  BY DEF ExistingEventAccepted, OriginInv, SavedControlLoads, EventsSound, Origin, Matching,
     Loadable, ValidCalendarControl
<1> QED
  BY <1>5, <1>6 DEF OriginInv

\* Writing the content: the event explains no period that was saved before.
LEMMA OriginWrite ==
    ASSUME AccountingInv, OriginInv, NEW p \in Runners, WriteEvent(p)
    PROVE  OriginInv'
<1> DEFINE empty == [event |-> plan[p], written |-> FALSE]
           file == [event |-> plan[p], written |-> TRUE]
<1>1. Committing(p) /\ lock = p /\ pc'[p] = "save" /\ pc[p] = "write"
  BY DEF WriteEvent, Committing, AccountingInv, TypeOK, Exclusive
<1>2. \A q \in Runners : q # p => pc'[q] = "idle"
  BY <1>1 DEF WriteEvent, AccountingInv, TypeOK, Exclusive
<1>3. /\ file.event = plan[p] /\ empty.event = plan[p] /\ file.written = TRUE
      /\ empty.written = FALSE /\ plan[p] \in Event
  BY DEF AccountingInv, TypeOK
<1>4. events' = (events \ {empty}) \cup {file}
  BY DEF WriteEvent
<1>5. PlanOrigin!(p) /\ empty \in events
  BY <1>1 DEF OriginInv, PlanOrigin
<1>6. UNCHANGED <<control, today, plan>>
  BY DEF WriteEvent
<1> HIDE DEF empty, file
<1>7. EventsSound'
  <2>1. \A f, g \in events : EventId(f.event) = EventId(g.event) => f = g
    BY DEF OriginInv, EventsSound
  <2>2. \A f \in events \ {empty} : EventId(f.event) # EventId(plan[p])
    BY <1>3, <1>5, <2>1
  <2>3. \A f, g \in events' : EventId(f.event) = EventId(g.event) => f = g
    BY <1>3, <1>4, <2>1, <2>2
  <2>4. /\ ValidEvent(empty.event)
        /\ empty.event.type = "MONTH_ROLLOVER" =>
              /\ control.version = 2
              /\ empty.event.after.start <= today
              /\ empty.event.before.start <= control.period.start
              /\ empty.event.before.start < control.period.start =>
                    empty.event.after.start <= control.period.start
    BY <1>5 DEF OriginInv, EventsSound
  <2> QED
    BY <1>3, <1>4, <1>6, <2>3, <2>4 DEF OriginInv, EventsSound
<1>8. PlanOrigin'
  <2> SUFFICES ASSUME NEW q \in Runners, Committing(q)' PROVE PlanOrigin!(q)'
    BY DEF PlanOrigin
  <2>1. q = p
    BY <1>2 DEF Committing
  <2>2. \A f \in events' : f = file \/ f \in events
    BY <1>4
  <2>3. plan[p].type = "MONTH_ROLLOVER" => \A f \in events' : f.event.type = "MONTH_ROLLOVER" =>
           f.event.after.start <= plan[p].after.start
    BY <1>1, <1>3, <1>5, <2>2 DEF AccountingInv, TypeOK
  <2>4. [event |-> plan[p], written |-> TRUE] \in events'
    BY <1>4 DEF file
  <2> QED
    BY <1>1, <1>5, <1>6, <2>1, <2>3, <2>4
<1>9. Origin'
  <2> SUFFICES ASSUME control.version = 2 PROVE Matching(control)' = Matching(control)
    BY <1>6 DEF Matching, OriginInv, Origin
  <2>1. plan[p].type = "MONTH_ROLLOVER"
    BY <1>1, <1>3, <1>5, KnownEvent
  <2>2. plan[p].after.start # control.period.start
    <3>1. control.period \in Period
      BY DEF AccountingInv, TypeOK
    <3> QED
      BY <1>1, <1>3, <2>1, <3>1, RolloverIsLater
  <2> QED
    BY <1>3, <1>4, <1>6, <2>2 DEF Matching
<1>10. SavedControlLoads'
  BY <1>6 DEF OriginInv, SavedControlLoads, Loadable, ValidCalendarControl
<1> QED
  BY <1>7, <1>8, <1>9, <1>10 DEF OriginInv

\* The control saved after an event has that event, and no other, behind it.
LEMMA AdvancedOrigin ==
    ASSUME AccountingInv, OriginInv, NEW p \in Runners, pc[p] = "save"
    PROVE  Matching(AdvancedControl(plan[p])) = {[event |-> plan[p], written |-> TRUE]}
<1> DEFINE file == [event |-> plan[p], written |-> TRUE]
           after == AdvancedControl(plan[p])
<1>1. /\ plan[p] \in Event /\ ValidEvent(plan[p]) /\ file \in events
      /\ file.event = plan[p] /\ file.written = TRUE /\ Committing(p)
  BY DEF OriginInv, PlanOrigin, Committing, AccountingInv, TypeOK
<1>2. plan[p].type \in {"ENROLLMENT", "MONTH_ROLLOVER"}
  BY <1>1, KnownEvent
<1>3. /\ after.period = plan[p].after
      /\ plan[p].type = "ENROLLMENT" => after.transitional = plan[p].after.reserved
      /\ plan[p].type = "MONTH_ROLLOVER" => after.transitional = NoTransition
  BY DEF AdvancedControl
<1>4. plan[p].after.reserved \in Nat /\ plan[p].after.start \in Int
  BY <1>1
<1> HIDE DEF after, file
<1>5. file \in Matching(after)
  BY <1>1, <1>2, <1>3, <1>4, RolloverEvent DEF Matching
<1>6. ASSUME NEW f \in Matching(after) PROVE f = file
  <2>1. f \in events /\ f.event \in Event /\ ValidEvent(f.event)
    BY DEF Matching, OriginInv, EventsSound, AccountingInv, TypeOK
  <2>2. f.event.type = plan[p].type /\ f.event.after.start = plan[p].after.start
    BY <1>2, <1>3, <1>4, <1>6 DEF Matching
  <2>3. MonthStart(f.event.before.start) = MonthStart(plan[p].before.start)
    <3>1. CASE plan[p].type = "ENROLLMENT"
      BY <1>1, <2>1, <2>2, <3>1, EnrollmentEvent
    <3>2. CASE plan[p].type = "MONTH_ROLLOVER"
      <4>1. /\ f.event.before.start <= control.period.start
            /\ f.event.before.start < control.period.start =>
                  f.event.after.start <= control.period.start
        BY <2>1, <2>2, <3>2 DEF OriginInv, EventsSound
      <4>2. /\ plan[p].after.start > control.period.start
            /\ plan[p].before.start = control.period.start
        BY <1>1, <1>4, <3>2, RolloverIsLater DEF AccountingInv, TypeOK
      <4>3. f.event.before.start \in Int /\ control.period.start \in Int
        BY <2>1 DEF AccountingInv, TypeOK
      <4> QED
        BY <1>4, <2>2, <4>1, <4>2, <4>3
    <3> QED
      BY <1>2, <3>1, <3>2
  <2>4. EventId(f.event) = EventId(file.event)
    BY <1>1, <2>2, <2>3 DEF EventId
  <2> QED
    BY <1>1, <2>1, <2>4 DEF OriginInv, EventsSound
<1> QED
  BY <1>5, <1>6 DEF file, after

\* An enrollment is saved: the period stays, no rollover is on file.
LEMMA OriginSaveEnrollment ==
    ASSUME AccountingInv, OriginInv, NEW p \in Runners, SaveEnrollment(p)
    PROVE  OriginInv'
<1> DEFINE file == [event |-> plan[p], written |-> TRUE]
<1>1. /\ control' = AdvancedControl(plan[p]) /\ events' = events /\ today' = today
      /\ pc[p] = "save" /\ plan[p].type = "ENROLLMENT" /\ Committing(p)
  BY DEF SaveEnrollment, Committing
<1>2. plan[p] \in Event /\ ValidEvent(plan[p]) /\ file \in events /\ control.version = 1
  BY <1>1 DEF OriginInv, PlanOrigin, AccountingInv, TypeOK
<1>3. \A q \in Runners : pc'[q] = "idle"
  BY <1>1 DEF SaveEnrollment, Leave, AccountingInv, TypeOK, Exclusive
<1>4. SavedControlLoads'
  BY <1>1, <1>2, AdvancedLoads DEF SavedControlLoads, Loadable, ValidCalendarControl
<1>5. EventsSound'
  BY <1>1, <1>2 DEF OriginInv, EventsSound
<1>6. Matching(control)' = {file}
  BY <1>1, AdvancedOrigin DEF Matching
<1>7. Origin' /\ PlanOrigin'
  BY <1>1, <1>2, <1>3, <1>6 DEF Origin, PlanOrigin, Committing
<1> QED
  BY <1>4, <1>5, <1>7 DEF OriginInv

\* A rollover is saved: every rollover on file now leads here or to an earlier month.
LEMMA OriginSaveRollover ==
    ASSUME AccountingInv, OriginInv, NEW p \in Runners, SaveRollover(p)
    PROVE  OriginInv'
<1> DEFINE file == [event |-> plan[p], written |-> TRUE]
<1>1. /\ control' = AdvancedControl(plan[p]) /\ events' = events /\ today' = today
      /\ pc[p] = "save" /\ plan[p].type = "MONTH_ROLLOVER" /\ Committing(p)
      /\ pc' = [pc EXCEPT ![p] = "working"]
  BY DEF SaveRollover, Committing
<1>2. plan[p] \in Event /\ PlanOrigin!(p) /\ file \in events
  BY <1>1 DEF OriginInv, PlanOrigin, AccountingInv, TypeOK
<1>3. \A q \in Runners : pc'[q] \notin {"publish", "write", "save"}
  <2> SUFFICES ASSUME NEW q \in Runners
               PROVE  pc'[q] \notin {"publish", "write", "save"}
    OBVIOUS
  <2>1. pc \in [Runners -> PCs] /\ (pc[q] # "idle" => lock = q) /\ lock = p
    BY <1>1 DEF AccountingInv, TypeOK, Exclusive
  <2>2. CASE q = p
    BY <1>1, <2>1, <2>2
  <2>3. CASE q # p
    BY <1>1, <2>1, <2>3
  <2> QED
    BY <2>2, <2>3
<1>4. SavedControlLoads'
  BY <1>1, <1>2, AdvancedLoads DEF SavedControlLoads, Loadable, ValidCalendarControl
<1>5. control'.version = 2 /\ control'.period = plan[p].after
  BY <1>1 DEF AdvancedControl
<1>6. plan[p].after.start >= control.period.end /\ control.period.end > control.period.start
      /\ control.period \in Period /\ plan[p].after.start \in Int
  BY <1>1, <1>2, RolloverIsLater DEF AccountingInv, TypeOK
<1>7. EventsSound'
  BY <1>1, <1>2, <1>5, <1>6 DEF OriginInv, EventsSound, AccountingInv, TypeOK
<1>8. Matching(control)' = {file}
  BY <1>1, AdvancedOrigin DEF Matching
<1>9. Origin' /\ PlanOrigin'
  BY <1>1, <1>2, <1>3, <1>8 DEF Origin, PlanOrigin, Committing
<1> QED
  BY <1>4, <1>7, <1>9 DEF OriginInv

\* A reservation changes the reserved count only, and stays within the allowance.
LEMMA OriginReserve ==
    ASSUME AccountingInv, OriginInv, NEW p \in Runners, NEW count \in 1 .. MaxReserve,
           Reserve(p, count)
    PROVE  OriginInv'
<1>1. /\ pc[p] = "working" /\ lock = p /\ mem[p] = control /\ count \in Nat
      /\ control \in Control /\ control.period \in Period
  BY BudgetConstants DEF BudgetConstants, Reserve, AccountingInv, TypeOK, Exclusive, Coherent
<1>2. control' = Charged(control, count) /\ UNCHANGED <<events, today>>
  BY <1>1 DEF Reserve
<1>3. /\ control'.version = control.version /\ control'.transitional = control.transitional
      /\ control'.period.start = control.period.start /\ control'.period.end = control.period.end
      /\ control'.period.allowance = control.period.allowance
      /\ control'.period.reserved = control.period.reserved + count
  BY <1>1, <1>2, ChargedType
<1>4. control.period.reserved + count <= control.period.allowance
  BY <1>1 DEF Reserve, MayReserve
<1>5. \A q \in Runners : pc'[q] \notin {"publish", "write", "save"}
  BY <1>1 DEF Reserve, AccountingInv, TypeOK, Exclusive
<1>6. SavedControlLoads'
  BY <1>1, <1>3, <1>4, BudgetConstants DEF SavedControlLoads, Loadable, ValidCalendarControl, OriginInv,
     BudgetConstants
<1>7. Matching(control)' = Matching(control)
  BY <1>2, <1>3 DEF Matching
<1>8. EventsSound' /\ Origin' /\ PlanOrigin'
  BY <1>2, <1>3, <1>5, <1>7 DEF OriginInv, EventsSound, Origin, PlanOrigin, Committing
<1> QED
  BY <1>6, <1>8 DEF OriginInv

\* Every step keeps one event behind the saved period and a control that loads.
LEMMA OriginStep == AccountingInv /\ OriginInv /\ [Next]_vars => OriginInv'
<1> SUFFICES ASSUME AccountingInv, OriginInv, [Next]_vars PROVE OriginInv'
  OBVIOUS
<1>1. today \in Nat
  BY DEF AccountingInv, TypeOK
<1>2. ASSUME NEW p \in Runners, StartRun(p) PROVE OriginInv'
  BY <1>1, <1>2, OriginUndisturbed DEF StartRun, Observed, AccountingInv, TypeOK
<1>3. ASSUME NEW p \in Runners, Rolling(p) PROVE OriginInv'
  <2>1. CASE RolloverRejected(p)
    BY <2>1, OriginLeave DEF RolloverRejected, RolloverDue, AccountingInv, Exclusive
  <2>2. CASE RolloverNotNeeded(p)
    BY <1>1, <2>2, OriginUndisturbed DEF RolloverNotNeeded, AccountingInv, TypeOK
  <2> QED
    BY <1>3, <2>1, <2>2, OriginRollover DEF Rolling
<1>4. ASSUME NEW p \in Runners, Publishing(p) PROVE OriginInv'
  <2>1. CASE ExistingEventRejected(p)
    BY <2>1, OriginLeave DEF ExistingEventRejected, AccountingInv, Exclusive
  <2> QED
    BY <1>4, <2>1, OriginCreate, OriginExisting, OriginWrite, OriginSaveEnrollment,
       OriginSaveRollover DEF Publishing
<1>5. ASSUME NEW p \in Runners, WriteFails(p) PROVE OriginInv'
  BY <1>5, OriginLeave DEF WriteFails, AccountingInv, Exclusive
<1>6. ASSUME NEW p \in Runners, SendRequest(p) PROVE OriginInv'
  BY <1>1, <1>6, OriginUndisturbed DEF SendRequest, AccountingInv, Coherent
<1>7. ASSUME NEW p \in Runners, EndBatch(p) PROVE OriginInv'
  BY <1>1, <1>7, OriginUndisturbed DEF EndBatch, AccountingInv, TypeOK
<1>8. ASSUME NEW p \in Runners, EndRun(p) \/ Crash(p) PROVE OriginInv'
  BY <1>8, OriginLeave DEF EndRun, Crash, AccountingInv, Exclusive
<1>9. CASE Tick
  BY <1>1, <1>9, OriginUndisturbed DEF Tick
<1>10. CASE UNCHANGED vars
  BY <1>1, <1>10, OriginUndisturbed DEF vars
<1> QED
  BY <1>2, <1>3, <1>4, <1>5, <1>6, <1>7, <1>8, <1>9, <1>10, OriginInitialize,
     OriginEnrollment, OriginReserve DEF Next

\* The event invariant holds in every reachable state.
THEOREM OriginInvariant == Spec => []OriginInv
BY AccountingInvariant, OriginInit, OriginStep, PTL DEF Spec

-----------------------------------------------------------------------------
(* What is saved, loads again and is explained                                *)

\* control.json keeps its type, loads again, and an enrolled period has exactly one
\* published event behind it, whatever crashed or failed before.
THEOREM SoundControl == Spec => []ControlStaysSound
<1>1. AccountingInv /\ OriginInv => ControlStaysSound
  BY FS_Singleton DEF OriginInv, Origin, AccountingInv, ControlStaysSound, PeriodHasOneOrigin
<1> QED
  BY <1>1, AccountingInvariant, OriginInvariant, PTL

-----------------------------------------------------------------------------
(* What a saved charge becomes                                                *)

\* A step that saves a control leaves the period's charges in place or moves to a
\* later period.
LEMMA ChargesStay ==
    ASSUME AccountingInv, OriginInv, Next, control.version # 0
    PROVE  \/ /\ control'.period.start = control.period.start
              /\ control'.period.reserved >= control.period.reserved
           \/ /\ control'.period.start >= control.period.end
              /\ control'.version >= control.version
<1> DEFINE Stay == /\ control'.period.start = control.period.start
                   /\ control'.period.reserved >= control.period.reserved
           Move == /\ control'.period.start >= control.period.end
                   /\ control'.version >= control.version
<1>1. control \in Control /\ control.period \in Period
  BY DEF AccountingInv, TypeOK
<1>2. control' = control => Stay
  BY <1>1
<1>3. ASSUME NEW start \in Days, NEW end \in Days, NEW allowance \in PilotAllowances,
             InitializePeriod(start, end, allowance)
      PROVE  Move
  BY <1>1, <1>3 DEF InitializePeriod
<1>4. ASSUME NEW p \in Runners, SaveEnrollment(p) PROVE Stay
  <2>1. plan[p] \in Event /\ ValidEvent(plan[p]) /\ plan[p].type = "ENROLLMENT"
        /\ plan[p].before = control.period
    BY <1>4 DEF SaveEnrollment, Committing, OriginInv, PlanOrigin, AccountingInv, TypeOK
  <2>2. control'.period = plan[p].after
    BY <1>4 DEF SaveEnrollment, AdvancedControl
  <2> QED
    BY <1>1, <2>1, <2>2, EnrollmentEvent
<1>5. ASSUME NEW p \in Runners, SaveRollover(p) PROVE Move
  BY <1>1, <1>5, RolloverIsLater DEF SaveRollover, Committing, AdvancedControl
<1>6. ASSUME NEW p \in Runners, NEW count \in 1 .. MaxReserve, Reserve(p, count) PROVE Stay
  <2>1. mem[p] = control /\ count \in Nat
    BY <1>6, BudgetConstants DEF BudgetConstants, Reserve, AccountingInv, Coherent
  <2>2. control' = Charged(control, count)
    BY <1>6, <2>1 DEF Reserve
  <2>3. /\ control'.period.start = control.period.start
        /\ control'.period.reserved = control.period.reserved + count
    BY <1>1, <2>1, <2>2, ChargedType
  <2> QED
    BY <1>1, <2>1, <2>3
<1>7. ASSUME NEW p \in Runners, SendRequest(p) PROVE Stay
  BY <1>2, <1>7 DEF SendRequest, AccountingInv, Coherent
<1>8. ASSUME NEW p \in Runners, Rolling(p) PROVE Stay
  BY <1>2, <1>8 DEF Rolling, RolloverRejected, RolloverNotNeeded, RolloverBegins
<1>9. ASSUME NEW p \in Runners, Publishing(p) PROVE Stay \/ Move
  BY <1>2, <1>4, <1>5, <1>9 DEF Publishing, CreateEvent, ExistingEventAccepted,
     ExistingEventRejected, WriteEvent
<1>10. ASSUME NEW p \in Runners,
              StartRun(p) \/ StartEnrollment(p) \/ WriteFails(p) \/ EndBatch(p)
                  \/ EndRun(p) \/ Crash(p)
       PROVE  Stay
  BY <1>2, <1>10 DEF StartRun, StartEnrollment, WriteFails, EndBatch, EndRun, Crash
<1>11. Tick => Stay
  BY <1>2 DEF Tick
<1> QED
  BY <1>3, <1>6, <1>7, <1>8, <1>9, <1>10, <1>11 DEF Next

\* "Crashes can waste allowance, never refund it": no step of run_once, of the
\* enrollment, of a rollover or of a crash lowers what a period was charged.
THEOREM NoRefund == Spec => NeverRefunded
<1>1. AccountingInv /\ OriginInv /\ [Next]_vars =>
          [control.version # 0 =>
             \/ /\ control'.period.start = control.period.start
                /\ control'.period.reserved >= control.period.reserved
             \/ /\ control'.period.start >= control.period.end
                /\ control'.version >= control.version]_vars
  BY ChargesStay
<1> QED
  BY <1>1, AccountingInvariant, OriginInvariant, PTL DEF Spec, NeverRefunded

-----------------------------------------------------------------------------
(* What one month can send                                                    *)

LEMMA MonthInit == Init => MonthInv
BY DEF Init, MonthInv

\* A step within the day that leaves what was sent and saved, and starts no batch.
LEMMA MonthUndisturbed ==
    ASSUME MonthInv, UNCHANGED <<today, control, monthSent, wholeMonth>>,
           \A q \in Runners : pc'[q] = "requesting" =>
               pc[q] = "requesting" /\ guard'[q] = guard[q]
    PROVE  MonthInv'
BY DEF MonthInv, ChargedThisMonth, Covers

\* An ended invocation has no batch.
LEMMA MonthLeave ==
    ASSUME AccountingInv, MonthInv, NEW p \in Runners, Leave(p),
           UNCHANGED <<today, control, monthSent, wholeMonth>>
    PROVE  MonthInv'
BY MonthUndisturbed DEF Leave, AccountingInv, TypeOK

\* A batch is charged to the saved period, which covers today.
LEMMA MonthReserve ==
    ASSUME AccountingInv, MonthInv, NEW p \in Runners, NEW count \in 1 .. MaxReserve,
           Reserve(p, count)
    PROVE  MonthInv'
<1>1. /\ mem[p] = control /\ lock = p /\ count \in Nat /\ count <= MaxReserve
      /\ control \in Control /\ control.period \in Period
  BY BudgetConstants DEF BudgetConstants, Reserve, AccountingInv, TypeOK, Exclusive, Coherent
<1>2. control' = Charged(control, count) /\ Covers(control.period, today)
      /\ UNCHANGED <<today, monthSent, wholeMonth>>
  BY <1>1 DEF Reserve, MayReserve, Observed
<1>3. /\ control'.version = control.version /\ control'.period.start = control.period.start
      /\ control'.period.end = control.period.end
  BY <1>1, <1>2, ChargedType
<1>4. control'.period.reserved = control.period.reserved + count
  BY <1>1, <1>2, ChargedType
<1>5. ChargedThisMonth' = ChargedThisMonth + count
  BY <1>1, <1>2, <1>3, <1>4 DEF ChargedThisMonth, Covers
<1>6. \A q \in Runners : pc'[q] = "requesting" => q = p
  BY <1>1 DEF Reserve, AccountingInv, TypeOK, Exclusive
<1>7. guard'[p].tokens = count
  BY <1>1 DEF Reserve, AccountingInv, TypeOK
<1>8. ChargedThisMonth \in Nat /\ monthSent \in Nat /\ MaxReserve \in Nat
  BY <1>1, BudgetConstants DEF BudgetConstants, ChargedThisMonth, AccountingInv, TypeOK
<1> QED
  BY <1>1, <1>2, <1>3, <1>5, <1>6, <1>7, <1>8 DEF MonthInv

\* A request uses one token of the batch it belongs to.
LEMMA MonthSend ==
    ASSUME AccountingInv, MonthInv, NEW p \in Runners, SendRequest(p)
    PROVE  MonthInv'
<1>1. control' = control /\ lock = p /\ UNCHANGED <<today, pc, wholeMonth>>
      /\ monthSent' = monthSent + 1 /\ pc[p] = "requesting"
  BY DEF SendRequest, AccountingInv, TypeOK, Exclusive, Coherent
<1>2. guard[p] \in [reserved: Nat, tokens: Nat] /\ guard[p].tokens > 0
  BY DEF SendRequest, AccountingInv, TypeOK
<1>3. guard'[p].tokens = guard[p].tokens - 1
  BY <1>2 DEF SendRequest, AccountingInv, TypeOK
<1>4. \A q \in Runners : pc[q] = "requesting" => q = p
  BY <1>1 DEF AccountingInv, Exclusive
<1>5. ChargedThisMonth' = ChargedThisMonth
  BY <1>1 DEF ChargedThisMonth, Covers
<1>6. ChargedThisMonth \in Nat /\ monthSent \in Nat /\ MaxReserve \in Nat
  BY BudgetConstants DEF BudgetConstants, ChargedThisMonth, AccountingInv, TypeOK
<1> QED
  BY <1>1, <1>2, <1>3, <1>4, <1>5, <1>6 DEF MonthInv

\* A period that is left was over: nothing of it counted for today.
LEMMA MonthRollover ==
    ASSUME AccountingInv, OriginInv, MonthInv, NEW p \in Runners, SaveRollover(p)
    PROVE  MonthInv'
<1>1. /\ plan[p].type = "MONTH_ROLLOVER" /\ Committing(p) /\ plan[p] \in Event
      /\ UNCHANGED <<today, monthSent, wholeMonth>>
      /\ control'.version = 2 /\ control'.period = plan[p].after
  BY DEF SaveRollover, Committing, AdvancedControl, AccountingInv, TypeOK
<1>2. plan[p].after.start <= today /\ today \in Nat /\ plan[p].after \in Period
      /\ control.period \in Period /\ monthSent \in Nat /\ MaxReserve \in Nat
  BY <1>1, BudgetConstants DEF BudgetConstants, OriginInv, PlanOrigin, AccountingInv, TypeOK
<1>3. ~Covers(control.period, today)
  BY <1>1, <1>2, RolloverIsLater DEF Covers
<1>4. ChargedThisMonth = 0 /\ ChargedThisMonth' \in Nat
  BY <1>1, <1>2, <1>3 DEF ChargedThisMonth
<1>5. lock = p /\ pc' = [pc EXCEPT ![p] = "working"]
  BY DEF SaveRollover, AccountingInv, Exclusive
<1>6. \A q \in Runners : pc'[q] # "requesting"
  <2> SUFFICES ASSUME NEW q \in Runners PROVE pc'[q] # "requesting"
    OBVIOUS
  <2>1. pc \in [Runners -> PCs] /\ (pc[q] # "idle" => lock = q)
    BY DEF AccountingInv, TypeOK, Exclusive
  <2>2. CASE q = p
    BY <1>5, <2>1, <2>2
  <2>3. CASE q # p
    BY <1>5, <2>1, <2>3
  <2> QED
    BY <2>2, <2>3
<1> QED
  <2>1. wholeMonth' => monthSent' <= MaxReserve + ChargedThisMonth'
    BY <1>1, <1>2, <1>4 DEF MonthInv
  <2> QED
    BY <1>1, <1>6, <2>1 DEF MonthInv

\* An enrolled period ends with a month: within a month it is not left, and the first
\* day of a month starts a count of its own.
LEMMA MonthTick ==
    ASSUME AccountingInv, OriginInv, MonthInv, Tick
    PROVE  MonthInv'
<1>1. /\ today \in Nat /\ monthSent \in Nat /\ MaxReserve \in Nat
      /\ control \in Control /\ control.period \in Period
      /\ guard \in [Runners -> [reserved: Nat, tokens: Nat]]
      /\ today' = today + 1 /\ UNCHANGED <<control, pc, guard>>
  BY BudgetConstants DEF BudgetConstants, Tick, AccountingInv, TypeOK
<1>2. CASE MonthStart(today + 1) = today + 1
  <2>1. monthSent' = 0 /\ wholeMonth' = (control.version = 2)
    BY <1>2 DEF Tick
  <2>2. ChargedThisMonth' \in Nat
    BY <1>1 DEF ChargedThisMonth
  <2>3. \A q \in Runners : pc[q] = "requesting" =>
            guard[q].tokens <= MaxReserve /\ guard[q].tokens \in Nat
    BY <1>1 DEF MonthInv
  <2>4. /\ wholeMonth' => control'.version = 2
        /\ monthSent' <= MaxReserve + ChargedThisMonth'
        /\ \A q \in Runners : pc'[q] = "requesting" =>
              /\ guard'[q].tokens <= MaxReserve
              /\ monthSent' + guard'[q].tokens <= MaxReserve + ChargedThisMonth'
    <3>1. wholeMonth' => control'.version = 2
      BY <1>1, <2>1
    <3>2. monthSent' <= MaxReserve + ChargedThisMonth'
      BY <1>1, <2>1, <2>2 DEF ChargedThisMonth
    <3> SUFFICES ASSUME NEW q \in Runners, pc'[q] = "requesting"
                 PROVE  /\ guard'[q].tokens <= MaxReserve
                        /\ monthSent' + guard'[q].tokens <= MaxReserve + ChargedThisMonth'
      BY <3>1, <3>2
    <3>3. guard[q].tokens \in Nat /\ guard[q].tokens <= MaxReserve /\ guard'[q] = guard[q]
      BY <1>1, <2>3
    <3> QED
      BY <1>1, <2>1, <2>2, <3>3
  <2> QED
    BY <2>4 DEF MonthInv
<1>3. CASE MonthStart(today + 1) # today + 1
  <2>1. UNCHANGED <<monthSent, wholeMonth>>
    BY <1>3 DEF Tick
  <2>2. ASSUME control.version = 2, Covers(control.period, today)
        PROVE  Covers(control.period, today)'
    BY <1>1, <1>3, <2>2, MonthBounds DEF OriginInv, SavedControlLoads, Loadable, ValidCalendarControl, Covers
  <2>3. control.version = 2 => ChargedThisMonth' >= ChargedThisMonth
    BY <1>1, <2>2 DEF ChargedThisMonth, Covers
  <2>4. ChargedThisMonth \in Nat /\ ChargedThisMonth' \in Nat
    BY <1>1 DEF ChargedThisMonth
  <2>5. \A q \in Runners : pc'[q] = "requesting" => guard'[q].tokens <= MaxReserve
    BY <1>1 DEF MonthInv
  <2>6. wholeMonth' =>
          /\ control'.version = 2
          /\ monthSent' <= MaxReserve + ChargedThisMonth'
          /\ \A q \in Runners : pc'[q] = "requesting" =>
                monthSent' + guard'[q].tokens <= MaxReserve + ChargedThisMonth'
    BY <1>1, <2>1, <2>3, <2>4 DEF MonthInv, ChargedThisMonth
  <2> QED
    BY <2>5, <2>6 DEF MonthInv
<1> QED
  BY <1>2, <1>3

LEMMA MonthStep == AccountingInv /\ OriginInv /\ MonthInv /\ [Next]_vars => MonthInv'
<1> SUFFICES ASSUME AccountingInv, OriginInv, MonthInv, [Next]_vars PROVE MonthInv'
  OBVIOUS
<1>1. ASSUME NEW start \in Days, NEW end \in Days, NEW allowance \in PilotAllowances,
             InitializePeriod(start, end, allowance)
      PROVE  MonthInv'
  BY <1>1 DEF InitializePeriod, MonthInv
<1>2. ASSUME NEW p \in Runners, StartRun(p) \/ StartEnrollment(p) PROVE MonthInv'
  BY <1>2, MonthUndisturbed DEF StartRun, StartEnrollment, Observed, AccountingInv, TypeOK
<1>3. ASSUME NEW p \in Runners, Rolling(p) PROVE MonthInv'
  BY <1>3, MonthUndisturbed, MonthLeave DEF Rolling, RolloverRejected, RolloverNotNeeded,
     RolloverBegins, Observed, AccountingInv, TypeOK
<1>4. ASSUME NEW p \in Runners, Publishing(p) PROVE MonthInv'
  <2>1. CASE SaveEnrollment(p)
    <3>1. control.version = 1 /\ UNCHANGED <<wholeMonth>>
      BY <2>1 DEF SaveEnrollment, Committing, OriginInv, PlanOrigin, Observed
    <3>2. \A q \in Runners : pc'[q] = "requesting" =>
              pc[q] = "requesting" /\ guard'[q] = guard[q]
      BY <2>1 DEF SaveEnrollment, Leave, AccountingInv, TypeOK
    <3> QED
      BY <3>1, <3>2 DEF MonthInv
  <2>2. CASE ExistingEventRejected(p)
    BY <2>2, MonthLeave DEF ExistingEventRejected, Observed
  <2>3. CASE CreateEvent(p) \/ ExistingEventAccepted(p) \/ WriteEvent(p)
    BY <2>3, MonthUndisturbed DEF CreateEvent, ExistingEventAccepted, WriteEvent, Observed,
       AccountingInv, TypeOK
  <2> QED
    BY <1>4, <2>1, <2>2, <2>3, MonthRollover DEF Publishing
<1>5. ASSUME NEW p \in Runners, WriteFails(p) \/ EndRun(p) \/ Crash(p) PROVE MonthInv'
  BY <1>5, MonthLeave DEF WriteFails, EndRun, Crash, Observed
<1>6. ASSUME NEW p \in Runners, EndBatch(p) PROVE MonthInv'
  BY <1>6, MonthUndisturbed DEF EndBatch, Observed, AccountingInv, TypeOK
<1>7. CASE UNCHANGED vars
  BY <1>7, MonthUndisturbed DEF vars
<1> QED
  BY <1>1, <1>2, <1>3, <1>4, <1>5, <1>6, <1>7, MonthReserve, MonthSend, MonthTick DEF Next

\* A month that began enrolled sends at most one batch more than its allowance, the
\* one that was on its way when the month began.
THEOREM BoundedOvershoot == Spec => []MonthlyOvershootBounded
<1>1. AccountingInv /\ OriginInv /\ MonthInv => MonthlyOvershootBounded
  <2> SUFFICES ASSUME AccountingInv, OriginInv, MonthInv, wholeMonth
               PROVE  monthSent <= MonthlyAllowance + MaxReserve
    BY DEF MonthlyOvershootBounded
  <2>1. control.version = 2 /\ monthSent <= MaxReserve + ChargedThisMonth
    BY DEF MonthInv
  <2>2. control.period.reserved <= MonthlyAllowance /\ control.period.reserved \in Nat
    BY <2>1 DEF OriginInv, SavedControlLoads, Loadable, ValidCalendarControl,
       AccountingInv, TypeOK
  <2>3. monthSent \in Nat /\ MaxReserve \in Nat /\ MonthlyAllowance \in Nat
    BY BudgetConstants DEF BudgetConstants, AccountingInv, TypeOK
  <2> QED
    BY <2>1, <2>2, <2>3 DEF ChargedThisMonth
<1> QED
  BY <1>1, MonthInit, MonthStep, AccountingInvariant, OriginInvariant, PTL DEF Spec

-----------------------------------------------------------------------------
(* The collector that spends this budget.                                    *)

HIDE DEF Period, Control, Event, EventFile, PCs, Free, NoTransition

CONSTANTS
    Fixtures, Schedules, Times, Saturday, FridayReview, ManualEarly, Allowance,
    EarlierReserved, WeekendLimit, SaturdayReserve, MidweekReserve,
    SaturdayLimit, AfternoonLimit, RunTimeout, MaxCrashes, MaxManual

VARIABLES
    now, schedule, discovery, attempts, weekend, reserved, observed, captures,
    run, crashes, manuals, quoted, phases, late, starved

C == INSTANCE ProspectiveCollector

-----------------------------------------------------------------------------
\* The collector counts its sets as the library does.
LEMMA CountsAgree ==
    \A S : /\ C!IsFiniteSet(S) <=> IsFiniteSet(S)
           /\ C!Cardinality(S) = Cardinality(S)
BY Zenon DEF C!IsFiniteSet, IsFiniteSet, C!Cardinality, Cardinality

\* Where a run stands: at one fixture, or anywhere.
AtFixture == {"recheck", "reserve", "attempt", "quote", "assess", "captured"}
Pcs == {"idle", "cohort", "discover", "record", "query", "cached", "pick"} \cup AtFixture

\* What the control holds: a cohort, a discovery and the attempt of a fixture.
Phases == {"morning", "afternoon", "near_kickoff", "manual_early"}
Cohorts == [slot : {"none", "morning", "afternoon"}, day : Int, phase : Phases \cup {"none"},
            key : C!Keys, weekend : BOOLEAN, hold : BOOLEAN, retry : BOOLEAN, at : Nat]
Discoveries == [day : Int, status : {"NONE", "RESERVED", "DONE", "FAILED"},
                kickoffs : [Fixtures -> Nat], queries : Nat, at : Nat]
Attempts == [count : Nat,
             state : {"NONE", "RESERVED", "NO_TEAM_TOTAL", "DONE", "REVIEW", "HISTORY"},
             at : Nat, kickoff : Nat, phase : Phases \cup {"none"}, phaseAttempts : Nat]

\* The control, the run and the evidence have their types; the evidence is finite.
ControlTyped ==
    /\ now \in Times
    /\ schedule \in [Fixtures -> Nat] /\ \A f \in Fixtures : schedule[f] \in Schedules[f]
    /\ discovery \in [C!Keys -> Discoveries]
    /\ attempts \in [Fixtures -> Attempts]
    /\ weekend \in Nat \cup {-1} /\ reserved \in Nat
RunTyped ==
    /\ DOMAIN run = DOMAIN C!Idle
    /\ run.pc \in Pcs
    /\ run.cohort \in Cohorts
    /\ run.todo \in SUBSET Fixtures
    /\ run.spent \in Nat
    /\ run.pc \in AtFixture => run.fixture \in Fixtures
EvidenceTyped ==
    /\ DOMAIN observed = Fixtures /\ DOMAIN captures = Fixtures
    /\ \A f \in Fixtures : IsFiniteSet(observed[f]) /\ IsFiniteSet(captures[f])
    /\ quoted \in [Fixtures -> Nat] /\ manuals \in Nat

\* Every variable of the collector keeps its type.
Typed == ControlTyped /\ RunTyped /\ EvidenceTyped

\* What _load demands of the control, and what keeps a third acquisition of a
\* fixture, or one of a fixture already observed twice, from being reserved.
Loads ==
    /\ \A f \in Fixtures : /\ attempts[f].count <= 2
                           /\ attempts[f].phase # "none" => attempts[f].phaseAttempts >= 1
                           /\ attempts[f].phaseAttempts <= attempts[f].count
    /\ \A k \in C!Keys : discovery[k].day # -1 => discovery[k].queries \in {1, 2}
    /\ weekend <= WeekendLimit /\ reserved <= Allowance
    /\ run.pc \in {"recheck", "reserve", "attempt"} => attempts[run.fixture].count <= 1
    /\ run.pc \in {"reserve", "attempt"} => C!ObservationCount(run.fixture) <= 1

\* An acquisition is in the attempts before it is sent.
Recorded ==
    /\ \A f \in Fixtures : quoted[f] <= attempts[f].count
    /\ run.pc = "quote" => quoted[run.fixture] < attempts[run.fixture].count

\* A run works on fixtures of the listing it cached, and after the recheck the
\* kickoff it read there is the one the attempt of the fixture was made for.
CacheIsCurrent ==
    /\ run.pc \in {"pick"} \cup AtFixture => run.todo \subseteq C!Listed(discovery[run.cohort.key])
    /\ run.pc \in AtFixture => C!Cached(run.fixture) # 0
    /\ run.pc \in {"recheck", "reserve", "attempt"} => ~C!KickoffChanged(run.fixture)

\* The evidence of a fixture has the one kickoff its attempt keeps.
OneKickoff ==
    /\ \A f \in Fixtures : \A o \in C!Companions(f) : C!Attempted(f) /\ o.kickoff = attempts[f].kickoff
    /\ \A f \in Fixtures : C!Attempted(f) => attempts[f].kickoff # 0
    /\ run.pc = "quote" => C!Attempted(run.fixture) /\ attempts[run.fixture].kickoff = C!Cached(run.fixture)
    /\ run.pc \in {"assess", "captured"} => \E o \in observed[run.fixture] : o.n = run.quote

\* Only the weekend policies keep the kickoff, and only a run respects it.
Readable == (FridayReview /\ manuals = 0) => OneKickoff

\* The gate of the slot is asked again before the request leaves.
OnTime == CalendarGate => ~late

\* The inductive invariant of the collector.
CInv == Typed /\ Loads /\ Recorded /\ CacheIsCurrent /\ Readable /\ OnTime

\* A non-empty set of naturals has a least element.
LEMMA LeastNatural ==
    ASSUME NEW S, S \subseteq Nat, S # {}
    PROVE  \E x \in S : \A y \in S : x <= y
<1>1. \E x \in S : \A y \in S : ~(<<y, x>> \in OpToRel(<, Nat))
  BY NatLessThanWellFounded, WFMin
<1>2. \A x, y \in S : ~(<<y, x>> \in OpToRel(<, Nat)) => x <= y
  BY SMT DEF OpToRel
<1> QED
  BY <1>1, <1>2

\* Min of a set of naturals is its least element.
LEMMA MinOfNaturals ==
    ASSUME NEW S, S \subseteq Nat, S # {}
    PROVE  C!Min(S) \in S /\ \A y \in S : C!Min(S) <= y
BY LeastNatural DEF C!Min

\* A finite number of fixtures with finite counts have finitely many acquisitions.
LEMMA CountedFinite ==
    ASSUME NEW F, IsFiniteSet(F), NEW count, \A f \in F : count[f] \in Nat
    PROVE  IsFiniteSet(C!Counted(count, F)) /\ Cardinality(C!Counted(count, F)) \in Nat
<1> DEFINE part == [f \in F |-> {f} \X (1 .. count[f])]
           parts == {{f} \X (1 .. count[f]) : f \in F}
<1>1. part \in Surjection(F, parts)
  BY DEF Surjection
<1>2. IsFiniteSet(parts)
  BY <1>1, FS_Surjection
<1>3. \A f \in F : IsFiniteSet({f} \X (1 .. count[f]))
  <2>1. ASSUME NEW f \in F PROVE IsFiniteSet({f} \X (1 .. count[f]))
    <3>1. count[f] \in Int
      BY <2>1
    <3>2. IsFiniteSet({f})
      BY FS_Singleton
    <3>3. IsFiniteSet(1 .. count[f])
      BY <3>1, FS_Interval
    <3> QED
      BY <3>2, <3>3, FS_Product
  <2> QED
    BY <2>1
<1>4. IsFiniteSet(UNION parts)
  BY <1>2, <1>3, FS_UNION
<1> QED
  BY <1>4, FS_CardinalityType DEF C!Counted

\* What a run holds that ended, or that goes on to its next cohort.
LEMMA RunEnds ==
    ASSUME C!EndRun
    PROVE  RunTyped' /\ run'.pc = "idle" /\ run'.cohort = C!NoCohort
BY DEF C!EndRun, C!Idle, RunTyped, Pcs, AtFixture, Cohorts, C!NoCohort, C!Keys, Phases

\* The run leaves its cohort.
LEMMA CohortEnds ==
    ASSUME RunTyped, C!NextCohort
    PROVE  RunTyped' /\ run'.pc = "cohort" /\ run'.cohort = C!NoCohort
<1>1. DOMAIN run = DOMAIN C!Idle
  BY DEF RunTyped
<1>2. DOMAIN C!Idle = {"pc", "began", "stages", "planned", "cohort", "captured", "todo", "selected",
                    "fixture", "initial", "spent", "metadata", "quote"}
  BY DEF C!Idle
<1>3. run'.pc = "cohort" /\ run'.cohort = C!NoCohort /\ run'.todo = {} /\ run'.spent = run.spent
  BY <1>1, <1>2 DEF C!NextCohort
<1>4. DOMAIN run' = DOMAIN run
  BY DEF C!NextCohort
<1>5. C!NoCohort \in Cohorts
  BY DEF C!NoCohort, Cohorts, C!Keys, Phases
<1> QED
  BY <1>1, <1>3, <1>4, <1>5 DEF RunTyped, Pcs, AtFixture, C!Idle

\* A run that stops leaves the state as it was.
LEMMA StopPreserves ==
    ASSUME CInv, RunTyped', run'.pc \in {"idle", "cohort"},
           UNCHANGED <<now, schedule, C!control, C!evidence, manuals, quoted, late>>
    PROVE  CInv'
<1>1. Typed'
  BY DEF CInv, Typed, ControlTyped, EvidenceTyped, C!control, C!evidence
<1>2. Loads'
  BY DEF CInv, Loads, C!control, C!evidence
<1>3. Recorded'
  BY DEF CInv, Recorded, C!control, C!evidence
<1>4. CacheIsCurrent' /\ Readable'
  BY DEF CInv, CacheIsCurrent, Readable, OneKickoff, C!Companions, C!Attempted, AtFixture, C!control, C!evidence
<1>5. OnTime'
  BY DEF CInv, OnTime
<1> QED
  BY <1>1, <1>2, <1>3, <1>4, <1>5 DEF CInv

\* A run has the fields of an idle one.
LEMMA RunFields ==
    ASSUME RunTyped
    PROVE  DOMAIN run = {"pc", "began", "stages", "planned", "cohort", "captured", "todo",
                         "selected", "fixture", "initial", "spent", "metadata", "quote"}
BY DEF RunTyped, C!Idle

\* The evidence of a fixture is finite, and counted by a natural number.
LEMMA EvidenceCounted ==
    ASSUME EvidenceTyped, NEW f \in Fixtures
    PROVE  C!ObservationCount(f) \in Nat /\ IsFiniteSet(C!Companions(f))
BY FS_CardinalityType, FS_Union, CountsAgree DEF EvidenceTyped, C!ObservationCount, C!Companions

\* What the weekend has spent is a number, estimated or saved.
LEMMA WeekendSpentType ==
    ASSUME C!CollectorConstants, ControlTyped
    PROVE  C!WeekendSpent \in Nat
<1> DEFINE cached == \E k \in C!Keys : discovery[k].day = Saturday
           ours == {f \in Fixtures : /\ C!Attempted(f)
                                     /\ IF attempts[f].kickoff # 0
                                        THEN C!Day(attempts[f].kickoff) = Saturday
                                        ELSE C!Day(attempts[f].at) \in {Saturday, Saturday - 1}}
           count == Cardinality(C!Counted(C!AttemptCount, ours))
           estimate == (IF cached THEN 2 ELSE 0) + 2 * count
<1>1. IsFiniteSet(ours)
  BY FS_Subset, CountsAgree DEF C!CollectorConstants
<1>2. \A f \in ours : C!AttemptCount[f] \in Nat
  BY DEF C!AttemptCount, ControlTyped, Attempts
<1>3. count \in Nat
  BY <1>1, <1>2, CountedFinite
<1> HIDE DEF count, cached
<1>4. estimate \in Nat /\ WeekendLimit \in Nat
  BY <1>3 DEF C!CollectorConstants
<1>5. C!Min({WeekendLimit, estimate}) \in Nat
  BY <1>4, MinOfNaturals
<1>6. C!WeekendSpent = IF weekend # -1 THEN weekend ELSE C!Min({WeekendLimit, estimate})
  BY CountsAgree DEF C!WeekendSpent, count, cached
<1> QED
  BY <1>5, <1>6 DEF ControlTyped

\* A granted reservation stays within the period and the weekend.
LEMMA ChargeLoads ==
    ASSUME C!CollectorConstants, ControlTyped, Loads, NEW count \in Nat,
           C!MayReserve(count), C!Charge(count)
    PROVE  /\ weekend' \in Nat \cup {-1} /\ weekend' <= WeekendLimit
           /\ reserved' \in Nat /\ reserved' <= Allowance
BY WeekendSpentType DEF C!MayReserve, C!WithinPeriod, C!Charge, ControlTyped, C!WithinWeekend, C!Headroom,
   C!CollectorConstants, Loads

\* The cohort that a stage works on, at any instant of the clock.
LEMMA CohortType ==
    ASSUME C!CollectorConstants, ControlTyped, NEW stage
    PROVE  C!CohortAt(stage, now) \in Cohorts
<1> DEFINE slot == IF stage = "main" /\ FridayReview THEN C!FridaySlot(now) ELSE "none"
           c == C!CohortAt(stage, now)
<1>1. now \in Nat /\ Saturday \in Int
  <2>1. Times \subseteq Nat /\ Saturday \in Nat
    BY ZenonT(20) DEF C!CollectorConstants
  <2>2. now \in Times
    BY ZenonT(20) DEF ControlTyped
  <2> QED
    BY <2>1, <2>2
<1>2. C!Day(now) \in Int
  BY <1>1 DEF C!Day
<1>3. slot \in {"none", "morning", "afternoon"}
  BY DEF C!FridaySlot
<1>4. c.slot = slot /\ c.slot \in {"none", "morning", "afternoon"} /\ c.at = now
  BY <1>3 DEF C!CohortAt
<1>5. c.day \in Int
  BY <1>1, <1>2 DEF C!CohortAt
<1>6. c.phase \in Phases
  BY <1>3 DEF C!CohortAt, Phases
<1>7. c.key \in C!Keys
  BY DEF C!CohortAt, C!Keys, C!EarlyKey
<1>8. c.weekend \in BOOLEAN /\ c.hold \in BOOLEAN /\ c.retry \in BOOLEAN
  BY DEF C!CohortAt
<1>9. c = [slot |-> c.slot, day |-> c.day, phase |-> c.phase, key |-> c.key,
           weekend |-> c.weekend, hold |-> c.hold, retry |-> c.retry, at |-> c.at]
  BY DEF C!CohortAt
<1> HIDE DEF c
<1>10. [slot |-> c.slot, day |-> c.day, phase |-> c.phase, key |-> c.key,
        weekend |-> c.weekend, hold |-> c.hold, retry |-> c.retry, at |-> c.at] \in Cohorts
  BY <1>1, <1>4, <1>5, <1>6, <1>7, <1>8 DEF Cohorts
<1>11. c \in Cohorts
  BY <1>9, <1>10
<1> QED
  BY <1>11 DEF c

\* The first fixture of a cohort's order is one of the fixtures left to do.
LEMMA FirstFixtureToDo ==
    ASSUME C!CollectorConstants, ControlTyped, RunTyped, run.todo # {}
    PROVE  C!FirstFixture \in run.todo
<1> DEFINE late1(h) == (run.cohort.phase = "afternoon" \/ run.cohort.weekend) /\ C!HasCapture(h)
           key(h) == IF late1(h) THEN 1 ELSE 0
           A == {f \in run.todo : \A g \in run.todo : key(f) <= key(g)}
           B == {f \in A : \A g \in A : C!Cached(f) <= C!Cached(g)}
<1>1. run.todo \subseteq Fixtures /\ \A f \in run.todo : f \in Nat /\ C!Cached(f) \in Nat
  <2>1. run.todo \subseteq Fixtures /\ Fixtures \subseteq Nat
    BY DEF RunTyped, C!CollectorConstants
  <2>2. discovery[run.cohort.key] \in Discoveries
    BY DEF RunTyped, ControlTyped, Cohorts
  <2>3. discovery[run.cohort.key].kickoffs \in [Fixtures -> Nat]
    BY <2>2 DEF Discoveries
  <2> QED
    BY <2>1, <2>3 DEF C!Cached
<1>2. A # {} /\ A \subseteq run.todo
  OBVIOUS
<1>3. B # {} /\ B \subseteq A
  <2>1. {C!Cached(f) : f \in A} # {} /\ {C!Cached(f) : f \in A} \subseteq Nat
    BY <1>1, <1>2
  <2>2. PICK x \in {C!Cached(f) : f \in A} : \A y \in {C!Cached(f) : f \in A} : x <= y
    BY <2>1, LeastNatural
  <2> QED
    BY <2>2
<1>4. PICK m \in B : \A y \in B : m <= y
  BY <1>1, <1>2, <1>3, LeastNatural
<1>5. ASSUME NEW g \in run.todo PROVE g = m \/ C!Before(m, g)
  <2>1. C!Before(m, g) <=> \/ key(m) < key(g)
                           \/ key(m) = key(g) /\ C!Cached(m) < C!Cached(g)
                           \/ key(m) = key(g) /\ C!Cached(m) = C!Cached(g) /\ m < g
    BY DEF C!Before
  <2>2. m \in A /\ key(m) <= key(g) /\ key(m) \in Nat /\ key(g) \in Nat
    BY <1>3, <1>4
  <2>3. C!Cached(m) \in Nat /\ C!Cached(g) \in Nat /\ m \in Nat /\ g \in Nat
    BY <1>1, <1>2, <1>3, <1>4
  <2>4. CASE key(g) = key(m)
    <3>1. g \in A
      BY <2>2, <2>4
    <3>2. C!Cached(m) <= C!Cached(g)
      BY <1>4, <3>1
    <3>3. C!Cached(m) = C!Cached(g) => m <= g
      BY <1>4, <3>1
    <3> HIDE DEF key
    <3> QED
      BY <2>1, <2>3, <2>4, <3>2, <3>3
  <2> HIDE DEF key, A
  <2> QED
    BY <2>1, <2>2, <2>4
<1> QED
  BY <1>2, <1>3, <1>4, <1>5 DEF C!FirstFixture

\* A run starts: every capture gets its observation.
LEMMA StartPreserves ==
    ASSUME C!CollectorConstants, CInv, NEW stages, NEW selected, C!StartRun(stages, selected)
    PROVE  CInv'
<1>1. RunTyped' /\ run'.pc \in {"idle", "cohort"}
  <2>1. CASE C!InventoryRejected
    BY <2>1, RunEnds DEF C!StartRun
  <2>2. CASE ~C!InventoryRejected
    <3> DEFINE known == [f \in Fixtures |-> C!Captured(f, C!Companions(f))]
               planned == IF FridayReview THEN C!FridaySlot(now) ELSE "none"
    <3>1. run' = [C!Idle EXCEPT !.pc = "cohort", !.began = now, !.stages = stages,
                              !.selected = selected, !.planned = planned, !.captured = known]
      BY <2>2 DEF C!StartRun
    <3> HIDE DEF known, planned
    <3> QED
      BY <3>1 DEF C!Idle, RunTyped, Pcs, AtFixture, Cohorts, C!NoCohort, C!Keys, Phases
  <2> QED
    BY <2>1, <2>2
<1>2. observed' = [f \in Fixtures |-> C!Companions(f)]
      /\ UNCHANGED <<now, schedule, C!control, captures, manuals, quoted, late>>
  BY DEF C!StartRun, C!observations
<1>3. Typed'
  BY <1>1, <1>2, EvidenceCounted DEF CInv, Typed, EvidenceTyped, ControlTyped, C!control
<1>4. Loads' /\ Recorded'
  BY <1>1, <1>2 DEF CInv, Loads, Recorded, C!control
<1>5. CacheIsCurrent' /\ Readable'
  BY <1>1, <1>2 DEF CInv, CacheIsCurrent, Readable, OneKickoff, C!Companions, C!Attempted, AtFixture, C!control
<1> QED
  BY <1>2, <1>3, <1>4, <1>5 DEF CInv, OnTime

\* The cohort of the next stage begins: its day, its slot and its key.
LEMMA EnterCohortPreserves ==
    ASSUME C!CollectorConstants, CInv, C!EnterCohort
    PROVE  CInv'
<1>1. UNCHANGED <<now, schedule, C!control, C!evidence, manuals, quoted, late>>
  BY DEF C!EnterCohort, C!observations
<1>2. CASE C!NextCohort
  BY <1>1, <1>2, CohortEnds, StopPreserves DEF CInv, Typed
<1>3. CASE ~C!NextCohort
  <2> DEFINE c == C!CohortAt(Head(run.stages), now)
             next == IF discovery[c.key].day # c.day \/ c.retry THEN "discover" ELSE "cached"
  <2>1. run' = [run EXCEPT !.cohort = c, !.pc = next]
    BY <1>3 DEF C!EnterCohort
  <2>2. c \in Cohorts
    BY CohortType DEF CInv, Typed
  <2>3. next \in {"discover", "cached"}
    OBVIOUS
  <2> HIDE DEF c, next
  <2>4. run'.pc \in {"discover", "cached"} /\ run'.cohort = c /\ run'.todo = run.todo
        /\ run'.spent = run.spent /\ DOMAIN run' = DOMAIN run
    BY <2>1, <2>3, RunFields DEF CInv, Typed
  <2>5. Typed'
    BY <1>1, <2>2, <2>4 DEF CInv, Typed, RunTyped, ControlTyped, EvidenceTyped, C!control, C!evidence,
                            Pcs, AtFixture, C!Idle
  <2>6. Loads' /\ Recorded'
    BY <1>1, <2>4 DEF CInv, Loads, Recorded, C!control, C!evidence
  <2>7. CacheIsCurrent' /\ Readable'
    BY <1>1, <2>4 DEF CInv, CacheIsCurrent, Readable, OneKickoff, C!Companions, C!Attempted, AtFixture, C!control,
                      C!evidence
  <2> QED
    BY <1>1, <2>5, <2>6, <2>7 DEF CInv, OnTime
<1> QED
  BY <1>2, <1>3

\* What leaves the run without a step of its own: refusals, closed slots, crashes.
LEMMA StoppedPreserves ==
    ASSUME C!CollectorConstants, CInv,
           \/ C!FinishRun \/ C!DiscoveryWithheld \/ C!DiscoveryRefused \/ C!CalendarStops \/ C!SlotCloses
           \/ C!StopCohort \/ C!ReserveRefused \/ C!Crash
    PROVE  CInv'
<1>1. UNCHANGED <<now, schedule, C!control, C!evidence, manuals, quoted, late>>
  BY DEF C!FinishRun, C!DiscoveryWithheld, C!DiscoveryRefused, C!CalendarStops, C!SlotCloses, C!StopCohort,
         C!ReserveRefused, C!Crash, C!observations
<1>2. C!EndRun \/ C!NextCohort
  BY DEF C!FinishRun, C!DiscoveryWithheld, C!DiscoveryRefused, C!CalendarStops, C!SlotCloses, C!StopCohort,
         C!ReserveRefused, C!Crash
<1> QED
  BY <1>1, <1>2, RunEnds, CohortEnds, StopPreserves DEF CInv, Typed

\* A discovery is charged, recorded and asked.
LEMMA ReserveDiscoveryPreserves ==
    ASSUME C!CollectorConstants, CInv, C!ReserveDiscovery
    PROVE  CInv'
<1>1. weekend' \in Nat \cup {-1} /\ weekend' <= WeekendLimit /\ reserved' \in Nat /\ reserved' <= Allowance
  BY ChargeLoads DEF CInv, Typed, C!ReserveDiscovery
<1>2. run'.pc = "record" /\ run'.cohort = run.cohort /\ run'.todo = run.todo
      /\ run'.spent = run.spent + 1 /\ DOMAIN run' = DOMAIN run
  BY RunFields DEF CInv, Typed, C!ReserveDiscovery
<1>3. UNCHANGED <<now, schedule, discovery, attempts, C!evidence, manuals, quoted, late>>
  BY DEF C!ReserveDiscovery, C!observations
<1>4. Typed'
  BY <1>1, <1>2, <1>3 DEF CInv, Typed, RunTyped, ControlTyped, EvidenceTyped, C!evidence, Pcs,
                          AtFixture, C!Idle
<1>5. Loads' /\ Recorded'
  BY <1>1, <1>2, <1>3 DEF CInv, Loads, Recorded, C!evidence
<1>6. CacheIsCurrent' /\ Readable'
  BY <1>2, <1>3 DEF CInv, CacheIsCurrent, Readable, OneKickoff, C!Companions, C!Attempted, AtFixture, C!evidence
<1> QED
  BY <1>3, <1>4, <1>5, <1>6 DEF CInv, OnTime

\* Every step of a discovery keeps the saved discoveries well typed and leaves the
\* attempts, the evidence and the budget alone.
LEMMA DiscoveryPreserves ==
    ASSUME C!CollectorConstants, CInv,
           discovery' \in [C!Keys -> Discoveries],
           \A k \in C!Keys : discovery'[k].day # -1 => discovery'[k].queries \in {1, 2},
           RunTyped', run'.pc \in {"idle", "query", "cached"},
           UNCHANGED <<now, schedule, attempts, weekend, reserved, C!evidence, manuals, quoted, late>>
    PROVE  CInv'
<1>1. Typed'
  BY DEF CInv, Typed, ControlTyped, EvidenceTyped, C!evidence
<1>2. Loads' /\ Recorded'
  BY DEF CInv, Loads, Recorded, C!evidence
<1>3. CacheIsCurrent' /\ Readable'
  BY DEF CInv, CacheIsCurrent, Readable, OneKickoff, C!Companions, C!Attempted, AtFixture, C!evidence
<1> QED
  BY <1>1, <1>2, <1>3 DEF CInv, OnTime

\* The query about to be sent is counted in the control.
LEMMA RecordDiscoveryPreserves ==
    ASSUME C!CollectorConstants, CInv, C!RecordDiscovery
    PROVE  CInv'
<1> DEFINE k == run.cohort.key
           d == discovery[k]
           asked == IF d.day # run.cohort.day
                    THEN [C!NoDiscovery EXCEPT !.day = run.cohort.day, !.status = "RESERVED",
                                             !.queries = 1, !.at = run.cohort.at]
                    ELSE [d EXCEPT !.status = "RESERVED", !.queries = 2, !.at = run.cohort.at]
<1>1. discovery' = [discovery EXCEPT ![k] = asked]
  BY DEF C!RecordDiscovery
<1>2. k \in C!Keys /\ run.cohort.day \in Int /\ run.cohort.at \in Nat /\ d \in Discoveries
  BY DEF CInv, Typed, RunTyped, ControlTyped, Cohorts
<1>3. C!NoDiscovery \in Discoveries
  BY DEF C!NoDiscovery, Discoveries
<1>4. asked \in Discoveries /\ asked.queries \in {1, 2}
  BY <1>2, <1>3 DEF Discoveries
<1> HIDE DEF asked
<1>5. discovery' \in [C!Keys -> Discoveries]
  BY <1>1, <1>2, <1>4 DEF CInv, Typed, ControlTyped
<1>6. \A j \in C!Keys : discovery'[j].day # -1 => discovery'[j].queries \in {1, 2}
  BY <1>1, <1>2, <1>4 DEF CInv, Typed, ControlTyped, Loads
<1>7. run'.pc = "query" /\ run'.cohort = run.cohort /\ run'.todo = run.todo
      /\ run'.spent = run.spent /\ DOMAIN run' = DOMAIN run
  BY RunFields DEF CInv, Typed, C!RecordDiscovery
<1>8. RunTyped'
  BY <1>7 DEF CInv, Typed, RunTyped, Pcs, AtFixture, C!Idle
<1> QED
  BY <1>5, <1>6, <1>7, <1>8, DiscoveryPreserves DEF C!RecordDiscovery, C!observations

\* The provider lists fixtures with a kickoff on the day asked for.
LEMMA DiscoveryAnsweredPreserves ==
    ASSUME C!CollectorConstants, CInv, NEW listed \in SUBSET Fixtures, C!DiscoveryAnswered(listed)
    PROVE  CInv'
<1> DEFINE k == run.cohort.key
           d == discovery[k]
           found == C!Discovered(listed)
<1>1. discovery' = [discovery EXCEPT ![k] = found]
  BY DEF C!DiscoveryAnswered
<1>2. k \in C!Keys /\ d \in Discoveries /\ schedule \in [Fixtures -> Nat]
  BY DEF CInv, Typed, RunTyped, ControlTyped, Cohorts
<1>3. found \in Discoveries /\ found.day = d.day /\ found.queries = d.queries
  BY <1>2 DEF C!Discovered, Discoveries
<1> HIDE DEF found
<1>4. discovery' \in [C!Keys -> Discoveries]
  BY <1>1, <1>2, <1>3 DEF CInv, Typed, ControlTyped
<1>5. \A j \in C!Keys : discovery'[j].day # -1 => discovery'[j].queries \in {1, 2}
  BY <1>1, <1>2, <1>3 DEF CInv, Typed, ControlTyped, Loads
<1>6. RunTyped' /\ run'.pc \in {"idle", "cached"}
  BY RunEnds, RunFields DEF C!DiscoveryAnswered, CInv, Typed, RunTyped, Pcs, AtFixture, C!Idle
<1> QED
  BY <1>4, <1>5, <1>6, DiscoveryPreserves DEF C!DiscoveryAnswered, C!observations

\* The query fails, and the run ends or goes on without a listing.
LEMMA DiscoveryFailedPreserves ==
    ASSUME C!CollectorConstants, CInv, C!DiscoveryFailed
    PROVE  CInv'
<1> DEFINE k == run.cohort.key
           d == discovery[k]
<1>1. k \in C!Keys /\ d \in Discoveries
  BY DEF CInv, Typed, RunTyped, ControlTyped, Cohorts
<1>2. discovery' = discovery \/ discovery' = [discovery EXCEPT ![k] = [d EXCEPT !.status = "FAILED"]]
  BY DEF C!DiscoveryFailed
<1>3. [d EXCEPT !.status = "FAILED"] \in Discoveries
  BY <1>1 DEF Discoveries
<1>4. [d EXCEPT !.status = "FAILED"].day = d.day /\ [d EXCEPT !.status = "FAILED"].queries = d.queries
  BY <1>1 DEF Discoveries
<1>5. discovery' \in [C!Keys -> Discoveries]
  BY <1>1, <1>2, <1>3 DEF CInv, Typed, ControlTyped
<1>6. \A j \in C!Keys : discovery'[j].day # -1 => discovery'[j].queries \in {1, 2}
  BY <1>1, <1>2, <1>4 DEF CInv, Typed, ControlTyped, Loads
<1> QED
  BY <1>5, <1>6, RunEnds, DiscoveryPreserves DEF C!DiscoveryFailed, C!observations

\* A step that goes on to the fixtures of the cohort, or to the next of them.
LEMMA PickPreserves ==
    ASSUME C!CollectorConstants, CInv, RunTyped', run'.pc = "pick",
           run'.todo \subseteq C!Listed(discovery[run.cohort.key])
               \/ (run'.todo \subseteq run.todo /\ run.pc \in {"pick"} \cup AtFixture),
           run'.cohort = run.cohort,
           UNCHANGED <<now, schedule, C!control, C!evidence, manuals, quoted, late>>
    PROVE  CInv'
<1>1. Typed'
  BY DEF CInv, Typed, ControlTyped, EvidenceTyped, C!evidence, C!control
<1>2. Loads' /\ Recorded'
  BY DEF CInv, Loads, Recorded, C!evidence, C!control
<1>3. CacheIsCurrent' /\ Readable'
  BY DEF CInv, CacheIsCurrent, Readable, OneKickoff, C!Companions, C!Attempted, C!Listed, AtFixture, C!evidence, C!control
<1> QED
  BY <1>1, <1>2, <1>3 DEF CInv, OnTime

\* The cohort takes what its day has cached.
LEMMA UseCachePreserves ==
    ASSUME C!CollectorConstants, CInv, C!UseCache
    PROVE  CInv'
<1>1. UNCHANGED <<now, schedule, C!control, C!evidence, manuals, quoted, late>>
  BY DEF C!UseCache, C!observations
<1>2. CASE C!NextCohort
  BY <1>1, <1>2, CohortEnds, StopPreserves DEF CInv, Typed
<1>3. CASE ~C!NextCohort
  <2> DEFINE d == discovery[run.cohort.key]
             todo == IF run.cohort.phase = "manual_early" THEN C!Listed(d) \cap run.selected
                                                          ELSE C!Listed(d)
  <2>1. run' = [run EXCEPT !.pc = "pick", !.todo = todo]
    BY <1>3 DEF C!UseCache
  <2>2. todo \subseteq C!Listed(d) /\ C!Listed(d) \subseteq Fixtures
    BY DEF C!Listed
  <2> HIDE DEF todo
  <2>3. run'.pc = "pick" /\ run'.cohort = run.cohort /\ run'.todo = todo
        /\ run'.spent = run.spent /\ DOMAIN run' = DOMAIN run
    BY <2>1, RunFields DEF CInv, Typed
  <2>4. RunTyped'
    BY <2>2, <2>3 DEF CInv, Typed, RunTyped, Pcs, AtFixture, C!Idle
  <2> QED
    BY <1>1, <2>2, <2>3, <2>4, PickPreserves
<1> QED
  BY <1>2, <1>3

\* A fixture that is not eligible any more is dropped.
LEMMA SkipFixturePreserves ==
    ASSUME C!CollectorConstants, CInv, C!SkipFixture
    PROVE  CInv'
<1>1. run'.pc = "pick" /\ run'.cohort = run.cohort /\ run'.todo = run.todo \ {C!FirstFixture}
      /\ run'.spent = run.spent /\ DOMAIN run' = DOMAIN run /\ run.pc = "pick"
  BY RunFields DEF CInv, Typed, C!SkipFixture
<1>2. RunTyped'
  BY <1>1 DEF CInv, Typed, RunTyped, Pcs, AtFixture, C!Idle
<1> QED
  BY <1>1, <1>2, PickPreserves DEF C!SkipFixture, C!observations

\* A fixture is taken: its earlier attempt, if any, was the first, and was made for
\* the kickoff the cohort knows.
LEMMA TakeFixturePreserves ==
    ASSUME C!CollectorConstants, CInv, C!TakeFixture
    PROVE  CInv'
<1>1. PICK f : f = C!FirstFixture
  OBVIOUS
<1>2. f \in run.todo /\ f \in Fixtures
  BY <1>1, FirstFixtureToDo DEF C!TakeFixture, CInv, Typed, RunTyped
<1>3. run'.pc = "recheck" /\ run'.cohort = run.cohort /\ run'.todo = run.todo \ {f}
      /\ run'.fixture = f /\ run'.spent = run.spent /\ DOMAIN run' = DOMAIN run
      /\ run.pc = "pick"
  BY <1>1, RunFields DEF CInv, Typed, C!TakeFixture
<1>4. UNCHANGED <<now, schedule, C!control, C!evidence, manuals, quoted, late>>
  BY DEF C!TakeFixture, C!observations
<1>5. C!Eligible(f)
  BY <1>1 DEF C!TakeFixture
<1>6. attempts[f].count \in Nat /\ attempts[f].count <= 1
  BY <1>2, <1>5 DEF CInv, Typed, ControlTyped, Attempts, C!Eligible, C!SecondLook, C!Attempted
<1>7. Typed'
  BY <1>2, <1>3, <1>4 DEF CInv, Typed, RunTyped, ControlTyped, EvidenceTyped, C!evidence, C!control,
                          Pcs, AtFixture, C!Idle
<1>8. Loads' /\ Recorded'
  BY <1>3, <1>4, <1>6 DEF CInv, Loads, Recorded, C!evidence, C!control
<1>9. CacheIsCurrent'
  <2>1. C!Cached(f) # 0
    BY <1>2, <1>3 DEF CInv, CacheIsCurrent, C!Listed, C!Cached
  <2>2. ~C!KickoffChanged(f)
    BY <1>5 DEF C!Eligible, C!InPolicy
  <2> QED
    BY <1>3, <1>4, <2>1, <2>2 DEF CInv, CacheIsCurrent, C!Listed, C!Cached, C!KickoffChanged, C!Attempted, C!control,
                                  AtFixture
<1>10. Readable'
  BY <1>3, <1>4 DEF CInv, Readable, OneKickoff, C!Companions, C!Attempted, AtFixture, C!evidence, C!control
<1> QED
  BY <1>4, <1>7, <1>8, <1>9, <1>10 DEF CInv, OnTime

\* The ledger is read again: the fixture is bought only with less than two
\* observations, those of captures made meanwhile included.
LEMMA RecheckPreserves ==
    ASSUME C!CollectorConstants, CInv, C!Recheck
    PROVE  CInv'
<1>1. PICK f : f = run.fixture
  OBVIOUS
<1>2. f \in Fixtures /\ run.pc = "recheck"
  BY <1>1 DEF C!Recheck, CInv, Typed, RunTyped, AtFixture
<1>3. PICK c \in (IF captures[f] = {} THEN {C!NoCapture} ELSE captures[f]) :
        LET seen == IF c = C!NoCapture THEN observed[f] ELSE observed[f] \cup {c} IN
        /\ observed' = [observed EXCEPT ![f] = seen]
        /\ IF c # C!NoCapture /\ \E o \in seen : o.n # c.n /\ o.kickoff # c.kickoff
           THEN C!EndRun
           ELSE run' = [run EXCEPT !.captured[f] = C!Rechecked(c),
                          !.pc = IF C!MayAcquire(C!Rechecked(c), seen) THEN "reserve" ELSE "pick"]
  BY <1>1 DEF C!Recheck
<1>4. PICK seen : seen = IF c = C!NoCapture THEN observed[f] ELSE observed[f] \cup {c}
  OBVIOUS
<1>5. observed' = [observed EXCEPT ![f] = seen]
  BY <1>3, <1>4
<1>6. UNCHANGED <<now, schedule, C!control, captures, manuals, quoted, late>>
  BY DEF C!Recheck, C!observations
<1>7. IsFiniteSet(seen) /\ seen \subseteq C!Companions(f)
  BY <1>2, <1>3, <1>4, FS_AddElement DEF CInv, Typed, EvidenceTyped, C!Companions
<1>8. EvidenceTyped'
  BY <1>2, <1>5, <1>6, <1>7 DEF CInv, Typed, EvidenceTyped
<1>9. /\ RunTyped' /\ run'.pc \in {"idle", "reserve", "pick"}
      /\ run'.pc # "idle" => run'.cohort = run.cohort /\ run'.todo = run.todo /\ run'.fixture = f
      /\ run'.pc = "reserve" => Cardinality(seen) < 2
  <2>1. CASE C!EndRun
    BY <2>1, RunEnds
  <2>2. CASE ~C!EndRun
    <3> DEFINE buys == C!MayAcquire(C!Rechecked(c), seen)
               next == IF buys THEN "reserve" ELSE "pick"
    <3>1. run' = [run EXCEPT !.captured[f] = C!Rechecked(c), !.pc = next]
      BY <1>3, <1>4, <2>2
    <3>2. buys => Cardinality(seen) < 2
      BY CountsAgree DEF C!MayAcquire
    <3> HIDE DEF buys
    <3>3. run'.pc = next /\ run'.cohort = run.cohort /\ run'.todo = run.todo
          /\ run'.fixture = run.fixture /\ run'.spent = run.spent /\ DOMAIN run' = DOMAIN run
      BY <3>1, RunFields DEF CInv, Typed
    <3>4. RunTyped'
      BY <1>1, <1>2, <3>3 DEF CInv, Typed, RunTyped, Pcs, AtFixture, C!Idle
    <3> QED
      BY <1>1, <3>2, <3>3, <3>4
  <2> QED
    BY <2>1, <2>2
<1>10. Typed'
  BY <1>6, <1>8, <1>9 DEF CInv, Typed, ControlTyped, C!control
<1>11. Loads' /\ Recorded'
  <2>1. Cardinality(seen) \in Nat
    BY <1>7, FS_CardinalityType
  <2>2. observed'[f] = seen
    BY <1>2, <1>5 DEF CInv, Typed, EvidenceTyped
  <2>3. run'.pc = "reserve" => Cardinality(observed'[run'.fixture]) <= 1
    BY <1>9, <2>1, <2>2
  <2> QED
    BY <1>1, <1>2, <1>6, <1>9, <2>3, CountsAgree DEF CInv, Loads, Recorded, C!ObservationCount, C!control
<1>12. CacheIsCurrent'
  BY <1>1, <1>2, <1>6, <1>9 DEF CInv, CacheIsCurrent, C!Listed, C!Cached, C!KickoffChanged, C!Attempted, C!control,
                                AtFixture
<1>13. Readable'
  <2>1. SUFFICES ASSUME FridayReview, manuals = 0, OneKickoff
                 PROVE  OneKickoff'
    BY <1>6 DEF CInv, Readable
  <2>2. \A g \in Fixtures : observed'[g] \subseteq C!Companions(g)
    BY <1>2, <1>5, <1>7 DEF CInv, Typed, EvidenceTyped, C!Companions
  <2>3. \A g \in Fixtures : C!Companions(g)' \subseteq C!Companions(g)
    BY <1>6, <2>2 DEF C!Companions
  <2>4. \A g \in Fixtures : \A o \in C!Companions(g)' :
           attempts'[g].count > 0 /\ o.kickoff = attempts'[g].kickoff
    BY <1>6, <2>1, <2>3 DEF OneKickoff, C!Attempted, C!control
  <2>5. run'.pc \in {"idle", "reserve", "pick"} /\ UNCHANGED <<discovery, attempts>>
    BY <1>6, <1>9 DEF C!control
  <2> QED
    BY <1>9, <2>1, <2>4, <2>5 DEF OneKickoff, C!Attempted, AtFixture
<1> QED
  BY <1>6, <1>10, <1>11, <1>13, <1>12 DEF CInv, OnTime

\* The budget reserves a request for the odds, or refuses it.
LEMMA ReserveQuotePreserves ==
    ASSUME C!CollectorConstants, CInv, C!ReserveQuote
    PROVE  CInv'
<1>1. C!Cost \in Nat
  BY DEF C!Cost
<1>2. weekend' \in Nat \cup {-1} /\ weekend' <= WeekendLimit /\ reserved' \in Nat /\ reserved' <= Allowance
  BY <1>1, ChargeLoads DEF CInv, Typed, C!ReserveQuote
<1>3. PICK cost \in Nat : cost = C!Cost
  BY <1>1
<1>4. run' = [run EXCEPT !.pc = "attempt", !.spent = @ + cost]
  BY <1>3 DEF C!ReserveQuote
<1>5. run'.pc = "attempt" /\ run'.cohort = run.cohort /\ run'.todo = run.todo
      /\ run'.fixture = run.fixture /\ run'.spent = run.spent + cost /\ DOMAIN run' = DOMAIN run
      /\ run.pc = "reserve"
  BY <1>4, RunFields DEF CInv, Typed, C!ReserveQuote
<1>6. UNCHANGED <<now, schedule, discovery, attempts, C!evidence, manuals, quoted, late>>
  BY DEF C!ReserveQuote, C!observations
<1>7. Typed'
  BY <1>2, <1>3, <1>5, <1>6 DEF CInv, Typed, RunTyped, ControlTyped, EvidenceTyped, C!evidence, Pcs,
                          AtFixture, C!Idle
<1>8. Loads' /\ Recorded'
  BY <1>2, <1>5, <1>6 DEF CInv, Loads, Recorded, C!ObservationCount, C!evidence
<1>9. CacheIsCurrent' /\ Readable'
  BY <1>5, <1>6 DEF CInv, CacheIsCurrent, Readable, OneKickoff, C!Companions, C!Attempted, AtFixture, C!evidence,
                    C!Listed, C!Cached, C!KickoffChanged
<1> QED
  BY <1>6, <1>7, <1>8, <1>9 DEF CInv, OnTime

\* What an attempt saves: one acquisition more than the attempt or the evidence of
\* the fixture knew of, and for the kickoff the earlier one was made for.
LEMMA NewAttemptLoads ==
    ASSUME C!CollectorConstants, CInv, run.pc = "attempt", NEW f, f = run.fixture
    PROVE  /\ C!NewAttempt(f) \in Attempts
           /\ C!NewAttempt(f).count <= 2 /\ attempts[f].count < C!NewAttempt(f).count
           /\ C!NewAttempt(f).phase # "none" => C!NewAttempt(f).phaseAttempts >= 1
           /\ C!NewAttempt(f).phaseAttempts <= C!NewAttempt(f).count
           /\ FridayReview => C!NewAttempt(f).kickoff = C!Cached(f)
<1> DEFINE previous == attempts[f]
           most == C!Max({C!ObservationCount(f), previous.count})
           remembered == FridayReview \/ C!Early \/ run.cohort.weekend
           again == IF previous.phase = run.cohort.phase THEN previous.phaseAttempts + 1 ELSE 1
           kickoff == IF remembered THEN C!Cached(f) ELSE 0
           phase == IF remembered THEN run.cohort.phase ELSE "none"
           phaseAttempts == IF remembered THEN again ELSE 0
<1>1. f \in Fixtures /\ previous \in Attempts
  BY DEF CInv, Typed, RunTyped, ControlTyped, AtFixture
<1>2. previous.count \in 0 .. 1 /\ C!ObservationCount(f) \in 0 .. 1
  BY <1>1, EvidenceCounted DEF CInv, Typed, Loads, Attempts
<1>3. most \in 0 .. 1 /\ most >= previous.count
  BY <1>2 DEF C!Max
<1>4. C!Cached(f) \in Nat
  BY <1>1 DEF CInv, Typed, RunTyped, ControlTyped, Cohorts, Discoveries, C!Cached
<1>5. run.cohort.phase \in Phases \cup {"none"} /\ now \in Nat
  BY DEF CInv, Typed, RunTyped, ControlTyped, Cohorts, C!CollectorConstants
<1>6. /\ again \in Nat /\ again >= 1 /\ again <= most + 1
  <2>1. previous.phaseAttempts \in Nat /\ previous.phaseAttempts <= previous.count
    BY <1>1 DEF CInv, Loads, Attempts
  <2> HIDE DEF most
  <2> QED
    BY <1>2, <1>3, <2>1
<1> HIDE DEF most, again
<1>7. C!NewAttempt(f) = [count |-> most + 1, state |-> "RESERVED", at |-> now, kickoff |-> kickoff,
                       phase |-> phase, phaseAttempts |-> phaseAttempts]
  BY DEF C!NewAttempt, most, again
<1>8. FridayReview => remembered
  OBVIOUS
<1>9. remembered \in BOOLEAN
  OBVIOUS
<1> HIDE DEF remembered
<1>10. kickoff \in Nat /\ phase \in Phases \cup {"none"} /\ phaseAttempts \in Nat
       /\ phaseAttempts <= most + 1 /\ (phase # "none" => phaseAttempts >= 1)
  BY <1>3, <1>4, <1>5, <1>6
<1>11. FridayReview => kickoff = C!Cached(f)
  BY <1>8
<1> HIDE DEF kickoff, phase, phaseAttempts
<1>12. C!NewAttempt(f) \in Attempts
  BY <1>3, <1>5, <1>7, <1>10 DEF Attempts
<1>13. /\ C!NewAttempt(f).count = most + 1 /\ C!NewAttempt(f).phase = phase
       /\ C!NewAttempt(f).phaseAttempts = phaseAttempts /\ C!NewAttempt(f).kickoff = kickoff
  BY <1>7
<1> HIDE DEF previous
<1> QED
  BY <1>2, <1>3, <1>10, <1>11, <1>12, <1>13 DEF previous

\* The attempt is saved, with the kickoff it is made for, before the request leaves.
LEMMA RecordAttemptPreserves ==
    ASSUME C!CollectorConstants, CInv, C!RecordAttempt
    PROVE  CInv'
<1>1. PICK f : f = run.fixture
  OBVIOUS
<1>2. PICK attempt : attempt = C!NewAttempt(f)
  OBVIOUS
<1>3. run.pc = "attempt" /\ f \in Fixtures
  BY <1>1 DEF C!RecordAttempt, CInv, Typed, RunTyped, AtFixture
<1>4. attempts' = [attempts EXCEPT ![f] = attempt]
  BY <1>1, <1>2 DEF C!RecordAttempt
<1>5. /\ attempt \in Attempts
      /\ attempt.count <= 2 /\ attempts[f].count < attempt.count
      /\ attempt.phase # "none" => attempt.phaseAttempts >= 1
      /\ attempt.phaseAttempts <= attempt.count
      /\ FridayReview => attempt.kickoff = C!Cached(f)
  BY <1>1, <1>2, <1>3, NewAttemptLoads
<1>6. run'.pc = "quote" /\ run'.cohort = run.cohort /\ run'.todo = run.todo
      /\ run'.fixture = run.fixture /\ run'.spent = run.spent /\ DOMAIN run' = DOMAIN run
  BY RunFields DEF CInv, Typed, C!RecordAttempt
<1>7. UNCHANGED <<now, schedule, discovery, weekend, reserved, C!evidence, manuals, quoted, late>>
  BY DEF C!RecordAttempt, C!observations
<1>8. attempts' \in [Fixtures -> Attempts] /\ attempts'[f] = attempt
      /\ \A g \in Fixtures : g # f => attempts'[g] = attempts[g]
  BY <1>3, <1>4, <1>5 DEF CInv, Typed, ControlTyped
<1>9. Typed'
  BY <1>3, <1>6, <1>7, <1>8 DEF CInv, Typed, RunTyped, ControlTyped, EvidenceTyped, C!evidence, Pcs,
                                AtFixture, C!Idle
<1>10. Loads'
  BY <1>5, <1>6, <1>7, <1>8 DEF CInv, Loads
<1>11. Recorded'
  <2>1. quoted[f] \in Nat /\ attempts[f].count \in Nat /\ attempt.count \in Nat
    BY <1>3, <1>5 DEF CInv, Typed, ControlTyped, EvidenceTyped, Attempts
  <2> QED
    BY <1>1, <1>3, <1>5, <1>6, <1>7, <1>8, <2>1 DEF CInv, Recorded
<1>12. CacheIsCurrent'
  BY <1>1, <1>3, <1>6, <1>7 DEF CInv, CacheIsCurrent, C!Listed, C!Cached, AtFixture
<1>13. Readable'
  <2>1. SUFFICES ASSUME FridayReview, manuals = 0, OneKickoff
                 PROVE  OneKickoff'
    BY <1>7 DEF CInv, Readable
  <2>2. attempt.kickoff = C!Cached(f) /\ C!Cached(f) # 0 /\ attempt.count > 0
    <3>1. attempts[f].count \in Nat /\ attempt.count \in Nat
      BY <1>3, <1>5 DEF CInv, Typed, ControlTyped, Attempts
    <3> QED
      BY <1>1, <1>3, <1>5, <2>1, <3>1 DEF CInv, CacheIsCurrent, AtFixture
  <2>3. attempts[f].count > 0 => attempts[f].kickoff = attempt.kickoff
    BY <1>1, <1>3, <2>1, <2>2 DEF CInv, CacheIsCurrent, OneKickoff, C!KickoffChanged, C!Attempted
  <2>4. C!Cached(run.fixture)' = C!Cached(f)
    BY <1>1, <1>6, <1>7 DEF C!Cached
  <2>5. \A g \in Fixtures : C!Companions(g)' = C!Companions(g)
    BY <1>7 DEF C!Companions, C!evidence
  <2>6. \A g \in Fixtures : \A o \in C!Companions(g)' :
           attempts'[g].count > 0 /\ o.kickoff = attempts'[g].kickoff
    BY <1>8, <2>1, <2>2, <2>3, <2>5 DEF OneKickoff, C!Attempted
  <2>7. \A g \in Fixtures : attempts'[g].count > 0 => attempts'[g].kickoff # 0
    BY <1>8, <2>1, <2>2 DEF OneKickoff, C!Attempted
  <2>8. attempts'[run'.fixture] = attempt
    BY <1>1, <1>6, <1>8
  <2> QED
    BY <1>1, <1>3, <1>6, <1>7, <2>1, <2>2, <2>4, <2>6, <2>7, <2>8
       DEF OneKickoff, C!Attempted, AtFixture
<1> QED
  BY <1>7, <1>9, <1>10, <1>11, <1>13, <1>12 DEF CInv, OnTime

\* An acquisition that is sent: within the slot, and recorded before.
LEMMA SentRecorded ==
    ASSUME CInv, run.pc = "quote", C!SlotOpen, C!Sent(run.fixture)
    PROVE  /\ quoted' \in [Fixtures -> Nat]
           /\ \A f \in Fixtures : quoted'[f] <= attempts[f].count
           /\ OnTime'
<1>1. PICK f : f = run.fixture
  OBVIOUS
<1>2. f \in Fixtures /\ quoted \in [Fixtures -> Nat] /\ attempts \in [Fixtures -> Attempts]
  BY <1>1 DEF CInv, Typed, RunTyped, ControlTyped, EvidenceTyped, AtFixture
<1>3. quoted' = [quoted EXCEPT ![f] = @ + 1]
  BY <1>1 DEF C!Sent
<1>4. quoted[f] < attempts[f].count /\ attempts[f].count \in Nat
  BY <1>1, <1>2 DEF CInv, Recorded, Attempts
<1>5. \A g \in Fixtures : quoted'[g] <= attempts[g].count
  BY <1>2, <1>3, <1>4 DEF CInv, Recorded
<1>6. OnTime'
  BY DEF CInv, OnTime, C!Sent, C!SlotOpen
<1> QED
  BY <1>2, <1>3, <1>5, <1>6

\* The request leaves and its answer is stored as an observation.
LEMMA QuotePreserves ==
    ASSUME C!CollectorConstants, CInv, NEW good, NEW teamTotals, C!Quote(good, teamTotals)
    PROVE  CInv'
<1>1. PICK f, o : f = run.fixture /\ o = C!Observation(f, C!Cached(f), good, teamTotals)
  OBVIOUS
<1>2. run.pc = "quote" /\ f \in Fixtures
  BY <1>1 DEF C!Quote, CInv, Typed, RunTyped, AtFixture
<1>3. observed' = [observed EXCEPT ![f] = @ \cup {o}]
  BY <1>1 DEF C!Quote
<1>4. o.kickoff = C!Cached(f)
  BY <1>1 DEF C!Observation
<1>5. run'.pc = "assess" /\ run'.cohort = run.cohort /\ run'.todo = run.todo
      /\ run'.fixture = run.fixture /\ run'.spent = run.spent /\ run'.quote = o.n
      /\ DOMAIN run' = DOMAIN run
  BY <1>1, RunFields DEF CInv, Typed, C!Quote
<1>6. UNCHANGED <<now, schedule, C!control, captures, manuals>>
  BY DEF C!Quote
<1>7. /\ quoted' \in [Fixtures -> Nat]
      /\ \A g \in Fixtures : quoted'[g] <= attempts[g].count
      /\ OnTime'
  BY SentRecorded DEF C!Quote
<1>8. DOMAIN observed' = Fixtures /\ observed'[f] = observed[f] \cup {o}
      /\ \A g \in Fixtures : g # f => observed'[g] = observed[g]
  BY <1>2, <1>3 DEF CInv, Typed, EvidenceTyped
<1>9. \A g \in Fixtures : IsFiniteSet(observed'[g])
  BY <1>2, <1>8, FS_AddElement DEF CInv, Typed, EvidenceTyped
<1>10. Typed'
  BY <1>2, <1>5, <1>6, <1>7, <1>8, <1>9 DEF CInv, Typed, RunTyped, ControlTyped, EvidenceTyped,
                                C!control, Pcs, AtFixture, C!Idle
<1>11. Loads' /\ Recorded'
  BY <1>5, <1>6, <1>7 DEF CInv, Loads, Recorded, C!control
<1>12. CacheIsCurrent'
  BY <1>2, <1>5, <1>6 DEF CInv, CacheIsCurrent, C!Listed, C!Cached, AtFixture, C!control
<1>13. Readable'
  <2>1. SUFFICES ASSUME FridayReview, manuals = 0, OneKickoff
                 PROVE  OneKickoff'
    BY <1>6 DEF CInv, Readable
  <2>2. attempts[f].kickoff = C!Cached(f) /\ attempts[f].count > 0
    BY <1>1, <1>2, <2>1 DEF OneKickoff, C!Attempted
  <2>3. C!Companions(f)' = C!Companions(f) \cup {o}
        /\ \A g \in Fixtures : g # f => C!Companions(g)' = C!Companions(g)
    BY <1>6, <1>8 DEF C!Companions
  <2>4. \A g \in Fixtures : \A p \in C!Companions(g)' :
           attempts[g].count > 0 /\ p.kickoff = attempts[g].kickoff
    BY <1>4, <2>1, <2>2, <2>3 DEF OneKickoff, C!Attempted
  <2>5. o \in observed'[run'.fixture] /\ o.n = run'.quote
    BY <1>1, <1>5, <1>8
  <2> QED
    BY <1>1, <1>2, <1>5, <1>6, <2>1, <2>4, <2>5
       DEF OneKickoff, C!Attempted, AtFixture, C!control
<1> QED
  BY <1>7, <1>10, <1>11, <1>13, <1>12 DEF CInv

\* The outcome of an acquisition is saved in its attempt.
LEMMA SaveStateSound ==
    ASSUME Typed, run.pc \in AtFixture,
           NEW state \in {"DONE", "NO_TEAM_TOTAL", "REVIEW", "HISTORY"}, C!SaveState(state)
    PROVE  /\ attempts' \in [Fixtures -> Attempts]
           /\ \A g \in Fixtures : /\ attempts'[g].count = attempts[g].count
                                  /\ attempts'[g].kickoff = attempts[g].kickoff
                                  /\ attempts'[g].phase = attempts[g].phase
                                  /\ attempts'[g].phaseAttempts = attempts[g].phaseAttempts
<1>1. PICK f : f = run.fixture
  OBVIOUS
<1>2. f \in Fixtures /\ attempts \in [Fixtures -> Attempts]
  BY <1>1 DEF Typed, RunTyped, ControlTyped
<1>3. attempts' = [attempts EXCEPT ![f] = [attempts[f] EXCEPT !.state = state]]
  BY <1>1 DEF C!SaveState
<1>4. PICK saved : saved = [attempts[f] EXCEPT !.state = state]
  OBVIOUS
<1>5. attempts[f] \in Attempts
  BY <1>2
<1>6. /\ saved \in Attempts
      /\ saved.count = attempts[f].count /\ saved.kickoff = attempts[f].kickoff
      /\ saved.phase = attempts[f].phase /\ saved.phaseAttempts = attempts[f].phaseAttempts
  BY <1>4, <1>5 DEF Attempts
<1> QED
  BY <1>2, <1>3, <1>4, <1>6

\* The run goes on to its next fixture.
LEMMA NextFixtureTyped ==
    ASSUME RunTyped, NEW f, NEW known,
           run' = [run EXCEPT !.pc = "pick"] \/ C!NextFixture(f, known)
               \/ \E m \in BOOLEAN : run' = [run EXCEPT !.pc = "pick", !.metadata = m]
    PROVE  RunTyped' /\ run'.pc = "pick" /\ run'.cohort = run.cohort /\ run'.todo = run.todo
BY RunFields DEF C!NextFixture, RunTyped, Pcs, AtFixture, C!Idle

\* An acquisition that has ended, for the run or for the fixture.
LEMMA AcquiredPreserves ==
    ASSUME C!CollectorConstants, CInv, run.pc \in {"quote", "assess", "captured"},
           attempts' \in [Fixtures -> Attempts],
           \A g \in Fixtures : /\ attempts'[g].count = attempts[g].count
                               /\ attempts'[g].kickoff = attempts[g].kickoff
                               /\ attempts'[g].phase = attempts[g].phase
                               /\ attempts'[g].phaseAttempts = attempts[g].phaseAttempts,
           RunTyped', run'.pc \in {"idle", "pick"},
           run'.pc = "pick" => run'.cohort = run.cohort /\ run'.todo = run.todo,
           quoted' \in [Fixtures -> Nat], \A g \in Fixtures : quoted'[g] <= attempts[g].count,
           OnTime',
           UNCHANGED <<now, schedule, discovery, weekend, reserved, C!evidence, manuals>>
    PROVE  CInv'
<1>1. Typed'
  BY DEF CInv, Typed, ControlTyped, EvidenceTyped, C!evidence
<1>2. Loads' /\ Recorded'
  BY DEF CInv, Loads, Recorded, C!evidence
<1>3. CacheIsCurrent' /\ Readable'
  BY DEF CInv, CacheIsCurrent, Readable, OneKickoff, C!Companions, C!Attempted, AtFixture, C!Listed, C!evidence
<1> QED
  BY <1>1, <1>2, <1>3 DEF CInv

\* The market of the answer is left to a review.
LEMMA QuoteReviewedPreserves ==
    ASSUME C!CollectorConstants, CInv, C!QuoteReviewed
    PROVE  CInv'
<1>1. run.pc = "quote" /\ C!SlotOpen /\ C!Sent(run.fixture) /\ C!SaveState("REVIEW")
      /\ UNCHANGED <<now, schedule, discovery, weekend, reserved, C!evidence, manuals>>
  BY DEF C!QuoteReviewed
<1>2. RunTyped' /\ run'.pc = "pick" /\ run'.cohort = run.cohort /\ run'.todo = run.todo
  BY RunFields DEF C!QuoteReviewed, CInv, Typed, RunTyped, Pcs, AtFixture, C!Idle
<1> QED
  BY <1>1, <1>2, SentRecorded, SaveStateSound, AcquiredPreserves DEF CInv, AtFixture

\* The request fails.
LEMMA QuoteFailedPreserves ==
    ASSUME C!CollectorConstants, CInv, C!QuoteFailed
    PROVE  CInv'
BY SentRecorded, RunEnds, AcquiredPreserves DEF C!QuoteFailed, CInv, Typed, ControlTyped, C!control

\* The assessments: a state saved and the next fixture, or the end of the run.
LEMMA AssessPreserves ==
    ASSUME C!CollectorConstants, CInv,
           C!AssessUnusable \/ C!AssessAgain \/ C!HistoryMissing \/ C!AssessCapture
    PROVE  CInv'
<1>1. /\ run.pc \in {"assess", "captured"}
      /\ UNCHANGED <<now, schedule, discovery, weekend, reserved, C!evidence, manuals, quoted, late>>
  BY DEF C!AssessUnusable, C!AssessAgain, C!HistoryMissing, C!AssessCapture, C!observations
<1>2. \/ C!EndRun /\ UNCHANGED attempts
      \/ /\ \E state \in {"DONE", "NO_TEAM_TOTAL", "REVIEW", "HISTORY"} : C!SaveState(state)
         /\ run' = [run EXCEPT !.pc = "pick"] \/ \E f, known : C!NextFixture(f, known)
  BY DEF C!AssessUnusable, C!AssessAgain, C!HistoryMissing, C!AssessCapture
<1>3. quoted' \in [Fixtures -> Nat] /\ \A g \in Fixtures : quoted'[g] <= attempts[g].count
  BY <1>1 DEF CInv, Typed, EvidenceTyped, Recorded
<1>4. OnTime'
  BY <1>1 DEF CInv, OnTime
<1>5. CASE C!EndRun /\ UNCHANGED attempts
  BY <1>1, <1>3, <1>4, <1>5, RunEnds, AcquiredPreserves DEF CInv, Typed, ControlTyped
<1>6. CASE /\ \E state \in {"DONE", "NO_TEAM_TOTAL", "REVIEW", "HISTORY"} : C!SaveState(state)
           /\ run' = [run EXCEPT !.pc = "pick"] \/ \E f, known : C!NextFixture(f, known)
  <2>1. RunTyped' /\ run'.pc = "pick" /\ run'.cohort = run.cohort /\ run'.todo = run.todo
    BY <1>6, NextFixtureTyped DEF CInv, Typed
  <2>2. PICK state \in {"DONE", "NO_TEAM_TOTAL", "REVIEW", "HISTORY"} : C!SaveState(state)
    BY <1>6
  <2>3. run.pc \in AtFixture
    BY <1>1 DEF AtFixture
  <2> QED
    BY <1>1, <1>3, <1>4, <2>1, <2>2, <2>3, SaveStateSound, AcquiredPreserves DEF CInv
<1> QED
  BY <1>2, <1>5, <1>6

\* A first usable quote becomes the fixture's analysis.
LEMMA StoreCapturePreserves ==
    ASSUME C!CollectorConstants, CInv, C!StoreCapture
    PROVE  CInv'
<1>1. PICK f, o : f = run.fixture /\ o = C!TheQuote
  OBVIOUS
<1>2. run.pc = "assess" /\ f \in Fixtures
  BY <1>1 DEF C!StoreCapture, CInv, Typed, RunTyped, AtFixture
<1>3. captures' = [captures EXCEPT ![f] = @ \cup {o}]
      /\ UNCHANGED <<now, schedule, C!control, observed, manuals, quoted, late>>
  BY <1>1 DEF C!StoreCapture, C!observations
<1>4. run'.pc = "captured" /\ run'.cohort = run.cohort /\ run'.todo = run.todo
      /\ run'.fixture = run.fixture /\ run'.spent = run.spent /\ run'.quote = run.quote
      /\ DOMAIN run' = DOMAIN run
  BY RunFields DEF CInv, Typed, C!StoreCapture
<1>5. DOMAIN captures' = Fixtures /\ captures'[f] = captures[f] \cup {o}
      /\ \A g \in Fixtures : g # f => captures'[g] = captures[g]
  BY <1>2, <1>3 DEF CInv, Typed, EvidenceTyped
<1>6. \A g \in Fixtures : IsFiniteSet(captures'[g])
  BY <1>2, <1>5, FS_AddElement DEF CInv, Typed, EvidenceTyped
<1>7. Typed'
  BY <1>2, <1>3, <1>4, <1>5, <1>6 DEF CInv, Typed, RunTyped, ControlTyped, EvidenceTyped, C!control,
                                      Pcs, AtFixture, C!Idle
<1>8. Loads' /\ Recorded'
  BY <1>3, <1>4 DEF CInv, Loads, Recorded, C!control
<1>9. CacheIsCurrent'
  BY <1>2, <1>3, <1>4 DEF CInv, CacheIsCurrent, C!Listed, C!Cached, AtFixture, C!control
<1>10. Readable'
  <2>1. SUFFICES ASSUME FridayReview, manuals = 0, OneKickoff
                 PROVE  OneKickoff'
    BY <1>3 DEF CInv, Readable
  <2>2. o \in observed[f]
    BY <1>1, <1>2, <2>1 DEF OneKickoff, C!TheQuote
  <2>3. \A g \in Fixtures : C!Companions(g)' = C!Companions(g)
    BY <1>3, <1>5, <2>2 DEF C!Companions
  <2> QED
    BY <1>2, <1>3, <1>4, <2>1, <2>3 DEF OneKickoff, C!Attempted, AtFixture, C!control
<1> QED
  BY <1>3, <1>7, <1>8, <1>10, <1>9 DEF CInv, OnTime

\* An operator captures a fixture.
LEMMA ManualCapturePreserves ==
    ASSUME C!CollectorConstants, CInv, NEW f \in Fixtures, NEW good, C!ManualCapture(f, good)
    PROVE  CInv'
<1>1. PICK o : o = C!Observation(f, schedule[f], good, TRUE)
  OBVIOUS
<1>2. captures' = [captures EXCEPT ![f] = @ \cup {o}]
      /\ UNCHANGED <<now, schedule, C!control, observed, run, quoted, late>>
  BY <1>1 DEF C!ManualCapture, C!observations
<1>3. manuals' \in Nat /\ manuals' # 0
  BY DEF C!ManualCapture, CInv, Typed, EvidenceTyped
<1>4. DOMAIN captures' = Fixtures /\ \A g \in Fixtures : IsFiniteSet(captures'[g])
  BY <1>2, FS_AddElement DEF CInv, Typed, EvidenceTyped
<1>5. Typed'
  BY <1>2, <1>3, <1>4 DEF CInv, Typed, RunTyped, ControlTyped, EvidenceTyped, C!control
<1>6. Loads' /\ Recorded'
  BY <1>2 DEF CInv, Loads, Recorded, C!ObservationCount, C!control
<1>7. CacheIsCurrent'
  BY <1>2 DEF CInv, CacheIsCurrent, C!Listed, C!Cached, C!KickoffChanged, C!Attempted, C!control
<1> QED
  BY <1>2, <1>3, <1>5, <1>6, <1>7 DEF CInv, OnTime, Readable

\* A provider announces another kickoff; the clock moves.
LEMMA ElsewherePreserves ==
    ASSUME C!CollectorConstants, CInv,
           now' \in Times,
           schedule' \in [Fixtures -> Nat], \A f \in Fixtures : schedule'[f] \in Schedules[f],
           UNCHANGED <<C!control, C!evidence, run, manuals, C!observations>>
    PROVE  CInv'
<1>1. Typed'
  BY DEF CInv, Typed, RunTyped, ControlTyped, EvidenceTyped, C!control, C!evidence, C!observations
<1>2. Loads' /\ Recorded'
  BY DEF CInv, Loads, Recorded, C!ObservationCount, C!control, C!evidence, C!observations
<1>3. CacheIsCurrent' /\ Readable'
  BY DEF CInv, CacheIsCurrent, Readable, OneKickoff, C!Companions, C!Attempted, C!KickoffChanged, C!Listed, C!Cached, C!control,
         C!evidence
<1> QED
  BY <1>1, <1>2, <1>3 DEF CInv, OnTime, C!observations

\* A provider announces another kickoff.
LEMMA ReschedulePreserves ==
    ASSUME C!CollectorConstants, CInv, NEW f \in Fixtures, C!Reschedule(f)
    PROVE  CInv'
<1>1. PICK kickoff \in Schedules[f] : schedule' = [schedule EXCEPT ![f] = kickoff]
  BY DEF C!Reschedule
<1>2. kickoff \in Nat /\ schedule \in [Fixtures -> Nat] /\ now' = now
  BY DEF C!CollectorConstants, CInv, Typed, ControlTyped, C!Reschedule
<1>3. schedule' \in [Fixtures -> Nat] /\ \A g \in Fixtures : schedule'[g] \in Schedules[g]
  BY <1>1, <1>2 DEF CInv, Typed, ControlTyped
<1>4. now' \in Times
  BY <1>2 DEF CInv, Typed, ControlTyped
<1> QED
  BY <1>3, <1>4, ElsewherePreserves DEF C!Reschedule

\* Time passes.
LEMMA TickPreserves ==
    ASSUME C!CollectorConstants, CInv, C!Tick
    PROVE  CInv'
<1> DEFINE later == {t \in Times : t > now}
<1>1. later # {} /\ later \subseteq Nat
  BY DEF C!Tick, C!CollectorConstants
<1>2. now' = C!Min(later)
  BY DEF C!Tick
<1>3. now' \in Times
  BY <1>1, <1>2, MinOfNaturals
<1> QED
  BY <1>3, ElsewherePreserves DEF C!Tick, CInv, Typed, ControlTyped

\* No run has begun, and the control is empty.
LEMMA InitHolds ==
    ASSUME C!CollectorConstants, C!Init
    PROVE  CInv
<1>1. now \in Times
  BY MinOfNaturals DEF C!Init, C!CollectorConstants
<1>2. schedule \in [Fixtures -> Nat] /\ \A f \in Fixtures : schedule[f] \in Schedules[f]
  BY MinOfNaturals DEF C!Init, C!CollectorConstants
<1>3. discovery \in [C!Keys -> Discoveries] /\ attempts \in [Fixtures -> Attempts]
  BY DEF C!Init, C!NoDiscovery, C!NoAttempt, Discoveries, Attempts
<1>4. weekend \in Nat \cup {-1} /\ reserved \in Nat /\ reserved <= Allowance /\ weekend <= WeekendLimit
  BY DEF C!Init, C!CollectorConstants
<1>5. RunTyped /\ run.pc = "idle"
  BY DEF C!Init, C!Idle, RunTyped, Pcs, AtFixture, Cohorts, C!NoCohort, C!Keys, Phases
<1>6. EvidenceTyped
  BY FS_EmptySet DEF C!Init, EvidenceTyped
<1>7. Typed
  BY <1>1, <1>2, <1>3, <1>4, <1>5, <1>6 DEF Typed, ControlTyped
<1>8. Loads /\ Recorded
  BY <1>4, <1>5 DEF C!Init, Loads, Recorded, C!NoAttempt, C!NoDiscovery
<1>9. CacheIsCurrent /\ Readable
  BY <1>5 DEF C!Init, CacheIsCurrent, Readable, OneKickoff, C!Companions, C!Attempted, AtFixture, C!NoAttempt
<1> QED
  BY <1>7, <1>8, <1>9 DEF CInv, OnTime, C!Init

\* Every step of the runs, the operator, the provider and the clock.
LEMMA NextPreserves ==
    ASSUME C!CollectorConstants, CInv, [C!Next]_C!vars
    PROVE  CInv'
<1>1. ASSUME C!RunStep PROVE CInv'
  BY <1>1, EnterCohortPreserves, StoppedPreserves, ReserveDiscoveryPreserves,
     RecordDiscoveryPreserves, DiscoveryAnsweredPreserves, DiscoveryFailedPreserves,
     UseCachePreserves, SkipFixturePreserves, TakeFixturePreserves, RecheckPreserves,
     ReserveQuotePreserves, RecordAttemptPreserves, QuotePreserves, QuoteReviewedPreserves,
     QuoteFailedPreserves, AssessPreserves, StoreCapturePreserves DEF C!RunStep
<1>2. ASSUME C!StartHourly \/ \E selected \in SUBSET Fixtures : C!StartEarly(selected)
      PROVE  CInv'
  BY <1>2, StartPreserves DEF C!StartHourly, C!StartEarly
<1>3. ASSUME UNCHANGED C!vars PROVE CInv'
  BY <1>3, ElsewherePreserves DEF C!vars, CInv, Typed, ControlTyped
<1> QED
  BY <1>1, <1>2, <1>3, StoppedPreserves, ManualCapturePreserves, ReschedulePreserves, TickPreserves
     DEF C!Next

\* Over any number of fixtures and runs, with crashes, postponements, manual
\* captures and any limits, the inductive invariant of the collector holds.
THEOREM CollectorSafety ==
    ASSUME C!CollectorConstants
    PROVE  C!Spec => []CInv
<1>1. C!Init => CInv
  BY InitHolds
<1>2. CInv /\ [C!Next]_C!vars => CInv'
  BY NextPreserves
<1> QED
  BY <1>1, <1>2, PTL DEF C!Spec

\* The control, the run and the evidence keep their types.
THEOREM CollectorTypeCorrect ==
    ASSUME C!CollectorConstants
    PROVE  C!Spec => []C!TypeOK
<1>1. CInv => C!TypeOK
  BY DEF CInv, Typed, ControlTyped, RunTyped, Discoveries, Attempts, C!TypeOK
<1> QED
  BY <1>1, CollectorSafety, PTL

\* The control a run, a crash or a refused reservation leaves loads in the next:
\* at most two attempts a fixture, two queries a day, and no limit is passed.
THEOREM ControlAlwaysLoads ==
    ASSUME C!CollectorConstants
    PROVE  C!Spec => []C!ControlLoads
<1>1. CInv => C!ControlLoads
  BY DEF CInv, Typed, ControlTyped, Loads, C!ControlLoads, C!Attempted, Attempts
<1> QED
  BY <1>1, CollectorSafety, PTL

\* No fixture is bought more often than its attempts say, wherever runs crash.
THEOREM EveryAcquisitionRecorded ==
    ASSUME C!CollectorConstants
    PROVE  C!Spec => []C!AcquisitionsRecorded
<1>1. CInv => C!AcquisitionsRecorded
  BY DEF CInv, Recorded, C!AcquisitionsRecorded
<1> QED
  BY <1>1, CollectorSafety, PTL

\* Without manual captures the weekend runs never leave evidence that the
\* inventory of the next run rejects, whatever the provider postpones.
THEOREM EvidenceAlwaysReadable ==
    ASSUME C!CollectorConstants
    PROVE  C!Spec => []C!EvidenceStaysReadable
<1>1. CInv => C!EvidenceStaysReadable
  BY DEF CInv, Readable, OneKickoff, C!EvidenceStaysReadable, C!InventoryRejected, C!EvidenceRejected,
         C!Companions
<1> QED
  BY <1>1, CollectorSafety, PTL

\* Under the calendar gate no acquisition planned for a Friday slot is sent
\* after the slot.
THEOREM SlotAlwaysHonoured ==
    ASSUME C!CollectorConstants
    PROVE  C!Spec => []C!SlotHonoured
<1>1. CInv => C!SlotHonoured
  BY DEF CInv, OnTime, C!SlotHonoured
<1> QED
  BY <1>1, CollectorSafety, PTL

-----------------------------------------------------------------------------
(* The quotas of the weekend.                                              *)

\* Saturday, and the afternoon slot of the Friday before it, have begun.
SaturdayBegan == now >= 1440 * Saturday
AfternoonBegan == now >= 1440 * (Saturday - 1) + 1140

\* What the two quotas have used: fixtures of the Saturday first captured in the
\* afternoon slot, and acquisitions of the phase near the kickoff.
ForSaturday(f) == attempts[f].kickoff # 0 /\ C!Day(attempts[f].kickoff) = Saturday
AfternoonFixtures == {f \in Fixtures : attempts[f].phase = "afternoon" /\ ForSaturday(f)}
NearKickoffFixtures == {f \in Fixtures : attempts[f].phase = "near_kickoff" /\ ForSaturday(f)}
UsedAfternoon == Cardinality(AfternoonFixtures)
UsedNearKickoff == Cardinality(C!Counted(C!PhaseCount, NearKickoffFixtures))

\* A listing has kickoffs on its own day, and a run works on the day of its cohort.
OfDay ==
    /\ \A k \in C!Keys : \A f \in Fixtures :
          discovery[k].kickoffs[f] # 0 => C!Day(discovery[k].kickoffs[f]) = discovery[k].day
    /\ run.pc \in {"query", "cached", "pick"} \cup AtFixture =>
          discovery[run.cohort.key].day = run.cohort.day

\* What a cohort may be: a slot is on Friday and for the Saturday, and near the
\* kickoff the Saturday has begun.
CohortShape ==
    /\ run.cohort.slot = "none" <=> run.cohort.phase \in {"near_kickoff", "manual_early", "none"}
    /\ run.cohort.slot # "none" => run.cohort.phase = run.cohort.slot /\ FridayReview
    /\ run.cohort.phase \in {"morning", "afternoon", "manual_early"} \/ run.cohort.weekend =>
          run.cohort.weekend /\ run.cohort.day = Saturday
    /\ run.cohort.phase = "near_kickoff" /\ run.cohort.day = Saturday => SaturdayBegan
    /\ run.cohort.phase = "afternoon" => AfternoonBegan
    /\ run.pc \in {"discover", "record", "query", "cached", "pick"} \cup AtFixture => run.cohort.phase # "none"
    /\ run.cohort.phase = "near_kickoff" /\ run.cohort.day = Saturday /\ ~run.cohort.weekend => weekend = -1
    /\ run.cohort.weekend /\ run.pc \in {"attempt", "quote"} => weekend # -1
    /\ run.cohort.phase = "manual_early" /\ run.pc \in {"recheck", "reserve", "attempt"} =>
          ~C!Attempted(run.fixture)

\* The phases follow one another: morning, afternoon, near the kickoff.
InOrder ==
    /\ phases \in [Phases -> Nat]
    /\ phases["afternoon"] > 0 => AfternoonBegan
    /\ phases["near_kickoff"] > 0 => SaturdayBegan /\ weekend # -1
    /\ run.cohort.phase = "morning" => phases["afternoon"] = 0
    /\ run.cohort.slot # "none" => phases["near_kickoff"] = 0

\* The acquisition that has been recorded and is about to be sent.
Sending(phase) ==
    IF run.pc = "quote" /\ run.cohort.phase = phase /\ run.cohort.weekend THEN 1 ELSE 0

\* What was sent, and what is about to be, is within the limit and within what the
\* attempts show; a run that passed the gate of the quota finds it still open.
AfternoonQuota ==
    /\ phases["afternoon"] + Sending("afternoon") <= AfternoonLimit
    /\ ~SaturdayBegan \/ run.cohort.phase = "afternoon" =>
          phases["afternoon"] + Sending("afternoon") <= UsedAfternoon
    /\ run.cohort.phase = "afternoon" /\ run.pc \in {"recheck", "reserve", "attempt"} =>
          UsedAfternoon < AfternoonLimit /\ attempts[run.fixture].phase # "afternoon"
NearKickoffQuota ==
    /\ phases["near_kickoff"] + Sending("near_kickoff") <= SaturdayLimit
    /\ phases["near_kickoff"] + Sending("near_kickoff") <= UsedNearKickoff
    /\ run.cohort.phase = "near_kickoff" /\ run.cohort.weekend
         /\ run.pc \in {"recheck", "reserve", "attempt"} => UsedNearKickoff < SaturdayLimit

\* The inductive invariant of the quotas, beside CInv.
QInv == OfDay /\ CohortShape /\ InOrder /\ AfternoonQuota /\ NearKickoffQuota

\* Where the slots of the Friday lie, and that Saturday is later.
LEMMA SlotTimes ==
    ASSUME NEW t \in Nat, Saturday \in Nat
    PROVE  /\ C!FridaySlot(t) = "morning" => t < 1440 * (Saturday - 1) + 1140
           /\ C!FridaySlot(t) = "afternoon" => t >= 1440 * (Saturday - 1) + 1140
           /\ C!FridaySlot(t) # "none" => t < 1440 * Saturday
           /\ C!Day(t) = Saturday => t >= 1440 * Saturday
<1> DEFINE m == t - 240 - 1440 * (Saturday - 1)
<1>1. C!NYFriday(t) => 0 <= m /\ m < 1440
  BY DEF C!NYFriday, C!Day
<1>2. C!NYFriday(t) => (t - 240) % 1440 = m
  BY DEF C!NYFriday, C!Day
<1>3. C!NYFriday(t) => C!NYHour(t) = m \div 60
  BY <1>2 DEF C!NYHour
<1>4. C!NYFriday(t) /\ C!NYHour(t) \in 7 .. 8 => m < 540
  BY <1>1, <1>3
<1>5. C!NYFriday(t) /\ C!NYHour(t) \in 15 .. 16 => m >= 900 /\ m < 1020
  BY <1>1, <1>3
<1>6. C!FridaySlot(t) = "morning" => C!NYFriday(t) /\ C!NYHour(t) \in 7 .. 8
  BY DEF C!FridaySlot
<1>7. C!FridaySlot(t) = "afternoon" => C!NYFriday(t) /\ C!NYHour(t) \in 15 .. 16
  BY DEF C!FridaySlot
<1>8. C!FridaySlot(t) # "none" => C!FridaySlot(t) \in {"morning", "afternoon"}
  BY DEF C!FridaySlot
<1>9. C!Day(t) = Saturday => t >= 1440 * Saturday
  BY DEF C!Day
<1> QED
  BY <1>4, <1>5, <1>6, <1>7, <1>8, <1>9

\* What the quotas have used is a number.
LEMMA UsedTypes ==
    ASSUME C!CollectorConstants, Typed
    PROVE  /\ UsedAfternoon \in Nat /\ UsedNearKickoff \in Nat
           /\ IsFiniteSet(AfternoonFixtures) /\ IsFiniteSet(C!Counted(C!PhaseCount, NearKickoffFixtures))
<1>1. IsFiniteSet(AfternoonFixtures) /\ IsFiniteSet(NearKickoffFixtures)
  BY FS_Subset, CountsAgree DEF C!CollectorConstants, AfternoonFixtures, NearKickoffFixtures
<1>2. \A f \in NearKickoffFixtures : C!PhaseCount[f] \in Nat
  BY DEF NearKickoffFixtures, C!PhaseCount, Typed, ControlTyped, Attempts
<1> QED
  BY <1>1, <1>2, CountedFinite, FS_CardinalityType DEF UsedAfternoon, UsedNearKickoff

\* The same in the next state.
LEMMA UsedTypesNext ==
    ASSUME C!CollectorConstants, Typed'
    PROVE  /\ UsedAfternoon' \in Nat /\ UsedNearKickoff' \in Nat
           /\ IsFiniteSet(C!Counted(C!PhaseCount, NearKickoffFixtures)')
<1>1. IsFiniteSet(AfternoonFixtures') /\ IsFiniteSet(NearKickoffFixtures')
  BY FS_Subset, CountsAgree DEF C!CollectorConstants, AfternoonFixtures, NearKickoffFixtures
<1>2. \A f \in NearKickoffFixtures' : C!PhaseCount'[f] \in Nat
  BY DEF NearKickoffFixtures, C!PhaseCount, Typed, ControlTyped, Attempts
<1>3. C!Counted(C!PhaseCount, NearKickoffFixtures)' = C!Counted(C!PhaseCount', NearKickoffFixtures')
  BY DEF C!Counted
<1> QED
  BY <1>1, <1>2, <1>3, CountedFinite, FS_CardinalityType DEF UsedAfternoon, UsedNearKickoff

\* What the quotas have used depends on the attempts alone.
LEMMA UsedUnchanged ==
    ASSUME \A f \in Fixtures : /\ attempts'[f].count = attempts[f].count
                               /\ attempts'[f].kickoff = attempts[f].kickoff
                               /\ attempts'[f].phase = attempts[f].phase
                               /\ attempts'[f].phaseAttempts = attempts[f].phaseAttempts
    PROVE  UsedAfternoon' = UsedAfternoon /\ UsedNearKickoff' = UsedNearKickoff
BY DEF ForSaturday, AfternoonFixtures, NearKickoffFixtures, C!PhaseCount, UsedAfternoon, UsedNearKickoff

\* A step that takes no fixture, charges nothing and enters no cohort: what was sent,
\* or was about to be, stays within the quotas.
LEMMA QuotaFrame ==
    ASSUME C!CollectorConstants, CInv, QInv,
           now' \in Nat, now' >= now, UNCHANGED <<discovery, weekend>>,
           \A f \in Fixtures : /\ attempts'[f].count = attempts[f].count
                               /\ attempts'[f].kickoff = attempts[f].kickoff
                               /\ attempts'[f].phase = attempts[f].phase
                               /\ attempts'[f].phaseAttempts = attempts[f].phaseAttempts,
           phases' \in [Phases -> Nat],
           \A p \in {"afternoon", "near_kickoff"} :
              phases'[p] + Sending(p)' <= phases[p] + Sending(p),
           \/ run'.cohort = C!NoCohort /\ run'.pc \in {"idle", "cohort"}
           \/ /\ run'.cohort = run.cohort
              /\ run'.pc \in {"recheck", "reserve", "attempt"} =>
                    run.pc \in {"recheck", "reserve", "attempt"} /\ run'.fixture = run.fixture
              /\ run'.pc \in {"attempt", "quote"} => run.pc \in {"attempt", "quote"}
              /\ run'.pc \in {"query", "cached", "pick"} \cup AtFixture =>
                    run.pc \in {"query", "cached", "pick"} \cup AtFixture
              /\ run'.pc \in {"idle", "cohort"} \/ run.pc \notin {"idle", "cohort"}
    PROVE  QInv'
<1>1. now \in Nat /\ Saturday \in Nat
  BY DEF C!CollectorConstants, CInv, Typed, ControlTyped
<1>2. /\ SaturdayBegan => SaturdayBegan'
      /\ AfternoonBegan => AfternoonBegan'
  BY <1>1 DEF SaturdayBegan, AfternoonBegan
<1>3. UsedAfternoon' = UsedAfternoon /\ UsedNearKickoff' = UsedNearKickoff
  BY UsedUnchanged
<1>4. UsedAfternoon \in Nat /\ UsedNearKickoff \in Nat
      /\ AfternoonLimit \in Nat /\ SaturdayLimit \in Nat
  BY UsedTypes DEF CInv, C!CollectorConstants
<1>5. \A p \in {"afternoon", "near_kickoff"} :
         /\ Sending(p) \in {0, 1} /\ Sending(p)' \in {0, 1}
         /\ phases[p] \in Nat /\ phases'[p] \in Nat
         /\ phases'[p] <= phases[p] + Sending(p)
  BY DEF QInv, InOrder, Sending, Phases
<1>6. run.fixture \in Fixtures \/ run.pc \notin AtFixture
  BY DEF CInv, Typed, RunTyped
<1>7. OfDay'
  BY DEF QInv, OfDay, AtFixture
<1>8. CohortShape'
  <2>1. CASE run'.cohort = C!NoCohort /\ run'.pc \in {"idle", "cohort"}
    BY <2>1 DEF CohortShape, C!NoCohort, AtFixture
  <2>2. CASE ~(run'.cohort = C!NoCohort /\ run'.pc \in {"idle", "cohort"})
    <3>1. run'.cohort = run.cohort
      BY <2>2
    <3>2. run'.cohort.phase = "manual_early" /\ run'.pc \in {"recheck", "reserve", "attempt"} =>
             ~(attempts'[run'.fixture].count > 0)
      BY <1>6, <2>2 DEF QInv, CohortShape, C!Attempted, AtFixture
    <3>3. run'.pc \in {"discover", "record", "query", "cached", "pick"} \cup AtFixture =>
             run'.cohort.phase # "none"
      BY <2>2 DEF QInv, CohortShape, AtFixture, CInv, Typed, RunTyped, Pcs
    <3>4. run'.cohort.weekend /\ run'.pc \in {"attempt", "quote"} => weekend' # -1
      BY <2>2 DEF QInv, CohortShape
    <3> QED
      BY <1>2, <3>1, <3>2, <3>3, <3>4 DEF QInv, CohortShape, C!Attempted
  <2> QED
    BY <2>1, <2>2
<1>9. InOrder'
  <2>1. phases'["afternoon"] > 0 => AfternoonBegan'
    BY <1>2, <1>5 DEF QInv, InOrder, CohortShape, Sending
  <2>2. phases'["near_kickoff"] > 0 => SaturdayBegan' /\ weekend' # -1
    BY <1>2, <1>5 DEF QInv, InOrder, CohortShape, Sending
  <2>3. run'.cohort.phase = "morning" => phases'["afternoon"] = 0
    BY <1>5 DEF QInv, InOrder, CohortShape, Sending, C!NoCohort
  <2>4. run'.cohort.slot # "none" => phases'["near_kickoff"] = 0
    BY <1>5 DEF QInv, InOrder, CohortShape, Sending, C!NoCohort
  <2> QED
    BY <2>1, <2>2, <2>3, <2>4 DEF InOrder
<1>10. AfternoonQuota'
  <2> HIDE DEF Sending
  <2>1. phases'["afternoon"] + Sending("afternoon")' <= AfternoonLimit
    BY <1>4, <1>5 DEF QInv, AfternoonQuota
  <2>2. ~SaturdayBegan' \/ run'.cohort.phase = "afternoon" =>
           phases'["afternoon"] + Sending("afternoon")' <= UsedAfternoon'
    BY <1>2, <1>3, <1>4, <1>5 DEF QInv, AfternoonQuota, C!NoCohort
  <2>3. run'.cohort.phase = "afternoon" /\ run'.pc \in {"recheck", "reserve", "attempt"} =>
          UsedAfternoon' < AfternoonLimit /\ attempts'[run'.fixture].phase # "afternoon"
    BY <1>3, <1>6 DEF QInv, AfternoonQuota, C!NoCohort, AtFixture
  <2> QED
    BY <2>1, <2>2, <2>3 DEF AfternoonQuota
<1>11. NearKickoffQuota'
  <2> HIDE DEF Sending
  <2>1. phases'["near_kickoff"] + Sending("near_kickoff")' <= SaturdayLimit
        /\ phases'["near_kickoff"] + Sending("near_kickoff")' <= UsedNearKickoff'
    BY <1>3, <1>4, <1>5 DEF QInv, NearKickoffQuota
  <2>2. run'.cohort.phase = "near_kickoff" /\ run'.cohort.weekend
           /\ run'.pc \in {"recheck", "reserve", "attempt"} => UsedNearKickoff' < SaturdayLimit
    BY <1>3 DEF QInv, NearKickoffQuota, C!NoCohort
  <2> QED
    BY <2>1, <2>2 DEF NearKickoffQuota
<1> QED
  BY <1>7, <1>8, <1>9, <1>10, <1>11 DEF QInv

\* An acquisition that is sent is counted where it was about to be.
LEMMA SentCounted ==
    ASSUME CInv, QInv, run.pc = "quote", C!Sent(run.fixture), run'.pc # "quote"
    PROVE  /\ phases' \in [Phases -> Nat]
           /\ \A p \in {"afternoon", "near_kickoff"} :
                 phases'[p] + Sending(p)' <= phases[p] + Sending(p)
<1>1. run.cohort.phase \in Phases
  BY DEF CInv, Typed, RunTyped, Cohorts, QInv, CohortShape, AtFixture
<1>2. phases \in [Phases -> Nat]
  BY DEF QInv, InOrder
<1>3. phases' = IF run.cohort.weekend THEN [phases EXCEPT ![run.cohort.phase] = @ + 1] ELSE phases
  BY DEF C!Sent
<1>4. \A p \in {"afternoon", "near_kickoff"} : p \in Phases /\ Sending(p)' = 0
         /\ Sending(p) = IF run.cohort.phase = p /\ run.cohort.weekend THEN 1 ELSE 0
  BY DEF Phases, Sending
<1>5. phases' \in [Phases -> Nat]
  BY <1>1, <1>2, <1>3
<1>6. \A p \in {"afternoon", "near_kickoff"} : phases'[p] = phases[p] + Sending(p)
  BY <1>1, <1>2, <1>3, <1>4
<1>7. \A p \in {"afternoon", "near_kickoff"} : phases'[p] \in Nat
  BY <1>4, <1>5
<1> QED
  BY <1>4, <1>5, <1>6, <1>7

\* A run begins, ends or goes to its next cohort.
LEMMA QuietQuota ==
    ASSUME C!CollectorConstants, CInv, QInv,
           UNCHANGED <<now, C!control, phases>>,
           \/ C!EndRun \/ C!NextCohort \/ \E stages, selected : C!StartRun(stages, selected)
    PROVE  QInv'
<1>1. run'.cohort = C!NoCohort /\ run'.pc \in {"idle", "cohort"}
  <2>1. CASE C!EndRun
    BY <2>1, RunEnds
  <2>2. CASE C!NextCohort
    BY <2>2, CohortEnds DEF CInv, Typed
  <2>3. CASE \E stages, selected : C!StartRun(stages, selected)
    <3>1. PICK stages, selected : C!StartRun(stages, selected)
      BY <2>3
    <3>2. CASE ~C!InventoryRejected
      <4> DEFINE known == [f \in Fixtures |-> C!Captured(f, C!Companions(f))]
                 planned == IF FridayReview THEN C!FridaySlot(now) ELSE "none"
      <4>1. run' = [C!Idle EXCEPT !.pc = "cohort", !.began = now, !.stages = stages,
                                !.selected = selected, !.planned = planned, !.captured = known]
        BY <3>1, <3>2 DEF C!StartRun
      <4> HIDE DEF known, planned
      <4> QED
        BY <4>1 DEF C!Idle
    <3> QED
      BY <3>1, <3>2, RunEnds DEF C!StartRun
  <2> QED
    BY <2>1, <2>2, <2>3
<1>2. now \in Nat /\ now' \in Nat /\ now' >= now
  <2>1. now' = now /\ Times \subseteq Nat /\ now \in Times
    BY DEF CInv, Typed, ControlTyped, C!CollectorConstants
  <2> QED
    BY <2>1
<1>3. \A p : phases'[p] = phases[p] /\ Sending(p)' = 0 /\ Sending(p) \in {0, 1}
  BY <1>1 DEF Sending
<1>4. phases' \in [Phases -> Nat] /\ {"afternoon", "near_kickoff"} \subseteq Phases
  BY DEF QInv, InOrder, Phases
<1>5. \A p \in {"afternoon", "near_kickoff"} :
         phases'[p] + Sending(p)' <= phases[p] + Sending(p)
  BY <1>3, <1>4
<1> QED
  BY <1>1, <1>2, <1>4, <1>5, QuotaFrame DEF C!control

\* A step of the run that keeps its cohort and what is saved.
LEMMA SameCohortQuota ==
    ASSUME C!CollectorConstants, CInv, QInv,
           UNCHANGED <<now, C!control, phases>>,
           run'.cohort = run.cohort,
           run.pc \in {"cached", "pick", "recheck", "assess"}, run'.pc \in {"pick", "reserve", "captured"},
           run'.pc = "reserve" => run.pc = "recheck" /\ run'.fixture = run.fixture
    PROVE  QInv'
<1>1. now \in Nat /\ now' \in Nat /\ now' >= now
  BY DEF CInv, Typed, ControlTyped, C!CollectorConstants
<1>2. \A p \in {"afternoon", "near_kickoff"} :
         phases'[p] + Sending(p)' <= phases[p] + Sending(p)
  BY DEF Sending, QInv, InOrder, Phases
<1> QED
  BY <1>1, <1>2, QuotaFrame DEF C!control, QInv, InOrder, AtFixture

\* The outcomes of an acquisition.
LEMMA OutcomeQuota ==
    ASSUME C!CollectorConstants, CInv, QInv,
           \/ \E good, teamTotals \in BOOLEAN : C!Quote(good, teamTotals)
           \/ C!QuoteReviewed \/ C!QuoteFailed
           \/ C!AssessUnusable \/ C!AssessAgain \/ C!HistoryMissing \/ C!AssessCapture
    PROVE  QInv'
<1>1. /\ run.pc \in {"quote", "assess", "captured"}
      /\ UNCHANGED <<now, discovery, weekend>>
  BY DEF C!Quote, C!QuoteReviewed, C!QuoteFailed, C!AssessUnusable, C!AssessAgain, C!HistoryMissing,
         C!AssessCapture, C!control
<1>2. \/ UNCHANGED attempts
      \/ \E state \in {"DONE", "NO_TEAM_TOTAL", "REVIEW", "HISTORY"} : C!SaveState(state)
  BY DEF C!Quote, C!QuoteReviewed, C!QuoteFailed, C!AssessUnusable, C!AssessAgain, C!HistoryMissing,
         C!AssessCapture, C!control
<1>3. \A g \in Fixtures : /\ attempts'[g].count = attempts[g].count
                          /\ attempts'[g].kickoff = attempts[g].kickoff
                          /\ attempts'[g].phase = attempts[g].phase
                          /\ attempts'[g].phaseAttempts = attempts[g].phaseAttempts
  BY <1>1, <1>2, SaveStateSound DEF CInv, AtFixture
<1>4. \/ run'.cohort = C!NoCohort /\ run'.pc = "idle"
      \/ run'.cohort = run.cohort /\ run'.pc \in {"pick", "assess"}
  <2>1. CASE C!EndRun
    BY <2>1, RunEnds
  <2>2. CASE ~C!EndRun
    BY ZenonT(60), <2>2, RunFields DEF C!Quote, C!QuoteReviewed, C!QuoteFailed, C!AssessUnusable, C!AssessAgain,
          C!HistoryMissing, C!AssessCapture, C!NextFixture, CInv, Typed
  <2> QED
    BY <2>1, <2>2
<1>5. /\ phases' \in [Phases -> Nat]
      /\ \A p \in {"afternoon", "near_kickoff"} :
            phases'[p] + Sending(p)' <= phases[p] + Sending(p)
  <2>1. CASE run.pc = "quote"
    <3>1. C!Sent(run.fixture)
      BY <2>1 DEF C!Quote, C!QuoteReviewed, C!QuoteFailed, C!AssessUnusable, C!AssessAgain, C!HistoryMissing,
                  C!AssessCapture
    <3> QED
      BY <1>4, <2>1, <3>1, SentCounted
  <2>2. CASE run.pc # "quote"
    <3>1. phases' = phases
      BY <2>2 DEF C!Quote, C!QuoteReviewed, C!QuoteFailed, C!AssessUnusable, C!AssessAgain, C!HistoryMissing,
                  C!AssessCapture, C!observations
    <3> QED
      BY <1>4, <2>2, <3>1 DEF Sending, QInv, InOrder, Phases
  <2> QED
    BY <2>1, <2>2
<1>6. now \in Nat /\ now' \in Nat /\ now' >= now
  <2>1. now \in Nat
    BY DEF CInv, Typed, ControlTyped, C!CollectorConstants
  <2> QED
    BY <1>1, <2>1
<1> QED
  BY <1>1, <1>3, <1>4, <1>5, <1>6, QuotaFrame DEF AtFixture

\* A step that leaves the control, the phases and the run alone.
LEMMA ElsewhereQuota ==
    ASSUME C!CollectorConstants, CInv, QInv,
           now' \in Nat, now' >= now, UNCHANGED <<C!control, run, phases>>
    PROVE  QInv'
BY QuotaFrame DEF Sending, QInv, InOrder, Phases, C!control

\* The cohort of a stage follows the clock.
LEMMA EnterCohortQuota ==
    ASSUME C!CollectorConstants, CInv, QInv, C!EnterCohort
    PROVE  QInv'
<1>1. UNCHANGED <<now, C!control, phases>> /\ run.pc = "cohort"
  BY DEF C!EnterCohort, C!observations
<1>2. CASE C!NextCohort
  BY <1>1, <1>2, QuietQuota
<1>3. CASE ~C!NextCohort
  <2>1. PICK stage, c : stage = Head(run.stages) /\ c = C!CohortAt(stage, now)
    OBVIOUS
  <2>2. run' = [run EXCEPT !.cohort = c,
                   !.pc = IF discovery[c.key].day # c.day \/ c.retry THEN "discover" ELSE "cached"]
    BY <1>3, <2>1 DEF C!EnterCohort
  <2>3. /\ run'.cohort = c /\ run'.pc \in {"discover", "cached"}
        /\ run'.pc = "cached" => discovery[c.key].day = c.day
    BY <2>2, RunFields DEF CInv, Typed
  <2>4. now \in Nat /\ Saturday \in Nat
    BY DEF CInv, Typed, ControlTyped, C!CollectorConstants
  <2>5. /\ c.slot = IF stage = "main" /\ FridayReview THEN C!FridaySlot(now) ELSE "none"
        /\ c.day = IF stage = "early" \/ c.slot # "none" THEN Saturday ELSE C!Day(now)
        /\ c.phase = IF stage = "early" THEN "manual_early"
                     ELSE IF c.slot # "none" THEN c.slot ELSE "near_kickoff"
        /\ c.weekend <=> /\ c.day = Saturday
                         /\ FridayReview \/ stage = "early" \/ (c.day = Saturday /\ weekend # -1)
    BY <2>1 DEF C!CohortAt
  <2>6. c.slot \in {"none", "morning", "afternoon"} /\ (stage = "early" => c.slot = "none")
    BY <2>5 DEF C!FridaySlot
  <2>7. /\ c.slot = "morning" => ~AfternoonBegan
        /\ c.slot = "afternoon" => AfternoonBegan
        /\ c.slot # "none" => ~SaturdayBegan
        /\ C!Day(now) = Saturday => SaturdayBegan
    BY <2>4, <2>5, SlotTimes DEF AfternoonBegan, SaturdayBegan
  <2>8. OfDay'
    BY <1>1, <2>3 DEF QInv, OfDay, AtFixture, C!control
  <2>9. CohortShape'
    BY <1>1, <2>3, <2>5, <2>6, <2>7 DEF CohortShape, SaturdayBegan, AfternoonBegan, C!control
  <2>10. InOrder'
    <3>1. /\ c.phase = "morning" => phases["afternoon"] = 0
          /\ c.slot # "none" => phases["near_kickoff"] = 0
      BY <2>5, <2>6, <2>7 DEF QInv, InOrder, Phases
    <3> QED
      BY <1>1, <2>3, <3>1 DEF QInv, InOrder, SaturdayBegan, AfternoonBegan, C!control
  <2>11. UsedAfternoon' = UsedAfternoon /\ UsedNearKickoff' = UsedNearKickoff
    BY <1>1, UsedUnchanged DEF C!control
  <2>12. \A p : Sending(p) = 0 /\ Sending(p)' = 0
    BY <1>1, <2>3 DEF Sending
  <2>13. AfternoonQuota'
    <3>1. c.phase = "afternoon" => ~SaturdayBegan
      BY <2>5, <2>6, <2>7
    <3> QED
      BY <1>1, <2>3, <2>11, <2>12, <3>1 DEF QInv, AfternoonQuota, SaturdayBegan
  <2>14. NearKickoffQuota'
    BY <1>1, <2>3, <2>11, <2>12 DEF QInv, NearKickoffQuota
  <2> QED
    BY <2>8, <2>9, <2>10, <2>13, <2>14 DEF QInv
<1> QED
  BY <1>2, <1>3

\* A reservation: the weekend allocation exists from the first charge on.
LEMMA ChargeQuota ==
    ASSUME C!CollectorConstants, CInv, QInv, NEW count \in Nat \ {0},
           C!Charge(count), UNCHANGED <<now, discovery, attempts, phases>>,
           run'.cohort = run.cohort, run'.fixture = run.fixture,
           \/ run.pc = "discover" /\ run'.pc = "record"
           \/ run.pc = "reserve" /\ run'.pc = "attempt"
    PROVE  QInv'
<1>1. weekend' = IF run.cohort.weekend THEN C!WeekendSpent + count ELSE weekend
  BY DEF C!Charge
<1>2. C!WeekendSpent \in Nat
  BY WeekendSpentType DEF CInv, Typed
<1>3. run.cohort.weekend => weekend' \in Nat /\ weekend' # -1
  BY <1>1, <1>2
<1>4. ~run.cohort.weekend => weekend' = weekend
  BY <1>1
<1>5. UsedAfternoon' = UsedAfternoon /\ UsedNearKickoff' = UsedNearKickoff
  BY UsedUnchanged
<1>6. \A p : Sending(p) = 0 /\ Sending(p)' = 0
  BY DEF Sending
<1>7. OfDay'
  BY DEF QInv, OfDay, AtFixture
<1>8. CohortShape'
  BY <1>3, <1>4 DEF QInv, CohortShape, SaturdayBegan, AfternoonBegan, C!Attempted, AtFixture
<1>9. InOrder'
  BY <1>3, <1>4 DEF QInv, InOrder, SaturdayBegan, AfternoonBegan
<1>10. AfternoonQuota'
  BY <1>5, <1>6 DEF QInv, AfternoonQuota, SaturdayBegan
<1>11. NearKickoffQuota'
  BY <1>5, <1>6 DEF QInv, NearKickoffQuota
<1> QED
  BY <1>7, <1>8, <1>9, <1>10, <1>11 DEF QInv

\* A reservation, of a discovery or of an acquisition, granted or refused.
LEMMA ReservationQuota ==
    ASSUME C!CollectorConstants, CInv, QInv, C!ReserveDiscovery \/ C!ReserveQuote
    PROVE  QInv'
<1>1. CASE C!ReserveDiscovery
  BY <1>1, RunFields, ChargeQuota DEF CInv, Typed, C!ReserveDiscovery, C!observations
<1>2. CASE C!ReserveQuote
  BY <1>2, RunFields, ChargeQuota DEF C!Cost, C!ReserveQuote, CInv, Typed, C!observations
<1> QED
  BY <1>1, <1>2

\* Discovery: what is cached are kickoffs on the day that was asked for.
LEMMA DiscoveryQuotaFrame ==
    ASSUME C!CollectorConstants, CInv, QInv, OfDay',
           UNCHANGED <<now, attempts, weekend, phases>>,
           run.pc \in {"record", "query"}, run'.pc \in {"idle", "query", "cached"},
           run'.cohort = run.cohort \/ (run'.cohort = C!NoCohort /\ run'.pc = "idle")
    PROVE  QInv'
<1>1. UsedAfternoon' = UsedAfternoon /\ UsedNearKickoff' = UsedNearKickoff
  BY UsedUnchanged
<1>2. \A p : Sending(p) = 0 /\ Sending(p)' = 0
  BY DEF Sending
<1>3. CohortShape'
  BY DEF QInv, CohortShape, SaturdayBegan, AfternoonBegan, C!NoCohort, AtFixture
<1>4. InOrder'
  BY DEF QInv, InOrder, SaturdayBegan, AfternoonBegan, C!NoCohort
<1>5. AfternoonQuota'
  BY <1>1, <1>2 DEF QInv, AfternoonQuota, SaturdayBegan, C!NoCohort
<1>6. NearKickoffQuota'
  BY <1>1, <1>2 DEF QInv, NearKickoffQuota, C!NoCohort
<1> QED
  BY <1>3, <1>4, <1>5, <1>6 DEF QInv

\* Every step of a discovery.
LEMMA DiscoveryQuota ==
    ASSUME C!CollectorConstants, CInv, QInv,
           \/ C!RecordDiscovery \/ C!DiscoveryFailed
           \/ \E listed \in SUBSET Fixtures : C!DiscoveryAnswered(listed)
    PROVE  QInv'
<1>1. PICK k, d : k = run.cohort.key /\ d = discovery[k]
  OBVIOUS
<1>2. /\ k \in C!Keys /\ d \in Discoveries /\ run.cohort.day \in Int /\ run.cohort.at \in Nat
      /\ discovery \in [C!Keys -> Discoveries] /\ schedule \in [Fixtures -> Nat]
  BY <1>1 DEF CInv, Typed, RunTyped, ControlTyped, Cohorts
<1>3. \A f \in Fixtures : d.kickoffs[f] # 0 => C!Day(d.kickoffs[f]) = d.day
  BY <1>1, <1>2 DEF QInv, OfDay
<1>4. CASE C!RecordDiscovery
  <2>1. PICK asked : asked = IF d.day # run.cohort.day
                    THEN [C!NoDiscovery EXCEPT !.day = run.cohort.day, !.status = "RESERVED",
                                             !.queries = 1, !.at = run.cohort.at]
                    ELSE [d EXCEPT !.status = "RESERVED", !.queries = 2, !.at = run.cohort.at]
    OBVIOUS
  <2>2. discovery' = [discovery EXCEPT ![k] = asked]
    BY <1>1, <1>4, <2>1 DEF C!RecordDiscovery
  <2>3. asked.day = run.cohort.day
        /\ \A f \in Fixtures : asked.kickoffs[f] # 0 => C!Day(asked.kickoffs[f]) = asked.day
    BY <1>2, <1>3, <2>1 DEF C!NoDiscovery, Discoveries
  <2>4. run'.pc = "query" /\ run'.cohort = run.cohort
    BY <1>4, RunFields DEF C!RecordDiscovery, CInv, Typed
  <2>5. OfDay'
    BY <1>1, <1>2, <2>2, <2>3, <2>4 DEF QInv, OfDay
  <2> QED
    BY <1>4, <2>4, <2>5, DiscoveryQuotaFrame DEF C!RecordDiscovery, C!observations
<1>5. CASE C!DiscoveryFailed
  <2>1. \/ discovery' = discovery
        \/ discovery' = [discovery EXCEPT ![k] = [d EXCEPT !.status = "FAILED"]]
    BY <1>1, <1>5 DEF C!DiscoveryFailed
  <2>2. PICK failed : failed = [d EXCEPT !.status = "FAILED"]
    OBVIOUS
  <2>3. failed.day = d.day /\ failed.kickoffs = d.kickoffs
    BY <1>2, <2>2 DEF Discoveries
  <2>4. run'.pc = "idle" /\ run'.cohort = C!NoCohort
    BY <1>5, RunEnds DEF C!DiscoveryFailed
  <2>5. \A j \in C!Keys : discovery'[j].day = discovery[j].day
                         /\ discovery'[j].kickoffs = discovery[j].kickoffs
    BY <1>1, <1>2, <2>1, <2>2, <2>3
  <2>6. OfDay'
    BY <2>4, <2>5 DEF QInv, OfDay, AtFixture
  <2> QED
    BY <1>5, <2>4, <2>6, DiscoveryQuotaFrame DEF C!DiscoveryFailed, C!observations
<1>6. CASE \E listed \in SUBSET Fixtures : C!DiscoveryAnswered(listed)
  <2>1. PICK listed \in SUBSET Fixtures : C!DiscoveryAnswered(listed)
    BY <1>6
  <2>2. PICK found : found = C!Discovered(listed)
    OBVIOUS
  <2>3. discovery' = [discovery EXCEPT ![k] = found]
    BY <1>1, <2>1, <2>2 DEF C!DiscoveryAnswered
  <2>4. d.day = run.cohort.day /\ \A f \in listed : C!Day(schedule[f]) = d.day
    BY <1>1, <2>1 DEF C!DiscoveryAnswered, QInv, OfDay
  <2>5. found.day = d.day
        /\ \A f \in Fixtures : found.kickoffs[f] # 0 => C!Day(found.kickoffs[f]) = found.day
    BY <1>1, <1>2, <1>3, <2>2, <2>4 DEF C!Discovered, Discoveries
  <2>6. \/ run'.pc = "idle" /\ run'.cohort = C!NoCohort
        \/ run'.pc = "cached" /\ run'.cohort = run.cohort
    BY <2>1, RunEnds, RunFields DEF C!DiscoveryAnswered, CInv, Typed
  <2>7. OfDay'
    BY <1>1, <1>2, <2>3, <2>4, <2>5, <2>6 DEF QInv, OfDay, AtFixture
  <2> QED
    BY <2>1, <2>6, <2>7, DiscoveryQuotaFrame DEF C!DiscoveryAnswered, C!observations
<1> QED
  BY <1>4, <1>5, <1>6

\* A fixture is taken only below the quota of its phase.
LEMMA TakeFixtureQuota ==
    ASSUME C!CollectorConstants, CInv, QInv, C!TakeFixture
    PROVE  QInv'
<1>1. PICK f : f = C!FirstFixture
  OBVIOUS
<1>2. ~C!QuotaReached(f) /\ C!Eligible(f) /\ C!InPolicy(f) /\ run.pc = "pick"
      /\ UNCHANGED <<now, C!control, phases>>
  BY <1>1 DEF C!TakeFixture, C!Eligible, C!observations
<1>3. run'.pc = "recheck" /\ run'.cohort = run.cohort /\ run'.fixture = f
  BY <1>1, RunFields DEF C!TakeFixture, CInv, Typed
<1>4. UsedAfternoon' = UsedAfternoon /\ UsedNearKickoff' = UsedNearKickoff
  BY <1>2, UsedUnchanged DEF C!control
<1>5. \A p : Sending(p) = 0 /\ Sending(p)' = 0
  BY <1>2, <1>3 DEF Sending
<1>6. UsedAfternoon \in Nat /\ UsedNearKickoff \in Nat
      /\ AfternoonLimit \in Nat /\ SaturdayLimit \in Nat
  BY UsedTypes DEF CInv, C!CollectorConstants
<1>7. run.cohort.weekend => C!AfternoonAttempts = UsedAfternoon /\ C!NearKickoffAttempts = UsedNearKickoff
  <2> SUFFICES ASSUME run.cohort.weekend
               PROVE  C!AfternoonAttempts = UsedAfternoon /\ C!NearKickoffAttempts = UsedNearKickoff
    OBVIOUS
  <2>1. run.cohort.day = Saturday
    BY DEF QInv, CohortShape
  <2>2. \A g \in Fixtures : C!OnDay(g) <=> ForSaturday(g)
    BY <2>1 DEF C!OnDay, ForSaturday
  <2>3. AfternoonFixtures = {g \in Fixtures : attempts[g].phase = "afternoon" /\ C!OnDay(g)}
        /\ NearKickoffFixtures = {g \in Fixtures : attempts[g].phase = "near_kickoff" /\ C!OnDay(g)}
    BY <2>2 DEF AfternoonFixtures, NearKickoffFixtures
  <2> QED
    BY <2>3, CountsAgree DEF C!AfternoonAttempts, C!NearKickoffAttempts, UsedAfternoon, UsedNearKickoff
<1>8. run.cohort.phase = "afternoon" => run.cohort.weekend
  BY DEF QInv, CohortShape
<1>9. run.cohort.phase = "afternoon" => UsedAfternoon < AfternoonLimit /\ attempts[f].phase # "afternoon"
  BY <1>2, <1>6, <1>7, <1>8 DEF C!QuotaReached, C!Eligible
<1>10. run.cohort.phase = "near_kickoff" /\ run.cohort.weekend => UsedNearKickoff < SaturdayLimit
  BY <1>2, <1>6, <1>7 DEF C!QuotaReached
<1>11. run.cohort.phase = "manual_early" => ~C!Attempted(f)
  BY <1>2 DEF C!InPolicy, C!Early
<1>12. OfDay'
  BY <1>2, <1>3 DEF QInv, OfDay, AtFixture, C!control
<1>13. CohortShape'
  BY <1>2, <1>3, <1>11 DEF QInv, CohortShape, SaturdayBegan, AfternoonBegan, C!Attempted, C!control, AtFixture
<1>14. InOrder'
  BY <1>2, <1>3 DEF QInv, InOrder, SaturdayBegan, AfternoonBegan, C!control
<1>15. AfternoonQuota'
  BY <1>2, <1>3, <1>4, <1>5, <1>9 DEF QInv, AfternoonQuota, SaturdayBegan, C!control
<1>16. NearKickoffQuota'
  BY <1>2, <1>3, <1>4, <1>5, <1>10 DEF QInv, NearKickoffQuota, C!control
<1> QED
  BY <1>12, <1>13, <1>14, <1>15, <1>16 DEF QInv

\* An attempt of the afternoon adds its fixture to those the quota counts; any other
\* attempt, made while the afternoon may still come, takes none of them away.
LEMMA AttemptCountsAfternoon ==
    ASSUME C!CollectorConstants, CInv, QInv, run.pc = "attempt",
           NEW f, f = run.fixture, NEW attempt, attempt = C!NewAttempt(f),
           attempts' = [attempts EXCEPT ![f] = attempt]
    PROVE  /\ run.cohort.phase = "afternoon" => UsedAfternoon' = UsedAfternoon + 1
           /\ run.cohort.phase # "afternoon" /\ ~SaturdayBegan /\ phases["afternoon"] > 0
                 => UsedAfternoon' = UsedAfternoon
<1>1. f \in Fixtures /\ attempts \in [Fixtures -> Attempts] /\ attempt \in Attempts
      /\ (FridayReview => attempt.kickoff = C!Cached(f))
  BY NewAttemptLoads DEF CInv, Typed, RunTyped, ControlTyped, AtFixture
<1>2. attempts'[f] = attempt /\ \A g \in Fixtures : g # f => attempts'[g] = attempts[g]
  BY <1>1
<1>3. \A g \in Fixtures : g # f => (g \in AfternoonFixtures' <=> g \in AfternoonFixtures)
  BY <1>2 DEF AfternoonFixtures, ForSaturday
<1>4. f \in AfternoonFixtures' <=> /\ attempt.phase = "afternoon"
                                   /\ attempt.kickoff # 0 /\ C!Day(attempt.kickoff) = Saturday
  BY <1>1, <1>2 DEF AfternoonFixtures, ForSaturday
<1>5. C!Cached(f) # 0 /\ C!Day(C!Cached(f)) = run.cohort.day
  <2>1. run.cohort.key \in C!Keys
    BY DEF CInv, Typed, RunTyped, Cohorts
  <2> QED
    BY <1>1, <2>1 DEF CInv, CacheIsCurrent, QInv, OfDay, C!Cached, AtFixture
<1>6. IsFiniteSet(AfternoonFixtures) /\ UsedAfternoon \in Nat
  BY UsedTypes DEF CInv
<1>7. ASSUME run.cohort.phase = "afternoon" PROVE UsedAfternoon' = UsedAfternoon + 1
  <2>1. FridayReview /\ run.cohort.day = Saturday
    BY <1>7 DEF QInv, CohortShape
  <2>2. attempt.phase = "afternoon" /\ attempt.kickoff = C!Cached(f)
    BY <1>1, <1>7, <2>1 DEF C!NewAttempt
  <2>3. f \notin AfternoonFixtures
    BY <1>7 DEF QInv, AfternoonQuota, AfternoonFixtures
  <2>4. AfternoonFixtures' = AfternoonFixtures \cup {f}
    BY <1>1, <1>3, <1>4, <1>5, <2>1, <2>2 DEF AfternoonFixtures
  <2> QED
    BY <1>6, <2>3, <2>4, FS_AddElement DEF UsedAfternoon
<1>8. ASSUME run.cohort.phase # "afternoon", ~SaturdayBegan, phases["afternoon"] > 0
      PROVE  UsedAfternoon' = UsedAfternoon
  <2>1. attempt.phase # "afternoon"
    BY <1>8 DEF C!NewAttempt
  <2>2. run.cohort.phase \in {"near_kickoff", "manual_early"}
    <3>1. run.cohort.phase \in Phases
      BY DEF QInv, CohortShape, CInv, Typed, RunTyped, Cohorts, AtFixture
    <3>2. run.cohort.phase # "morning"
      BY <1>8 DEF QInv, InOrder
    <3> QED
      BY <1>8, <3>1, <3>2 DEF Phases
  <2>3. f \notin AfternoonFixtures
    <3> SUFFICES ASSUME f \in AfternoonFixtures PROVE FALSE
      OBVIOUS
    <3>1. attempts[f].phase = "afternoon" /\ attempts[f].kickoff # 0
          /\ C!Day(attempts[f].kickoff) = Saturday
      BY DEF AfternoonFixtures, ForSaturday
    <3>2. C!Attempted(f)
      BY <1>1, <3>1 DEF Attempts, CInv, Loads, C!Attempted
    <3>3. attempts[f].kickoff = C!Cached(f)
      BY <3>1, <3>2 DEF CInv, CacheIsCurrent, C!KickoffChanged
    <3>4. run.cohort.day = Saturday
      BY <1>5, <3>1, <3>3
    <3> QED
      BY <1>8, <2>2, <3>2, <3>4 DEF QInv, CohortShape
  <2>4. AfternoonFixtures' = AfternoonFixtures
    BY <1>1, <1>3, <1>4, <2>1, <2>3 DEF AfternoonFixtures
  <2> QED
    BY <2>4 DEF UsedAfternoon
<1> QED
  BY <1>7, <1>8

\* An attempt near kickoff on the weekend counts one acquisition more; any other
\* attempt, once there was one, leaves the counted ones alone.
LEMMA AttemptCountsNearKickoff ==
    ASSUME C!CollectorConstants, CInv, QInv, run.pc = "attempt",
           NEW f, f = run.fixture, NEW attempt, attempt = C!NewAttempt(f),
           attempts' = [attempts EXCEPT ![f] = attempt], UsedNearKickoff' \in Nat,
           IsFiniteSet(C!Counted(C!PhaseCount, NearKickoffFixtures)')
    PROVE  /\ run.cohort.phase = "near_kickoff" /\ run.cohort.weekend =>
                 UsedNearKickoff' >= UsedNearKickoff + 1
           /\ ~(run.cohort.phase = "near_kickoff" /\ run.cohort.weekend)
                 /\ phases["near_kickoff"] > 0 => UsedNearKickoff' = UsedNearKickoff
<1>1. f \in Fixtures /\ attempts \in [Fixtures -> Attempts] /\ attempt \in Attempts
  BY NewAttemptLoads DEF CInv, Typed, RunTyped, ControlTyped, AtFixture
<1>2. attempts'[f] = attempt /\ \A g \in Fixtures : g # f => attempts'[g] = attempts[g]
  BY <1>1
<1>3. \A g \in Fixtures : g # f => (g \in NearKickoffFixtures' <=> g \in NearKickoffFixtures)
  BY <1>2 DEF NearKickoffFixtures, ForSaturday
<1>4. f \in NearKickoffFixtures' <=> /\ attempt.phase = "near_kickoff"
                                     /\ attempt.kickoff # 0 /\ C!Day(attempt.kickoff) = Saturday
  BY <1>1, <1>2 DEF NearKickoffFixtures, ForSaturday
<1>5. C!Cached(f) # 0 /\ C!Day(C!Cached(f)) = run.cohort.day
  <2>1. run.cohort.key \in C!Keys
    BY DEF CInv, Typed, RunTyped, Cohorts
  <2> QED
    BY <1>1, <2>1 DEF CInv, CacheIsCurrent, QInv, OfDay, C!Cached, AtFixture
<1>6. UsedNearKickoff \in Nat /\ IsFiniteSet(C!Counted(C!PhaseCount, NearKickoffFixtures))
  BY UsedTypes DEF CInv
<1>7. /\ C!PhaseCount'[f] = attempt.phaseAttempts /\ C!PhaseCount[f] = attempts[f].phaseAttempts
      /\ \A g \in Fixtures : g # f => C!PhaseCount'[g] = C!PhaseCount[g]
      /\ attempt.phaseAttempts \in Nat /\ attempts[f].phaseAttempts \in Nat
  BY <1>1, <1>2 DEF C!PhaseCount, Attempts
<1>8. ASSUME run.cohort.phase = "near_kickoff", run.cohort.weekend
      PROVE  UsedNearKickoff' >= UsedNearKickoff + 1
  <2> DEFINE n == attempt.phaseAttempts
  <2>1. run.cohort.day = Saturday
    BY <1>8 DEF QInv, CohortShape
  <2>2. attempt.phase = "near_kickoff" /\ attempt.kickoff = C!Cached(f)
        /\ n = IF attempts[f].phase = "near_kickoff" THEN attempts[f].phaseAttempts + 1 ELSE 1
    BY <1>8 DEF C!NewAttempt
  <2>3. f \in NearKickoffFixtures'
    BY <1>4, <1>5, <2>1, <2>2
  <2>4. f \in NearKickoffFixtures => n = C!PhaseCount[f] + 1
    BY <1>7, <2>2 DEF NearKickoffFixtures
  <2>5. n \in Nat /\ n >= 1
    BY <1>7, <2>2
  <2> HIDE DEF n
  <2>6. <<f, n>> \notin C!Counted(C!PhaseCount, NearKickoffFixtures)
    BY <1>7, <2>4 DEF C!Counted
  <2>7. C!Counted(C!PhaseCount, NearKickoffFixtures) \cup {<<f, n>>}
          \subseteq C!Counted(C!PhaseCount', NearKickoffFixtures')
    <3>1. ASSUME NEW g \in NearKickoffFixtures, NEW x \in {g} \X (1 .. C!PhaseCount[g])
          PROVE  g \in NearKickoffFixtures' /\ x \in {g} \X (1 .. C!PhaseCount'[g])
      BY <1>3, <1>7, <2>3, <2>4 DEF n, NearKickoffFixtures
    <3>2. <<f, n>> \in {f} \X (1 .. C!PhaseCount'[f])
      BY <1>7, <2>5 DEF n
    <3>3. <<f, n>> \in C!Counted(C!PhaseCount', NearKickoffFixtures')
      BY <2>3, <3>2 DEF C!Counted
    <3>4. C!Counted(C!PhaseCount, NearKickoffFixtures) \subseteq C!Counted(C!PhaseCount', NearKickoffFixtures')
      BY <3>1 DEF C!Counted
    <3> QED
      BY <3>3, <3>4
  <2>8. C!Counted(C!PhaseCount, NearKickoffFixtures)' = C!Counted(C!PhaseCount', NearKickoffFixtures')
    BY DEF C!Counted
  <2>9. Cardinality(C!Counted(C!PhaseCount, NearKickoffFixtures) \cup {<<f, n>>}) = UsedNearKickoff + 1
    BY <1>6, <2>6, FS_AddElement DEF UsedNearKickoff
  <2>10. Cardinality(C!Counted(C!PhaseCount, NearKickoffFixtures) \cup {<<f, n>>}) <= UsedNearKickoff'
    BY <2>7, <2>8, FS_Subset DEF UsedNearKickoff
  <2> QED
    BY <1>6, <2>9, <2>10
<1>9. ASSUME ~(run.cohort.phase = "near_kickoff" /\ run.cohort.weekend), phases["near_kickoff"] > 0
      PROVE  UsedNearKickoff' = UsedNearKickoff
  <2>1. run.cohort.phase \in {"near_kickoff", "manual_early"}
    <3>1. run.cohort.phase \in Phases
      BY DEF QInv, CohortShape, CInv, Typed, RunTyped, Cohorts, AtFixture
    <3>2. run.cohort.slot = "none"
      BY <1>9 DEF QInv, InOrder
    <3> QED
      BY <3>1, <3>2 DEF QInv, CohortShape, Phases
  <2>2. run.cohort.phase = "near_kickoff" => run.cohort.day # Saturday
    BY <1>9 DEF QInv, CohortShape, InOrder
  <2>3. f \notin NearKickoffFixtures
    <3> SUFFICES ASSUME f \in NearKickoffFixtures PROVE FALSE
      OBVIOUS
    <3>1. attempts[f].phase = "near_kickoff" /\ attempts[f].kickoff # 0
          /\ C!Day(attempts[f].kickoff) = Saturday
      BY DEF NearKickoffFixtures, ForSaturday
    <3>2. C!Attempted(f)
      <4>1. attempts[f].phaseAttempts \in Nat /\ attempts[f].count \in Nat
        BY <1>1 DEF Attempts
      <4> QED
        BY <1>1, <3>1, <4>1 DEF CInv, Loads, C!Attempted
    <3>3. attempts[f].kickoff = C!Cached(f)
      BY <3>1, <3>2 DEF CInv, CacheIsCurrent, C!KickoffChanged
    <3>4. run.cohort.day = Saturday
      BY <1>5, <3>1, <3>3
    <3> QED
      BY <2>1, <2>2, <3>2, <3>4 DEF QInv, CohortShape
  <2>4. f \notin NearKickoffFixtures'
    BY <1>4, <1>5, <2>1, <2>2 DEF C!NewAttempt
  <2>5. NearKickoffFixtures' = NearKickoffFixtures
    BY <1>1, <1>3, <2>3, <2>4 DEF NearKickoffFixtures
  <2>6. \A g \in NearKickoffFixtures : C!PhaseCount'[g] = C!PhaseCount[g]
    BY <1>7, <2>3 DEF NearKickoffFixtures
  <2>7. C!Counted(C!PhaseCount, NearKickoffFixtures)' = C!Counted(C!PhaseCount, NearKickoffFixtures)
    BY <2>5, <2>6 DEF C!Counted
  <2> QED
    BY <2>7 DEF UsedNearKickoff
<1> QED
  BY <1>8, <1>9

\* The attempt counts against its quota when it is saved, before it is sent.
LEMMA RecordAttemptQuota ==
    ASSUME C!CollectorConstants, CInv, QInv, CInv', C!RecordAttempt
    PROVE  QInv'
<1>1. PICK f, attempt : f = run.fixture /\ attempt = C!NewAttempt(f)
  OBVIOUS
<1>2. run.pc = "attempt" /\ attempts' = [attempts EXCEPT ![f] = attempt]
      /\ UNCHANGED <<now, discovery, weekend, phases>>
  BY <1>1 DEF C!RecordAttempt, C!observations
<1>3. run'.pc = "quote" /\ run'.cohort = run.cohort
  BY RunFields DEF C!RecordAttempt, CInv, Typed
<1>4. UsedAfternoon' \in Nat /\ UsedNearKickoff' \in Nat
      /\ IsFiniteSet(C!Counted(C!PhaseCount, NearKickoffFixtures)')
  BY UsedTypesNext DEF CInv
<1>5. UsedAfternoon \in Nat /\ UsedNearKickoff \in Nat
      /\ AfternoonLimit \in Nat /\ SaturdayLimit \in Nat
  BY UsedTypes DEF CInv, C!CollectorConstants
<1>6. phases["afternoon"] \in Nat /\ phases["near_kickoff"] \in Nat /\ phases' = phases
  BY <1>2 DEF QInv, InOrder, Phases
<1>7. \A p : Sending(p) = 0 /\ Sending(p)' = IF run.cohort.phase = p /\ run.cohort.weekend THEN 1 ELSE 0
  BY <1>2, <1>3 DEF Sending
<1>8. /\ run.cohort.phase = "afternoon" => UsedAfternoon' = UsedAfternoon + 1
      /\ run.cohort.phase # "afternoon" /\ ~SaturdayBegan /\ phases["afternoon"] > 0
            => UsedAfternoon' = UsedAfternoon
  BY <1>1, <1>2, AttemptCountsAfternoon
<1>9. /\ run.cohort.phase = "near_kickoff" /\ run.cohort.weekend =>
            UsedNearKickoff' >= UsedNearKickoff + 1
      /\ ~(run.cohort.phase = "near_kickoff" /\ run.cohort.weekend)
            /\ phases["near_kickoff"] > 0 => UsedNearKickoff' = UsedNearKickoff
  BY <1>1, <1>2, <1>4, AttemptCountsNearKickoff
<1>10. OfDay'
  BY <1>2, <1>3 DEF QInv, OfDay, AtFixture
<1>11. CohortShape'
  BY <1>2, <1>3 DEF QInv, CohortShape, SaturdayBegan, AfternoonBegan, AtFixture
<1>12. InOrder'
  BY <1>2, <1>3 DEF QInv, InOrder, SaturdayBegan, AfternoonBegan
<1>13. AfternoonQuota'
  <2>1. CASE run.cohort.phase = "afternoon"
    <3>1. UsedAfternoon' = UsedAfternoon + 1 /\ UsedAfternoon < AfternoonLimit
          /\ phases["afternoon"] <= UsedAfternoon
      BY <1>2, <1>5, <1>6, <1>7, <1>8, <2>1 DEF QInv, AfternoonQuota
    <3>2. Sending("afternoon")' \in {0, 1}
      BY <1>7
    <3> QED
      BY <1>3, <1>4, <1>5, <1>6, <3>1, <3>2 DEF AfternoonQuota
  <2>2. CASE run.cohort.phase # "afternoon"
    <3>1. Sending("afternoon") = 0 /\ Sending("afternoon")' = 0
      BY <1>7, <2>2
    <3>2. ~SaturdayBegan => phases["afternoon"] <= UsedAfternoon'
      BY <1>4, <1>5, <1>6, <1>8, <2>2, <3>1 DEF QInv, AfternoonQuota
    <3>3. SaturdayBegan' <=> SaturdayBegan
      BY <1>2 DEF SaturdayBegan
    <3> QED
      BY <1>3, <1>6, <2>2, <3>1, <3>2, <3>3 DEF QInv, AfternoonQuota
  <2> QED
    BY <2>1, <2>2
<1>14. NearKickoffQuota'
  <2>1. CASE run.cohort.phase = "near_kickoff" /\ run.cohort.weekend
    <3>1. UsedNearKickoff' >= UsedNearKickoff + 1 /\ UsedNearKickoff < SaturdayLimit
          /\ phases["near_kickoff"] <= UsedNearKickoff
      BY <1>2, <1>4, <1>5, <1>6, <1>7, <1>9, <2>1 DEF QInv, NearKickoffQuota
    <3>2. Sending("near_kickoff")' = 1
      BY <1>7, <2>1
    <3> QED
      BY <1>3, <1>4, <1>5, <1>6, <3>1, <3>2 DEF NearKickoffQuota
  <2>2. CASE ~(run.cohort.phase = "near_kickoff" /\ run.cohort.weekend)
    BY <1>3, <1>4, <1>5, <1>6, <1>7, <1>9, <2>2 DEF QInv, NearKickoffQuota
  <2> QED
    BY <2>1, <2>2
<1> QED
  BY <1>10, <1>11, <1>12, <1>13, <1>14 DEF QInv

\* Nothing has been used.
LEMMA InitQuota ==
    ASSUME C!CollectorConstants, C!Init
    PROVE  QInv
<1>1. /\ run.pc = "idle" /\ run.cohort = C!NoCohort /\ phases \in [Phases -> Nat]
      /\ phases["afternoon"] = 0 /\ phases["near_kickoff"] = 0
  BY DEF C!Init, C!Idle, Phases
<1>2. UsedAfternoon \in Nat /\ UsedNearKickoff \in Nat
      /\ AfternoonLimit \in Nat /\ SaturdayLimit \in Nat
  BY InitHolds, UsedTypes DEF CInv, C!CollectorConstants
<1>3. \A p : Sending(p) = 0
  BY <1>1 DEF Sending
<1>4. OfDay
  BY <1>1 DEF C!Init, OfDay, C!NoDiscovery, AtFixture
<1>5. CohortShape /\ InOrder
  BY <1>1 DEF CohortShape, InOrder, C!NoCohort, AtFixture
<1>6. AfternoonQuota /\ NearKickoffQuota
  BY <1>1, <1>2, <1>3 DEF AfternoonQuota, NearKickoffQuota
<1> QED
  BY <1>4, <1>5, <1>6 DEF QInv

\* Every step of a run.
LEMMA RunStepQuota ==
    ASSUME C!CollectorConstants, CInv, QInv, CInv', C!RunStep
    PROVE  QInv'
<1>1. CASE C!FinishRun \/ C!DiscoveryWithheld \/ C!DiscoveryRefused \/ C!CalendarStops \/ C!SlotCloses
             \/ C!StopCohort \/ C!ReserveRefused
  <2>1. UNCHANGED <<now, C!control, phases>>
    BY <1>1 DEF C!FinishRun, C!DiscoveryWithheld, C!DiscoveryRefused, C!CalendarStops, C!SlotCloses,
                C!StopCohort, C!ReserveRefused, C!observations
  <2>2. C!EndRun \/ C!NextCohort
    BY <1>1 DEF C!FinishRun, C!DiscoveryWithheld, C!DiscoveryRefused, C!CalendarStops, C!SlotCloses,
                C!StopCohort, C!ReserveRefused
  <2> QED
    BY <2>1, <2>2, QuietQuota
<1>2. CASE C!UseCache \/ C!SkipFixture \/ C!StoreCapture \/ C!Recheck
  <2>1. UNCHANGED <<now, C!control, phases>>
    BY <1>2 DEF C!UseCache, C!SkipFixture, C!StoreCapture, C!Recheck, C!observations
  <2>2. CASE C!EndRun \/ C!NextCohort
    BY <2>1, <2>2, QuietQuota
  <2>3. CASE ~(C!EndRun \/ C!NextCohort)
    <3>1. run'.cohort = run.cohort /\ run'.fixture = run.fixture
          /\ run.pc \in {"cached", "pick", "recheck", "assess"}
          /\ run'.pc \in {"pick", "reserve", "captured"}
          /\ (run'.pc = "reserve" => run.pc = "recheck")
      <4>1. CASE C!UseCache
        BY <2>3, <4>1, RunFields DEF C!UseCache, CInv, Typed
      <4>2. CASE C!SkipFixture
        BY <4>2, RunFields DEF C!SkipFixture, CInv, Typed
      <4>3. CASE C!StoreCapture
        BY <4>3, RunFields DEF C!StoreCapture, CInv, Typed
      <4>4. CASE C!Recheck
        BY <2>3, <4>4, RunFields DEF C!Recheck, CInv, Typed
      <4> QED
        BY <1>2, <4>1, <4>2, <4>3, <4>4
    <3> QED
      BY <2>1, <3>1, SameCohortQuota
  <2> QED
    BY <2>2, <2>3
<1> QED
  BY <1>1, <1>2, EnterCohortQuota, ReservationQuota, DiscoveryQuota, TakeFixtureQuota,
     RecordAttemptQuota, OutcomeQuota DEF C!RunStep

\* Every step of the collector.
LEMMA NextQuota ==
    ASSUME C!CollectorConstants, CInv, QInv, CInv', [C!Next]_C!vars
    PROVE  QInv'
<1>1. now \in Nat /\ now' \in Nat
  BY DEF CInv, Typed, ControlTyped, C!CollectorConstants
<1>2. CASE C!StartHourly \/ \E selected \in SUBSET Fixtures : C!StartEarly(selected)
  BY <1>2, QuietQuota DEF C!StartHourly, C!StartEarly, C!StartRun, C!observations
<1>3. CASE C!Crash
  BY <1>3, QuietQuota DEF C!Crash, C!observations
<1>4. CASE \E f \in Fixtures : C!Reschedule(f) \/ \E good \in BOOLEAN : C!ManualCapture(f, good)
  <2>1. UNCHANGED <<now, C!control, run, phases>>
    BY <1>4 DEF C!Reschedule, C!ManualCapture, C!observations
  <2>2. now' >= now
    BY <1>1, <2>1
  <2> QED
    BY <1>1, <2>1, <2>2, ElsewhereQuota
<1>5. CASE C!Tick
  <2> DEFINE later == {t \in Times : t > now}
  <2>1. later # {} /\ later \subseteq Nat /\ now' = C!Min(later)
    BY <1>5 DEF C!Tick, C!CollectorConstants
  <2>2. now' > now
    BY <2>1, MinOfNaturals
  <2> QED
    BY <1>1, <1>5, <2>2, ElsewhereQuota DEF C!Tick, C!observations
<1>6. CASE UNCHANGED C!vars
  BY <1>1, <1>6, ElsewhereQuota DEF C!vars, C!observations
<1> QED
  BY <1>2, <1>3, <1>4, <1>5, <1>6, RunStepQuota DEF C!Next

\* First captures share one afternoon quota and near-kickoff captures one Saturday
\* quota, over any number of runs, retries and crashes, for any fixtures and limits.
THEOREM PhaseQuotasHold ==
    ASSUME C!CollectorConstants
    PROVE  C!Spec => []C!PhaseQuotas
<1>1. C!Init => CInv /\ QInv
  BY InitHolds, InitQuota
<1>2. CInv /\ QInv /\ [C!Next]_C!vars => CInv' /\ QInv'
  BY NextPreserves, NextQuota
<1>3. CInv /\ QInv => C!PhaseQuotas
  <2> SUFFICES ASSUME CInv, QInv PROVE C!PhaseQuotas
    OBVIOUS
  <2>1. \A p \in {"afternoon", "near_kickoff"} : phases[p] \in Nat /\ Sending(p) \in {0, 1}
    BY DEF QInv, InOrder, Phases, Sending
  <2> HIDE DEF Sending
  <2>2. AfternoonLimit \in Nat /\ SaturdayLimit \in Nat
    BY DEF C!CollectorConstants
  <2> QED
    BY <2>1, <2>2 DEF QInv, AfternoonQuota, NearKickoffQuota, C!PhaseQuotas
<1> QED
  BY <1>1, <1>2, <1>3, PTL DEF C!Spec
=============================================================================
