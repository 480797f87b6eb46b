-------------------------- MODULE ProspectiveBudget --------------------------
(***************************************************************************)
(* Durable request accounting of the prospective collector                 *)
(* (corner_prospective.py, corner_prospective_budget.py).                  *)
(*                                                                         *)
(* On disk: control.json (an atomic replacement on every save) and the     *)
(* budget-events directory (one file per event, created exclusively and    *)
(* written afterwards, so a crash may leave it empty).  Every invocation   *)
(* holds the non-blocking runner lock from load to exit and works on its   *)
(* in-memory copy of the control.  Days are numbered from 0; a UTC month   *)
(* is DaysPerMonth consecutive days.                                       *)
(***************************************************************************)
EXTENDS Integers, FiniteSets

CONSTANTS
    Runners,            \* invocations of the runner that may overlap
    DaysPerMonth,       \* length of a UTC month, in days
    LastDay,            \* bound: the clock stops here
    MonthlyAllowance,   \* MONTHLY_ALLOWANCE
    PilotAllowances,    \* allowances an operator gives a version-1 period
    InvocationLimit,    \* invocation_limit of _RequestBudgetGuard
    MaxReserve,         \* the largest count one reserve() is asked for
    CalendarGate,       \* run-once --calendar-gate: rollover is deferred
    MaxFailures         \* bound: crashes and failed writes

ASSUME BudgetConstants ==
    /\ DaysPerMonth \in Nat \ {0}
    /\ LastDay \in Nat
    /\ MonthlyAllowance \in Nat \ {0}
    /\ PilotAllowances \subseteq Nat \ {0}
    /\ InvocationLimit \in Nat
    /\ MaxReserve \in Nat \ {0}
    /\ CalendarGate \in BOOLEAN
    /\ MaxFailures \in Nat
    /\ "free" \notin Runners

VARIABLES
    today,        \* the UTC date
    control,      \* control.json; version 0 is a missing file
    events,       \* budget-events/*.json
    lock,         \* holder of runner.lock, or Free
    pc,           \* per runner: where run_once / enroll stands
    mem,          \* per runner: the loaded control
    plan,         \* per runner: the event being published
    guard,        \* per runner: _RequestBudgetGuard.reserved and .tokens
    rolls,        \* per runner: calls of rollover_if_needed in this run
    failures,     \* crashes and write failures so far
    \* observations of the environment, read by no action
    spent,        \* requests sent on reservations of the saved period
    monthSent,    \* requests sent since the current month began
    wholeMonth    \* the control was enrolled when this month began

vars == <<today, control, events, lock, pc, mem, plan, guard, rolls,
          failures, spent, monthSent, wholeMonth>>

Free == "free"
NoTransition == -1

MonthStart(day) == day - (day % DaysPerMonth)
MonthEnd(day) == MonthStart(day) + DaysPerMonth

NoPeriod == [start |-> 0, end |-> 0, allowance |-> 0, reserved |-> 0]
NoControl == [version |-> 0, period |-> NoPeriod, transitional |-> NoTransition]
NoEvent == [type |-> "NONE", before |-> NoPeriod, after |-> NoPeriod]
NewGuard == [reserved |-> 0, tokens |-> 0]

Days == 0 .. LastDay + DaysPerMonth

Period == [start: Int, end: Int, allowance: Nat, reserved: Nat]
Control == [version: 0 .. 2, period: Period, transitional: Nat \cup {NoTransition}]
Event == [type: {"NONE", "ENROLLMENT", "MONTH_ROLLOVER"}, before: Period, after: Period]

\* An event file: its name is given by the event, its content is there only
\* once it has been written.
EventFile == [event: Event, written: BOOLEAN]

EventId(e) == <<e.type, MonthStart(e.before.start), MonthStart(e.after.start)>>

Init ==
    /\ today = 0
    /\ control = NoControl
    /\ events = {}
    /\ lock = Free
    /\ pc = [p \in Runners |-> "idle"]
    /\ mem = [p \in Runners |-> NoControl]
    /\ plan = [p \in Runners |-> NoEvent]
    /\ guard = [p \in Runners |-> NewGuard]
    /\ rolls = [p \in Runners |-> 0]
    /\ failures = 0
    /\ spent = 0
    /\ monthSent = 0
    /\ wholeMonth = FALSE

-----------------------------------------------------------------------------
(* Validation of what is on disk                                           *)

Covers(period, day) == period.start <= day /\ day < period.end

\* validate_calendar_control
ValidCalendarControl(c) ==
    /\ c.version = 2
    /\ c.period.allowance = MonthlyAllowance
    /\ c.period.reserved <= MonthlyAllowance
    /\ IF c.transitional = NoTransition
       THEN MonthStart(c.period.start) = c.period.start
            /\ MonthEnd(c.period.start) = c.period.end
       ELSE /\ c.transitional <= c.period.reserved
            /\ c.period.start < c.period.end
            /\ MonthEnd(c.period.start) = c.period.end

\* the accounting part of _load
Loadable(c) ==
    /\ c.version \in {1, 2}
    /\ c.period.start < c.period.end
    /\ c.period.allowance > 0
    /\ c.period.reserved <= c.period.allowance
    /\ c.version = 2 => ValidCalendarControl(c)

\* _validate_event
ValidEvent(e) ==
    /\ \A period \in {e.before, e.after} :
          period.start < period.end /\ period.reserved <= period.allowance
    /\ CASE e.type = "ENROLLMENT" ->
              /\ e.before.start = e.after.start /\ e.before.end = e.after.end
              /\ MonthEnd(e.before.start) = e.before.end
              /\ e.before.allowance < MonthlyAllowance
              /\ e.after.allowance = MonthlyAllowance
              /\ e.before.reserved = e.after.reserved
         [] e.type = "MONTH_ROLLOVER" ->
              /\ e.before.allowance = MonthlyAllowance
              /\ e.after.allowance = MonthlyAllowance
              /\ e.after.reserved = 0
              /\ MonthStart(e.after.start) = e.after.start
              /\ MonthEnd(e.after.start) = e.after.end
              /\ e.before.end <= e.after.start
         [] OTHER -> FALSE

\* validate_events: one unreadable file rejects the whole directory
ValidEvents == \A f \in events : f.written /\ ValidEvent(f.event)

\* the events rollover_if_needed accepts as the origin of the control's period
Matching(c) ==
    {f \in events :
        /\ f.written
        /\ f.event.type = IF c.transitional = NoTransition THEN "MONTH_ROLLOVER"
                                                           ELSE "ENROLLMENT"
        /\ f.event.after.start = c.period.start
        /\ f.event.after.end = c.period.end
        /\ f.event.after.allowance = c.period.allowance
        /\ f.event.after.reserved = IF c.transitional = NoTransition
                                    THEN 0 ELSE c.transitional}

-----------------------------------------------------------------------------
(* Entering and leaving an invocation                                      *)

\* _lock: LOCK_EX | LOCK_NB; a held lock ends the invocation as BUSY
LockIgnored == TRUE
LockFree == lock = Free

\* the invocation is over, by return, exception or crash: the lock is released
\* and nothing more is written
Leave(p) ==
    /\ lock' = Free
    /\ pc' = [pc EXCEPT ![p] = "idle"]
    /\ mem' = [mem EXCEPT ![p] = NoControl]
    /\ plan' = [plan EXCEPT ![p] = NoEvent]
    /\ guard' = [guard EXCEPT ![p] = NewGuard]
    /\ rolls' = [rolls EXCEPT ![p] = 0]

Observed == <<spent, monthSent, wholeMonth>>

\* initialize_period: one save under the lock
InitializePeriod(start, end, allowance) ==
    /\ LockFree
    /\ start <= today /\ today < end
    /\ control.version = 0 \/ (Loadable(control) /\ control.version = 1
                               /\ control.period.end <= start)
    /\ control' = [version |-> 1, transitional |-> NoTransition,
                   period |-> [start |-> start, end |-> end,
                               allowance |-> allowance, reserved |-> 0]]
    /\ spent' = 0
    /\ UNCHANGED <<today, events, lock, pc, mem, plan, guard, rolls, failures,
                   monthSent, wholeMonth>>

\* run_once up to the rollover: the lock, then _load
StartRun(p) ==
    /\ LockFree /\ pc[p] = "idle"
    /\ Loadable(control)
    /\ lock' = p
    /\ mem' = [mem EXCEPT ![p] = control]
    /\ pc' = [pc EXCEPT ![p] = IF control.version = 2 /\ ~CalendarGate
                               THEN "check" ELSE "working"]
    /\ UNCHANGED <<today, control, events, plan, guard, rolls, failures, Observed>>

\* enroll_production_budget and enroll up to the event; the operator's expected
\* allowance and reserved must equal the period's
StartEnrollment(p) ==
    LET period == control.period IN
    /\ LockFree /\ pc[p] = "idle"
    /\ Loadable(control) /\ control.version = 1
    /\ Covers(period, today)
    /\ MonthEnd(today) = period.end /\ MonthEnd(period.start) = period.end
    /\ period.allowance < MonthlyAllowance
    /\ lock' = p
    /\ mem' = [mem EXCEPT ![p] = control]
    /\ plan' = [plan EXCEPT ![p] =
                  [type |-> "ENROLLMENT", before |-> period,
                   after |-> [period EXCEPT !.allowance = MonthlyAllowance]]]
    /\ pc' = [pc EXCEPT ![p] = "publish"]
    /\ UNCHANGED <<today, control, events, guard, rolls, failures, Observed>>

-----------------------------------------------------------------------------
(* rollover_if_needed                                                      *)

\* a plain run calls it once, before any work; a gated run once per cohort
\* that its calendar finds eligible
RolloverDue(p) ==
    \/ pc[p] = "check"
    \/ pc[p] = "working" /\ CalendarGate /\ mem[p].version = 2 /\ rolls[p] < 2

EvidenceAccepted(p) ==
    ValidCalendarControl(mem[p]) /\ ValidEvents /\ Cardinality(Matching(mem[p])) = 1

\* CONTROL_INVALID ends the run
RolloverRejected(p) ==
    /\ RolloverDue(p)
    /\ ~EvidenceAccepted(p) \/ today < mem[p].period.start
    /\ Leave(p)
    /\ UNCHANGED <<today, control, events, failures, Observed>>

RolloverNotNeeded(p) ==
    /\ RolloverDue(p) /\ EvidenceAccepted(p)
    /\ Covers(mem[p].period, today)
    /\ pc' = [pc EXCEPT ![p] = "working"]
    /\ rolls' = [rolls EXCEPT ![p] = @ + 1]
    /\ UNCHANGED <<today, control, events, lock, mem, plan, guard, failures, Observed>>

CurrentMonth == [start |-> MonthStart(today), end |-> MonthEnd(today),
                 allowance |-> MonthlyAllowance, reserved |-> 0]

RolloverBegins(p) ==
    /\ RolloverDue(p) /\ EvidenceAccepted(p)
    /\ today >= mem[p].period.end
    /\ plan' = [plan EXCEPT ![p] = [type |-> "MONTH_ROLLOVER",
                                    before |-> mem[p].period, after |-> CurrentMonth]]
    /\ pc' = [pc EXCEPT ![p] = "publish"]
    /\ UNCHANGED <<today, control, events, lock, mem, guard, rolls, failures, Observed>>

-----------------------------------------------------------------------------
(* _publish_event, then the save that makes the event effective            *)

SameName(p) == {f \in events : EventId(f.event) = EventId(plan[p])}

\* open(O_CREAT | O_EXCL): the name is taken, the content still missing
CreateEvent(p) ==
    /\ pc[p] = "publish" /\ SameName(p) = {}
    /\ events' = events \cup {[event |-> plan[p], written |-> FALSE]}
    /\ pc' = [pc EXCEPT ![p] = "write"]
    /\ UNCHANGED <<today, control, lock, mem, plan, guard, rolls, failures, Observed>>

\* FileExistsError: an event published before is accepted only if it is this one
ExistingEventAccepted(p) ==
    /\ pc[p] = "publish" /\ SameName(p) # {}
    /\ \A f \in SameName(p) : f.written /\ ValidEvent(f.event) /\ f.event = plan[p]
    /\ pc' = [pc EXCEPT ![p] = "save"]
    /\ UNCHANGED <<today, control, events, lock, mem, plan, guard, rolls,
                   failures, Observed>>

ExistingEventRejected(p) ==
    /\ pc[p] = "publish"
    /\ \E f \in SameName(p) : ~(f.written /\ ValidEvent(f.event) /\ f.event = plan[p])
    /\ Leave(p)
    /\ UNCHANGED <<today, control, events, failures, Observed>>

WriteEvent(p) ==
    /\ pc[p] = "write"
    /\ events' = (events \ {[event |-> plan[p], written |-> FALSE]})
                    \cup {[event |-> plan[p], written |-> TRUE]}
    /\ pc' = [pc EXCEPT ![p] = "save"]
    /\ UNCHANGED <<today, control, lock, mem, plan, guard, rolls, failures, Observed>>

\* an exception while writing unlinks the file
WriteFails(p) ==
    /\ pc[p] = "write" /\ failures < MaxFailures
    /\ failures' = failures + 1
    /\ events' = events \ {[event |-> plan[p], written |-> FALSE]}
    /\ Leave(p)
    /\ UNCHANGED <<today, control, Observed>>

\* the control an event leads to
RefundingControl(e) ==
    [version |-> 2, period |-> [e.after EXCEPT !.reserved = 0],
     transitional |-> IF e.type = "ENROLLMENT" THEN 0 ELSE NoTransition]
AdvancedControl(e) ==
    [version |-> 2, period |-> e.after,
     transitional |-> IF e.type = "ENROLLMENT" THEN e.after.reserved ELSE NoTransition]

SaveEnrollment(p) ==
    /\ pc[p] = "save" /\ plan[p].type = "ENROLLMENT"
    /\ control' = AdvancedControl(plan[p])
    /\ Leave(p)
    /\ UNCHANGED <<today, events, failures, Observed>>

SaveRollover(p) ==
    /\ pc[p] = "save" /\ plan[p].type = "MONTH_ROLLOVER"
    /\ control' = AdvancedControl(plan[p])
    /\ mem' = [mem EXCEPT ![p] = AdvancedControl(plan[p])]
    /\ plan' = [plan EXCEPT ![p] = NoEvent]
    /\ pc' = [pc EXCEPT ![p] = "working"]
    /\ rolls' = [rolls EXCEPT ![p] = @ + 1]
    /\ spent' = 0
    /\ UNCHANGED <<today, events, lock, guard, failures, monthSent, wholeMonth>>

-----------------------------------------------------------------------------
(* _RequestBudgetGuard                                                     *)

\* the checks of reserve(); any of them failing ends the run
ReserveAnyTime(p, count) ==
    /\ guard[p].reserved + count <= InvocationLimit
    /\ mem[p].period.reserved + count <= mem[p].period.allowance
ReserveBeyondAllowance(p, count) ==
    /\ Covers(mem[p].period, today)
    /\ guard[p].reserved + count <= InvocationLimit
    /\ mem[p].period.reserved <= mem[p].period.allowance
MayReserve(p, count) ==
    /\ Covers(mem[p].period, today)
    /\ guard[p].reserved + count <= InvocationLimit
    /\ mem[p].period.reserved + count <= mem[p].period.allowance

Charged(c, count) ==
    [c EXCEPT !.period = [c.period EXCEPT !.reserved = @ + count]]

\* reserve: charged and saved before any request
UnsavedReserve(p, count) ==
    /\ pc[p] = "working" /\ (mem[p].version = 2 => rolls[p] > 0)
    /\ MayReserve(p, count)
    /\ mem' = [mem EXCEPT ![p] = Charged(@, count)]
    /\ guard' = [guard EXCEPT ![p] = [reserved |-> @.reserved + count, tokens |-> count]]
    /\ pc' = [pc EXCEPT ![p] = "requesting"]
    /\ UNCHANGED <<today, control, events, lock, plan, rolls, failures, Observed>>
Reserve(p, count) ==
    /\ pc[p] = "working" /\ (mem[p].version = 2 => rolls[p] > 0)
    /\ MayReserve(p, count)
    /\ mem' = [mem EXCEPT ![p] = Charged(@, count)]
    /\ control' = Charged(mem[p], count)
    /\ guard' = [guard EXCEPT ![p] = [reserved |-> @.reserved + count, tokens |-> count]]
    /\ pc' = [pc EXCEPT ![p] = "requesting"]
    /\ UNCHANGED <<today, events, lock, plan, rolls, failures, Observed>>

SendWithoutToken(p) ==
    /\ pc[p] = "requesting"
    /\ control' = mem[p]
    /\ guard' = [guard EXCEPT ![p].tokens = @ - 1]
    /\ spent' = spent + 1
    /\ monthSent' = monthSent + 1
    /\ UNCHANGED <<today, events, lock, pc, mem, plan, rolls, failures, wholeMonth>>

\* before_request, the HTTP call and after_request: the in-memory control is
\* saved (with the pacing time) and one token is used; the period is not
\* checked again, so the call may leave in a later month
SendRequest(p) ==
    /\ pc[p] = "requesting" /\ guard[p].tokens > 0
    /\ control' = mem[p]
    /\ guard' = [guard EXCEPT ![p].tokens = @ - 1]
    /\ spent' = spent + 1
    /\ monthSent' = monthSent + 1
    /\ UNCHANGED <<today, events, lock, pc, mem, plan, rolls, failures, wholeMonth>>

\* the work a reservation was made for is over; tokens left are abandoned
EndBatch(p) ==
    /\ pc[p] = "requesting"
    /\ pc' = [pc EXCEPT ![p] = "working"]
    /\ UNCHANGED <<today, control, events, lock, mem, plan, guard, rolls,
                   failures, Observed>>

EndRun(p) ==
    /\ pc[p] = "working"
    /\ Leave(p)
    /\ UNCHANGED <<today, control, events, failures, Observed>>

\* the process dies: the kernel drops the lock, an unwritten event file stays
Crash(p) ==
    /\ pc[p] # "idle" /\ failures < MaxFailures
    /\ failures' = failures + 1
    /\ Leave(p)
    /\ UNCHANGED <<today, control, events, Observed>>

Tick ==
    /\ today < LastDay
    /\ today' = today + 1
    /\ IF MonthStart(today + 1) = today + 1
       THEN monthSent' = 0 /\ wholeMonth' = (control.version = 2)
       ELSE UNCHANGED <<monthSent, wholeMonth>>
    /\ UNCHANGED <<control, events, lock, pc, mem, plan, guard, rolls, failures, spent>>

-----------------------------------------------------------------------------
Publishing(p) ==
    CreateEvent(p) \/ ExistingEventAccepted(p) \/ ExistingEventRejected(p)
        \/ WriteEvent(p) \/ SaveEnrollment(p) \/ SaveRollover(p)

Rolling(p) == RolloverRejected(p) \/ RolloverNotNeeded(p) \/ RolloverBegins(p)

\* the steps that carry an invocation to its end
Progress(p) == Rolling(p) \/ Publishing(p) \/ EndBatch(p) \/ EndRun(p)

Next ==
    \/ \E start, end \in Days, allowance \in PilotAllowances :
          InitializePeriod(start, end, allowance)
    \/ \E p \in Runners :
          \/ StartRun(p) \/ StartEnrollment(p)
          \/ Rolling(p) \/ Publishing(p) \/ WriteFails(p)
          \/ \E count \in 1 .. MaxReserve : Reserve(p, count)
          \/ SendRequest(p) \/ EndBatch(p) \/ EndRun(p) \/ Crash(p)
    \/ Tick

\* the timer starts a run every hour; a started run goes on until it ends
Fairness ==
    /\ WF_vars(\E p \in Runners : StartRun(p))
    /\ \A p \in Runners : WF_vars(Progress(p))

Spec == Init /\ [][Next]_vars /\ Fairness

-----------------------------------------------------------------------------
(* Properties                                                              *)

PCs == {"idle", "check", "publish", "write", "save", "working", "requesting"}

\* The variables hold values of the kinds control.json, the event files and the
\* runner's locals can hold.
TypeOK ==
    /\ today \in Nat
    /\ control \in Control
    /\ events \subseteq EventFile
    /\ lock \in Runners \cup {Free}
    /\ pc \in [Runners -> PCs]
    /\ mem \in [Runners -> Control]
    /\ plan \in [Runners -> Event]
    /\ guard \in [Runners -> [reserved: Nat, tokens: Nat]]
    /\ rolls \in [Runners -> Nat]
    /\ failures \in Nat
    /\ spent \in Nat
    /\ monthSent \in Nat
    /\ wholeMonth \in BOOLEAN

\* "Request reservations are conservative": at every moment, crashes and
\* overlapping invocations included, the requests sent on the saved period's
\* reservations and those a live run may still send are covered by what
\* control.json says is reserved, and that never exceeds the allowance.
ReservationsCoverRequests ==
    /\ spent <= control.period.reserved
    /\ control.period.reserved <= control.period.allowance
    /\ \A p \in Runners : pc[p] = "requesting" =>
          spent + guard[p].tokens <= control.period.reserved

\* Every control the program saves can be loaded again: run_once never writes a
\* control.json that the next _load rejects.
SavedControlLoads == control.version # 0 => Loadable(control)

\* rollover_if_needed demands exactly one published event behind an enrolled
\* period; whatever crashes and retries happened, the saved period has it.
PeriodHasOneOrigin ==
    control.version = 2 => Cardinality(Matching(control)) = 1

\* What a crash, a failed write or an overlapping operator command leaves behind is
\* of the right kind, loads again and still has the event that explains it.
ControlStaysSound == TypeOK /\ SavedControlLoads /\ PeriodHasOneOrigin

\* Requests leave against a reservation of the month they were charged to, but
\* may leave after it: a month that began enrolled sends at most one batch more
\* than its allowance.
MonthlyOvershootBounded ==
    wholeMonth => monthSent <= MonthlyAllowance + MaxReserve

\* "crashes can waste allowance, never refund it": while the period stays, its
\* reserved count never decreases, and a new period is a later one.
NeverRefunded ==
    [][control.version # 0 =>
         \/ /\ control'.period.start = control.period.start
            /\ control'.period.reserved >= control.period.reserved
         \/ /\ control'.period.start >= control.period.end
            /\ control'.version >= control.version]_vars

Stale == control.version = 2 /\ today >= control.period.end
Current == Covers(control.period, today)
EmptyEventFile == \E f \in events : ~f.written

\* An enrolled budget whose month is over is brought to the current month by the
\* hourly runs, whatever failures occur, unless a crash left an event file empty.
RolloverRecovers == Stale ~> (Current \/ EmptyEventFile)

\* ops/vps/PROSPECTIVE.md: "It writes rollover evidence before changing control,
\* so an interrupted rollover is completed idempotently."
InterruptedRolloverCompletes == Stale ~> Current
=============================================================================
