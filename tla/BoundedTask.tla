------------------------------- MODULE BoundedTask -------------------------------
(***************************************************************************)
(* One attempt of a bounded task (ops/bounded_worker/launcher.py, task.py, *)
(* systemd_backend.py, codex.py, storage.py): identities are claimed       *)
(* exclusively, an untrusted worker runs in a transient systemd unit and   *)
(* changes a checkout, the unit is stopped and verified empty, the change  *)
(* is checked and kept with a result.  The supervisor may die anywhere     *)
(* and leaves its unit behind; nothing is ever resumed.                    *)
(***************************************************************************)
EXTENDS Naturals, Sequences

CONSTANTS
    Callers,    \* invocations of submit, by the bridge or an operator
    Tasks,      \* task identities
    Stored,     \* whether bounded storage is configured
    Edits,      \* contents a worker may give to the files it may change
    None,
    MaxFaults   \* bound on deaths and on changes of the host

\* Codex.run: the exchanges before the turn, the turn, and the final check
Stages == <<"initialize", "config", "profile", "thread", "turn", "finalize">>
Final == {"completed", "failed", "timeout", "rejected"}

\* The absent value is none of the values that are recorded.
TaskConstants ==
    /\ Stored \in BOOLEAN /\ MaxFaults \in Nat /\ "base" \notin Edits
    /\ None \notin Edits \cup {"base"} /\ None \notin Final /\ None \notin {"first", "other"}
    /\ None \notin {"directory", "reserved", "launching", "finished"}
    /\ \A s \in Final \cup {"blocked"}, d \in Edits \cup {"base", None} : [status |-> s, diff |-> d] # None

VARIABLES
    storage,    \* the storage mounted now, "first" or "other"
    binary,     \* the worker executable, "pinned" or "replaced"
    files,      \* per task: what its evidence directories hold
    unit,       \* per task: "none", "queued" (its start may still come), "running", "surviving" after a stop, "gone"
    checkout,   \* per task: contents of the files in scope, and whether anything else changed
    call,       \* per caller: where it is
    starts, ranOn, ranWith, \* per task, observations: starts, storages and executables until its turn was over
    faults

vars == <<storage, binary, files, unit, checkout, call, starts, ranOn, ranWith, faults>>

NoFiles == [admission |-> None, phase |-> None, attempt |-> FALSE, unit |-> FALSE, diff |-> None, result |-> None]
Idle == [task |-> None, step |-> "idle", stage |-> 0, started |-> FALSE, observed |-> None, snapshot |-> None]

Init ==
    /\ storage = "first" /\ binary = "pinned"
    /\ files = [t \in Tasks |-> NoFiles] /\ unit = [t \in Tasks |-> "none"]
    /\ checkout = [t \in Tasks |-> [content |-> "base", outside |-> FALSE]]
    /\ call = [c \in Callers |-> Idle]
    /\ starts = [t \in Tasks |-> 0] /\ ranOn = [t \in Tasks |-> {}] /\ ranWith = [t \in Tasks |-> {}]
    /\ faults = 0

T(c) == call[c].task
At(c, step) == call[c].step = step
Go(c, step) == call' = [call EXCEPT ![c].step = step]
Block(c) == call' = [call EXCEPT ![c] = Idle]
Host == <<storage, binary, faults>>
Observed == <<starts, ranOn, ranWith>>
Write(t, field, value) == files' = [files EXCEPT ![t][field] = value]

-----------------------------------------------------------------------------
(* submit: claims                                                          *)

\* the identity of the storage is admitted before anything else, under an exclusively created file
Admit(c) ==
    /\ At(c, "idle")
    /\ \E t \in Tasks :
        /\ Stored => files[t].admission = None
        /\ files' = IF Stored THEN [files EXCEPT ![t].admission = storage] ELSE files
        /\ call' = [call EXCEPT ![c] = [Idle EXCEPT !.task = t, !.step = "claim"]]
    /\ UNCHANGED <<Host, unit, checkout, Observed>>

\* the directory of the task is created exclusively, then state.json says "reserved"
MutantClaimable(t) == TRUE
Claimable(t) == files[t].phase = None
Claim(c) ==
    /\ At(c, "claim")
    /\ IF Claimable(T(c)) THEN Write(T(c), "phase", "directory") /\ Go(c, "reserve") ELSE Block(c) /\ UNCHANGED files
    /\ UNCHANGED <<Host, unit, checkout, Observed>>
Reserve(c) ==
    /\ At(c, "reserve") /\ Write(T(c), "phase", "reserved") /\ Go(c, "configure")
    /\ UNCHANGED <<Host, unit, checkout, Observed>>

\* _configure_storage, and "launching" with the name of the unit
Admitted(t) == Stored => storage = files[t].admission
Configure(c) ==
    /\ At(c, "configure")
    /\ IF Admitted(T(c)) THEN Write(T(c), "phase", "launching") /\ Go(c, "attempt") ELSE Block(c) /\ UNCHANGED files
    /\ UNCHANGED <<Host, unit, checkout, Observed>>

-----------------------------------------------------------------------------
(* execute                                                                 *)

\* a clean checkout of the base, an exclusive attempt directory with its reservation, the first snapshot
Attempt(c) ==
    /\ At(c, "attempt")
    /\ IF ~files[T(c)].attempt /\ checkout[T(c)] = [content |-> "base", outside |-> FALSE]
       THEN Write(T(c), "attempt", TRUE) /\ Go(c, "record") ELSE Block(c) /\ UNCHANGED files
    /\ UNCHANGED <<Host, unit, checkout, Observed>>

\* Codex.run checks the executable; launch revalidates the storage and records the unit before it may exist
MutantRecordUnit(c) ==
    /\ At(c, "record")
    /\ IF binary = "pinned" /\ Admitted(T(c)) THEN Go(c, "start") ELSE Block(c)
    /\ UNCHANGED <<Host, files, unit, checkout, Observed>>
RecordUnit(c) ==
    /\ At(c, "record")
    /\ IF binary = "pinned" /\ Admitted(T(c)) /\ ~files[T(c)].unit
       THEN Write(T(c), "unit", TRUE) /\ Go(c, "start") ELSE Block(c) /\ UNCHANGED files
    /\ UNCHANGED <<Host, unit, checkout, Observed>>
Start(c) ==
    /\ At(c, "start")
    /\ unit' = [unit EXCEPT ![T(c)] = "queued"] /\ starts' = [starts EXCEPT ![T(c)] = @ + 1]
    /\ Go(c, "confirm")
    /\ UNCHANGED <<Host, files, checkout, ranOn, ranWith>>
\* systemd: the guard of the unit exits before the worker if the mounts are not the expected ones
MutantGuard(t) == TRUE
Guard(t) == Admitted(t)
UnitStarts ==
    /\ \E t \in Tasks :
        /\ unit[t] = "queued"
        /\ IF Guard(t)
           THEN /\ unit' = [unit EXCEPT ![t] = "running"]
                /\ ranOn' = [ranOn EXCEPT ![t] = @ \cup {storage}] /\ ranWith' = [ranWith EXCEPT ![t] = @ \cup {binary}]
           ELSE unit' = [unit EXCEPT ![t] = "gone"] /\ UNCHANGED <<ranOn, ranWith>>
    /\ UNCHANGED <<Host, files, checkout, call, starts>>
MutantConfirm(c) ==
    /\ At(c, "confirm")
    /\ \/ /\ unit[T(c)] = "running"
          /\ call' = [call EXCEPT ![c].step = "run", ![c].started = TRUE, ![c].stage = 1]
       \/ starts[T(c)] < 2 /\ Go(c, "start")
    /\ UNCHANGED <<Host, files, unit, checkout, Observed>>
\* within ten seconds, else the start stays uncertain
Confirm(c) ==
    /\ At(c, "confirm")
    /\ \/ /\ unit[T(c)] = "running"
          /\ call' = [call EXCEPT ![c].step = "run", ![c].started = TRUE, ![c].stage = 1]
       \/ Go(c, "terminate")
    /\ UNCHANGED <<Host, files, unit, checkout, Observed>>

\* the worker changes what it likes in its checkout as long as it lives
Work ==
    /\ \E t \in Tasks :
        /\ unit[t] \in {"running", "surviving"}
        /\ \/ \E e \in Edits : checkout' = [checkout EXCEPT ![t].content = e]
           \/ checkout' = [checkout EXCEPT ![t].outside = TRUE]
    /\ UNCHANGED <<Host, files, unit, call, Observed>>
\* the executable is measured again after the profile was read and when the turn is over
MutantMeasured(stage) == Stages[stage] = "profile"
Measured(stage) == Stages[stage] \in {"profile", "finalize"}
Exchange(c) ==
    /\ At(c, "run") /\ unit[T(c)] = "running"
    /\ Measured(call[c].stage) => binary = "pinned"
    /\ call' = IF call[c].stage = Len(Stages) THEN [call EXCEPT ![c].step = "terminate", ![c].observed = "completed"]
               ELSE [call EXCEPT ![c].stage = @ + 1]
    /\ UNCHANGED <<Host, files, unit, checkout, Observed>>
MutantFail(c) ==
    /\ At(c, "run")
    /\ call' = [call EXCEPT ![c].step = "terminate", ![c].observed = "blocked"]
    /\ UNCHANGED <<Host, files, unit, checkout, Observed>>
\* a deadline, a refusal, an unexpected answer; or an outcome that is not known at all
Fail(c) ==
    /\ At(c, "run")
    /\ \E outcome \in {"failed", "timeout", None} :
         call' = [call EXCEPT ![c].step = "terminate", ![c].observed = outcome]
    /\ UNCHANGED <<Host, files, unit, checkout, Observed>>

\* systemctl stop; it may fail, and a process in the kernel may survive a stop that succeeded
Terminate(c) ==
    /\ At(c, "terminate")
    /\ \/ /\ \/ unit[T(c)] \in {"running", "gone"} /\ unit' = [unit EXCEPT ![T(c)] = "gone"]
             \/ unit[T(c)] = "running" /\ unit' = [unit EXCEPT ![T(c)] = "surviving"]
             \/ unit[T(c)] \in {"queued", "surviving"} /\ UNCHANGED unit
          /\ IF call[c].started THEN Go(c, "verify") ELSE Go(c, "give up")
       \/ Go(c, "give up") /\ UNCHANGED unit
    /\ UNCHANGED <<Host, files, checkout, Observed>>
\* neither the unit nor a process of its cgroup is left, and the storage is still the admitted one
MutantEmpty(t) == unit[t] \in {"gone", "surviving"} /\ Admitted(t)
Empty(t) == unit[t] = "gone" /\ Admitted(t)
VerifyEmpty(c) ==
    /\ At(c, "verify")
    /\ IF Empty(T(c)) /\ call[c].observed # None THEN Go(c, "collect") ELSE Go(c, "give up")
    /\ UNCHANGED <<Host, files, unit, checkout, Observed>>
\* result.json of a blocked or uncertain attempt; state.json stays at "launching"
GiveUp(c) ==
    /\ At(c, "give up") /\ Write(T(c), "result", [status |-> "blocked", diff |-> None]) /\ Block(c)
    /\ UNCHANGED <<Host, unit, checkout, Observed>>

\* the second snapshot: a change outside the scope makes the result rejected, whatever the worker said
MutantVerdict(c) == call[c].observed
Verdict(c) == IF checkout[T(c)].outside THEN "rejected" ELSE call[c].observed
Collect(c) ==
    /\ At(c, "collect")
    /\ call' = [call EXCEPT ![c].step = IF Verdict(c) = "completed" THEN "diff" ELSE "result",
                            ![c].observed = Verdict(c), ![c].snapshot = checkout[T(c)].content]
    /\ UNCHANGED <<Host, files, unit, checkout, Observed>>
WriteDiff(c) ==
    /\ At(c, "diff") /\ Write(T(c), "diff", call[c].snapshot) /\ Go(c, "result")
    /\ UNCHANGED <<Host, unit, checkout, Observed>>
WriteResult(c) ==
    /\ At(c, "result")
    /\ Write(T(c), "result", [status |-> call[c].observed, diff |-> files[T(c)].diff]) /\ Go(c, "finish")
    /\ UNCHANGED <<Host, unit, checkout, Observed>>
\* the result is read back and state.json commits its hash
Finish(c) ==
    /\ At(c, "finish") /\ Write(T(c), "phase", "finished") /\ Block(c)
    /\ UNCHANGED <<Host, unit, checkout, Observed>>

-----------------------------------------------------------------------------
(* inspect, and the host                                                   *)

\* inspect reports a result only if every record agrees
Inspected(t) ==
    IF /\ files[t].phase = "finished" /\ files[t].attempt /\ files[t].unit /\ Admitted(t)
       /\ files[t].result # None /\ files[t].result.status \in Final
       /\ files[t].result.status = "completed" => files[t].diff = files[t].result.diff
    THEN files[t].result ELSE [status |-> "blocked", diff |-> None]

\* the supervisor dies; its unit does not
Die(c) ==
    /\ ~At(c, "idle") /\ faults < MaxFaults /\ faults' = faults + 1 /\ Block(c)
    /\ UNCHANGED <<storage, binary, files, unit, checkout, Observed>>
\* RuntimeMaxSec, the worker exits, the survivor dies
UnitEnds ==
    /\ \E t \in Tasks : unit[t] \in {"running", "surviving"} /\ unit' = [unit EXCEPT ![t] = "gone"]
    /\ UNCHANGED <<Host, files, checkout, call, Observed>>
\* another file system is mounted over the storage, or removed again; the executable is updated
InTurn == {T(c) : c \in {d \in Callers : At(d, "run") \/ At(d, "confirm")}}
HostChanges ==
    /\ faults < MaxFaults /\ faults' = faults + 1
    /\ \/ Stored /\ storage' = (IF storage = "first" THEN "other" ELSE "first") /\ UNCHANGED <<binary, ranWith>>
       \/ /\ binary' = "replaced" /\ UNCHANGED storage
          /\ ranWith' = [t \in Tasks |-> IF t \in InTurn THEN ranWith[t] \cup {"replaced"} ELSE ranWith[t]]
    /\ UNCHANGED <<files, unit, checkout, call, starts, ranOn>>

Next ==
    \/ \E c \in Callers :
        \/ Admit(c) \/ Claim(c) \/ Reserve(c) \/ Configure(c) \/ Attempt(c) \/ RecordUnit(c) \/ Start(c) \/ Confirm(c)
        \/ Exchange(c) \/ Fail(c) \/ Terminate(c) \/ VerifyEmpty(c) \/ GiveUp(c) \/ Collect(c) \/ WriteDiff(c)
        \/ WriteResult(c) \/ Finish(c) \/ Die(c)
    \/ UnitStarts \/ Work \/ UnitEnds \/ HostChanges
Spec == Init /\ [][Next]_vars

-----------------------------------------------------------------------------
(* Properties                                                              *)

Steps == {"idle", "claim", "reserve", "configure", "attempt", "record", "start", "confirm", "run", "terminate", "verify",
          "give up", "collect", "diff", "result", "finish"}
Content == Edits \cup {"base"}
TypeOK ==
    /\ storage \in {"first", "other"} /\ binary \in {"pinned", "replaced"}
    /\ files \in [Tasks -> [admission: {None, "first", "other"}, phase: {None, "directory", "reserved", "launching", "finished"},
                            attempt: BOOLEAN, unit: BOOLEAN, diff: Content \cup {None},
                            result: [status: Final \cup {"blocked"}, diff: Content \cup {None}] \cup {None}]]
    /\ unit \in [Tasks -> {"none", "queued", "running", "surviving", "gone"}]
    /\ checkout \in [Tasks -> [content: Content, outside: BOOLEAN]]
    /\ call \in [Callers -> [task: Tasks \cup {None}, step: Steps, stage: 0 .. Len(Stages), started: BOOLEAN,
                             observed: Final \cup {None}, snapshot: Content \cup {None}]]
    /\ starts \in [Tasks -> Nat]

\* A task identity starts a worker at most once, whoever submits it again and whatever died.
StartedOnce == \A t \in Tasks : starts[t] <= 1

\* A worker that runs, or may still be started, is named by the records of its attempt, also after the
\* supervisor died: an operator finds the unit.
UnitsAreRecorded ==
    \A t \in Tasks : unit[t] \in {"queued", "running", "surviving"} =>
        files[t].unit /\ files[t].attempt /\ files[t].phase = "launching"

\* A reported result is of a worker that is gone and cannot come back; a completed one is exactly the change that
\* is in the checkout, all of it in scope.
ResultsAreFinal ==
    \A t \in Tasks : Inspected(t).status # "blocked" =>
        /\ unit[t] = "gone"
        /\ Inspected(t).status = "completed" => checkout[t] = [content |-> Inspected(t).diff, outside |-> FALSE]

\* A completed result was made on the storage that was admitted, by the pinned executable until its turn was over.
ResultsAreBound ==
    \A t \in Tasks : Inspected(t).status = "completed" =>
        /\ Stored => ranOn[t] = {files[t].admission}
        /\ ranWith[t] = {"pinned"}

\* What the launcher reported once is what it always reports, unless the storage is lost.
ResultsStay == \A t \in Tasks : Inspected(t).status # "blocked" /\ Admitted(t)' => Inspected(t)' = Inspected(t)
=============================================================================
