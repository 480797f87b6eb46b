----------------------------- MODULE RunReceipts -----------------------------
(***************************************************************************)
(* The completion receipts of the odds collector                           *)
(* (prospective_run_receipts.py, published by corner_prospective.run_once  *)
(* under the runner lock) and the status command that shows the newest of  *)
(* them (production_status.py).                                            *)
(*                                                                         *)
(* A receipt is a file of the directory of its completion day, which is in *)
(* the directory run-receipts.  A collector may be killed at any step, a   *)
(* sync may fail, a file may be damaged; a power loss leaves what the      *)
(* directories were last synced with.                                      *)
(***************************************************************************)
EXTENDS Integers, FiniteSets, FiniteSetsExt, FiniteSetTheorems, TLAPS

CONSTANTS
    MaxTime,     \* bound
    DayLength,
    MaxPerDay,   \* MAX_FILES_PER_DAY
    MaxRuns,     \* bound
    MaxKills,    \* bound: killed collectors and failed syncs
    MaxLosses,   \* bound: power losses
    MaxDamages,  \* bound: damaged files
    None

ASSUME ReceiptsAssumption ==
    /\ DayLength \in Nat \ {0} /\ MaxTime \in Nat /\ MaxPerDay \in Nat
    /\ {MaxRuns, MaxKills, MaxLosses, MaxDamages} \subseteq Nat

Statuses == {"OK", "PARTIAL", "FAIL"}
Day(t) == t \div DayLength
Days == 0 .. Day(MaxTime)

VARIABLES
    now,
    root, days, files, \* run-receipts, the day directories, the receipts
    durable,    \* what the disk keeps of them
    damaged,    \* receipts that no longer verify
    control,    \* the state production_status gives the control: OK, WARNING, ERROR
    run,        \* the collector that holds the runner lock, or None
    completed,  \* ghost: the receipts published, and those reported as not
    rejected,
    runs, kills, losses, damages

disk == <<root, days, files, durable>>
ghosts == <<completed, rejected>>
bounds == <<runs, kills, losses, damages>>
vars == <<now, disk, damaged, control, run, ghosts, bounds>>

Init ==
    /\ now = 0
    /\ root = FALSE /\ days = {} /\ files = {}
    /\ durable = [root |-> FALSE, days |-> {}, files |-> {}]
    /\ damaged = {} /\ control = "OK"
    /\ run = None
    /\ completed = {} /\ rejected = {}
    /\ runs = 0 /\ kills = 0 /\ losses = 0 /\ damages = 0

Tick ==
    /\ now < MaxTime
    /\ now' = now + 1
    /\ UNCHANGED <<disk, damaged, control, run, ghosts, bounds>>

-----------------------------------------------------------------------------
(* The collector                                                           *)

At(place) == run # None /\ run.pc = place
Goto(place) == run' = [run EXCEPT !.pc = place]

Begin ==
    /\ run = None /\ runs < MaxRuns
    /\ runs' = runs + 1
    /\ run' = [pc |-> "work", start |-> now, rec |-> None, fresh |-> {}]
    /\ UNCHANGED <<now, disk, damaged, control, ghosts, kills, losses, damages>>

(* The summary of the work and what it leaves of the control; the          *)
(* diagnostics are kept when all their times are of this run.              *)
Complete(status, state, events) ==
    /\ At("work")
    /\ control' = state
    /\ run' = [run EXCEPT !.pc = "mkdir",
                          !.rec = [id |-> runs, start |-> run.start, end |-> now, status |-> status,
                                   diagnostics |-> IF \A e \in events : run.start <= e /\ e <= now
                                                   THEN "RECORDED" ELSE "INCOMPLETE"]]
    /\ UNCHANGED <<now, disk, damaged, ghosts, bounds>>

MutantMakeDirectories ==
    /\ At("mkdir")
    /\ root' = TRUE /\ days' = days \cup {Day(run.rec.start)}
    /\ run' = [run EXCEPT !.pc = "sync", !.fresh = {}]
    /\ UNCHANGED <<now, files, durable, damaged, control, ghosts, bounds>>
(* Only a directory that is new is synced into its parent.                 *)
MakeDirectories ==
    /\ At("mkdir")
    /\ root' = TRUE /\ days' = days \cup {Day(run.rec.end)}
    /\ run' = [run EXCEPT !.pc = "sync",
                          !.fresh = (IF root THEN {} ELSE {"root"}) \cup
                                    (IF Day(run.rec.end) \in days THEN {} ELSE {"day"})]
    /\ UNCHANGED <<now, files, durable, damaged, control, ghosts, bounds>>

MutantSyncParents ==
    /\ At("sync")
    /\ durable' = [durable EXCEPT !.root = @ \/ "root" \in run.fresh]
    /\ Goto("link")
    /\ UNCHANGED <<now, root, days, files, damaged, control, ghosts, bounds>>
SyncParents ==
    /\ At("sync")
    /\ durable' = [durable EXCEPT !.root = @ \/ "root" \in run.fresh,
                                  !.days = IF "day" \in run.fresh THEN days ELSE @]
    /\ Goto("link")
    /\ UNCHANGED <<now, root, days, files, damaged, control, ghosts, bounds>>

Link ==
    /\ At("link")
    /\ files' = files \cup {run.rec}
    /\ Goto("commit")
    /\ UNCHANGED <<now, root, days, durable, damaged, control, ghosts, bounds>>

Of(day, rs) == {r \in rs : Day(r.end) = day}

Commit ==
    /\ At("commit")
    /\ LET day == Day(run.rec.end)
       IN  durable' = [durable EXCEPT !.files = (@ \ Of(day, @)) \cup Of(day, files)]
    /\ completed' = completed \cup {run.rec}
    /\ run' = None
    /\ UNCHANGED <<now, root, days, files, damaged, control, rejected, bounds>>

MutantSyncFails ==
    /\ kills < MaxKills /\ (At("sync") \/ At("link") \/ At("commit"))
    /\ kills' = kills + 1
    /\ rejected' = rejected \cup {run.rec}
    /\ run' = None
    /\ UNCHANGED <<now, disk, damaged, control, completed, runs, losses, damages>>
(* A link or a sync that fails takes the new receipt away again.           *)
SyncFails ==
    /\ kills < MaxKills /\ (At("sync") \/ At("link") \/ At("commit"))
    /\ kills' = kills + 1
    /\ files' = files \ {run.rec}
    /\ rejected' = rejected \cup {run.rec}
    /\ run' = None
    /\ UNCHANGED <<now, root, days, durable, damaged, control, completed, runs, losses, damages>>

Kill ==
    /\ kills < MaxKills /\ run # None
    /\ kills' = kills + 1
    /\ run' = None
    /\ UNCHANGED <<now, disk, damaged, control, ghosts, runs, losses, damages>>

PowerLoss ==
    /\ losses < MaxLosses
    /\ losses' = losses + 1
    /\ root' = durable.root
    /\ days' = IF durable.root THEN durable.days ELSE {}
    /\ files' = {r \in durable.files : Day(r.end) \in days'}
    /\ durable' = [root |-> root', days |-> days', files |-> files']
    /\ run' = None
    /\ UNCHANGED <<now, damaged, control, ghosts, runs, kills, damages>>

Damage(r) ==
    /\ damages < MaxDamages /\ r \notin damaged
    /\ damages' = damages + 1
    /\ damaged' = damaged \cup {r}
    /\ UNCHANGED <<now, disk, control, run, ghosts, runs, kills, losses>>

-----------------------------------------------------------------------------
(* The readers                                                             *)

Corrupt == [id |-> 0]

MutantLatest ==
    LET verified == files \ damaged
    IN  IF verified = {} THEN None ELSE CHOOSE r \in verified : \A q \in verified : q.end <= r.end
(* The newest receipt of the newest day with any; days whose directory is  *)
(* empty are passed over, and nothing older stands in for one that does not*)
(* verify or is not the only newest.                                       *)
Latest ==
    IF files = {} THEN None
    ELSE LET of == Of(Max({Day(r.end) : r \in files}), files)
             newest == {r \in of : \A q \in of : q.end <= r.end}
         IN  IF Cardinality(of) > MaxPerDay \/ Cardinality(newest) > 1 \/ newest \cap damaged # {}
             THEN Corrupt ELSE CHOOSE r \in newest : TRUE

MutantMerge(state, receipt) ==
    IF receipt = Corrupt THEN "ERROR" ELSE IF receipt = None THEN state
    ELSE IF receipt.status = "FAIL" THEN "ERROR" ELSE IF receipt.status = "PARTIAL" THEN "WARNING" ELSE "OK"
\* _completion: the worse of the control's state and the last run's
Merge(state, receipt) ==
    IF receipt = Corrupt THEN "ERROR"
    ELSE IF receipt = None THEN state
    ELSE IF state = "ERROR" \/ receipt.status = "FAIL" THEN "ERROR"
    ELSE IF state = "WARNING" \/ receipt.status = "PARTIAL" THEN "WARNING" ELSE "OK"

\* report_status: under the runner lock or not at all; other is the worst state
\* of the components that are not modelled
Report(other) ==
    LET receipt == IF run = None THEN Latest ELSE None
        state == IF run = None THEN Merge(control, receipt) ELSE "ERROR"
    IN  [receipt |-> receipt, state |-> state,
         completion |-> IF receipt = None THEN "UNVERIFIED"
                        ELSE IF receipt = Corrupt THEN "CORRUPT" ELSE "VERIFIED",
         exit |-> IF "ERROR" \in {state, other} THEN 1 ELSE 0]

Next ==
    \/ Tick \/ Begin
    \/ \E status \in Statuses, state \in {"OK", "WARNING", "ERROR"}, events \in {{}, {now}, {now + 1}} :
            Complete(status, state, events)
    \/ MakeDirectories \/ SyncParents \/ Link \/ Commit \/ SyncFails \/ Kill \/ PowerLoss
    \/ \E r \in files : Damage(r)

Spec == Init /\ [][Next]_vars

-----------------------------------------------------------------------------
TypeOK ==
    /\ now \in 0 .. MaxTime /\ days \subseteq Days
    /\ \A r \in files : r.start <= r.end /\ Day(r.end) \in days /\ r.status \in Statuses
    /\ days # {} => root

(* A receipt whose publication returned stays, whatever later runs do, and *)
(* through a power loss.                                                   *)
PublishedSurvive == completed \subseteq files

(* What a run reported as not published is not shown to any reader.        *)
RejectedNotShown == run = None => rejected \cap files = {}

(* The status shows no run older than one whose receipt is there: it would *)
(* hide that run's failure.                                                *)
NewestIsShown ==
    LET report == Report("OK")
    IN  report.completion = "VERIFIED" =>
            report.receipt \notin damaged /\ \A r \in files : r.id <= report.receipt.id

(* A last run that failed or cannot be read, and a control that is in      *)
(* error, always fail the status command.                                  *)
FailureFailsStatus ==
    LET report == Report("OK")
    IN  /\ report.completion = "CORRUPT" \/ control = "ERROR" => report.exit = 1
        /\ report.completion = "VERIFIED" /\ report.receipt.status = "FAIL" => report.exit = 1
        /\ report.state = "OK" => control = "OK"

(* The status tells the truth about the last run.                          *)
StatusIsTrue == TypeOK /\ RejectedNotShown /\ NewestIsShown /\ FailureFailsStatus

-----------------------------------------------------------------------------
(* That the status tells the truth is proved, for any number of runs,      *)
(* kills, failed syncs, losses of power and damaged files.  The argument:  *)
(* the runner lock makes identifiers and completion times of receipts grow *)
(* together, on disk as in memory.                                         *)

Receipt == [id: Nat, start: 0 .. MaxTime, end: 0 .. MaxTime, status: Statuses,
            diagnostics: {"RECORDED", "INCOMPLETE"}]
Collector == [pc: {"work", "mkdir", "sync", "link", "commit"}, start: 0 .. MaxTime,
              rec: Receipt \cup {None}, fresh: SUBSET {"root", "day"}]

Live == run # None
\* the run that holds the lock has its receipt made up
Made == Live /\ run.pc # "work"
Kept == files \cup durable.files

Typed ==
    /\ now \in 0 .. MaxTime /\ runs \in Nat
    /\ root \in BOOLEAN /\ days \subseteq Days /\ files \subseteq Receipt /\ IsFiniteSet(files)
    /\ durable \in [root: BOOLEAN, days: SUBSET Days, files: SUBSET Receipt] /\ IsFiniteSet(durable.files)
    /\ control \in {"OK", "WARNING", "ERROR"}
    /\ Live => run \in Collector

\* A file is in a directory that exists.
Placed ==
    /\ days # {} => root
    /\ \A r \in files : Day(r.end) \in days
    /\ Made /\ run.pc # "mkdir" => Day(run.rec.end) \in days

\* Receipts are of runs that were started, and completed by now.
Past ==
    /\ \A r \in Kept : r.start <= r.end /\ r.end <= now /\ r.id <= runs
    /\ Live => run.start <= now
    /\ Made => run.rec \in Receipt /\ run.rec.id = runs /\ run.rec.start <= run.rec.end /\ run.rec.end <= now

\* One receipt per run, completed in the order of the runs.
Ordered ==
    \A r, q \in Kept : /\ r.id = q.id => r = q
                       /\ r.id < q.id => r.end <= q.end

\* While a run is live, the others are over: their receipts are older, and its own is
\* on file from the link on only, and durable after it.
Before ==
    Live => /\ \A r \in durable.files : r.id < runs
            /\ \A r \in files : r.id < runs \/ (run.pc = "commit" /\ r = run.rec)
            /\ \A r \in rejected : r.id < runs
            /\ \A r \in Kept : r.id < runs => r.end <= run.start
            /\ Made => run.start <= run.rec.end

NotShown == rejected \cap Kept = {} /\ \A r \in rejected : r.id \in Nat /\ r.id <= runs

ReceiptsInv == Typed /\ Placed /\ Past /\ Ordered /\ Before /\ NotShown

-----------------------------------------------------------------------------
(* Days, and the greatest of a bounded set                                  *)

\* A later instant is not on an earlier day.
LEMMA DaysFollow ==
    ASSUME NEW s \in Nat, NEW t \in Nat
    PROVE  Day(s) \in Nat /\ (s <= t => Day(s) <= Day(t))
<1> DEFINE D == DayLength
<1>1. D \in Nat \ {0}
  BY ReceiptsAssumption
<1>2. /\ s = D * (s \div D) + (s % D) /\ s \div D \in Nat /\ s % D \in 0 .. D - 1
      /\ t = D * (t \div D) + (t % D) /\ t \div D \in Nat /\ t % D \in 0 .. D - 1
  BY <1>1
<1>3. ASSUME s <= t, t \div D < s \div D PROVE FALSE
  <2>1. PICK x \in Nat : s \div D = (t \div D) + 1 + x
    <3>1. s \div D - (t \div D) - 1 \in Nat
      BY <1>2, <1>3
    <3>. QED BY <1>2, <3>1
  <2>2. D * ((t \div D) + 1 + x) = D * (t \div D) + D + D * x /\ D * x \in Nat /\ D * (t \div D) \in Nat
    BY <1>1, <1>2
  <2>. QED BY <1>1, <1>2, <1>3, <2>1, <2>2
<1>. QED BY <1>2, <1>3 DEF Day

\* A set of naturals has a least member.
LEMMA LeastMember ==
    ASSUME NEW T \in SUBSET Nat, T # {}
    PROVE  \E x \in T : \A y \in T : x <= y
<1> DEFINE Less == {p \in Nat \X Nat : p[1] < p[2]}
<1>1. IsWellFoundedOn(Less, Nat)
  BY NatLessThanWellFounded, Zenon DEF OpToRel
<1>2. PICK x \in T : \A y \in T : <<y, x>> \notin Less
  BY <1>1, WFMin
<1>3. \A y \in T : <<y, x>> \in Less <=> y < x
  OBVIOUS
<1>4. \A y \in T : ~(y < x) /\ x \in Nat /\ y \in Nat
  BY <1>2, <1>3
<1>. QED BY <1>4

\* A set of naturals that is bounded has a greatest.
LEMMA GreatestMember ==
    ASSUME NEW S \in SUBSET Nat, S # {}, NEW n \in Nat, \A s \in S : s <= n
    PROVE  Max(S) \in S /\ \A s \in S : s <= Max(S)
<1> DEFINE T == {n - s : s \in S}
<1>1. T \in SUBSET Nat /\ T # {}
  <2>1. \A s \in S : n - s \in Nat
    OBVIOUS
  <2>2. PICK s \in S : TRUE
    OBVIOUS
  <2>. QED BY <2>1, <2>2
<1>2. PICK d \in T : \A e \in T : d <= e
  BY <1>1, LeastMember
<1>3. PICK x \in S : d = n - x
  BY <1>2
<1>4. \A y \in S : x >= y
  <2>1. SUFFICES ASSUME NEW y \in S PROVE x >= y
    OBVIOUS
  <2>2. n - x <= n - y /\ x \in Nat /\ y \in Nat
    BY <1>2, <1>3
  <2>. QED BY <2>2
<1>5. Max(S) \in S /\ \A y \in S : Max(S) >= y
  BY <1>4 DEF Max
<1>6. Max(S) \in Nat /\ \A y \in S : y \in Nat
  BY <1>5
<1>. QED BY <1>5, <1>6

-----------------------------------------------------------------------------
(* What the status shows                                                    *)

\* When Latest finds a receipt that verifies, no receipt is of a later run.
LEMMA LatestIsLast ==
    ASSUME ReceiptsInv, Latest # None, Latest # Corrupt
    PROVE  Latest \in files /\ Latest \notin damaged /\ \A r \in files : r.id <= Latest.id
<1> DEFINE D == {Day(r.end) : r \in files}
           of == Of(Max(D), files)
           newest == {r \in of : \A q \in of : q.end <= r.end}
<1>1. files # {} /\ files \subseteq Receipt /\ IsFiniteSet(files) /\ now \in 0 .. MaxTime /\ MaxTime \in Nat
  BY ReceiptsAssumption DEF Latest, ReceiptsInv, Typed
<1>2. \A r \in files : r.end \in Nat /\ r.end <= MaxTime /\ Day(r.end) \in Nat /\ Day(r.end) <= Day(MaxTime)
  BY <1>1, DaysFollow DEF Receipt
<1>3. Max(D) \in D /\ \A d \in D : d <= Max(D)
  <2>1. D \in SUBSET Nat /\ D # {} /\ \A d \in D : d <= Day(MaxTime)
    BY <1>1, <1>2
  <2>2. Day(MaxTime) \in Nat
    BY <1>1, DaysFollow
  <2>. QED BY <2>1, <2>2, GreatestMember
<1>4. of \subseteq files /\ of # {} /\ \A r \in files : r \in of <=> Day(r.end) = Max(D)
  BY <1>3 DEF Of
<1>5. newest # {} /\ newest \subseteq of
  <2> DEFINE E == {r.end : r \in of}
  <2>1. E \in SUBSET Nat /\ E # {} /\ \A e \in E : e <= MaxTime
    BY <1>2, <1>4
  <2>2. Max(E) \in E /\ \A e \in E : e <= Max(E)
    BY <1>1, <2>1, GreatestMember
  <2>3. PICK r \in of : r.end = Max(E)
    BY <2>2
  <2>. QED BY <2>2, <2>3
<1>6. ~(Cardinality(newest) > 1) /\ newest \cap damaged = {} /\ Latest \in newest
  <2>1. Latest = IF Cardinality(of) > MaxPerDay \/ Cardinality(newest) > 1 \/ newest \cap damaged # {}
                 THEN Corrupt ELSE CHOOSE r \in newest : TRUE
    BY <1>1 DEF Latest
  <2>. QED BY <1>5, <2>1
<1>. DEFINE last == Latest
<1>. HIDE DEF last
<1>7. last \in newest /\ last \in of /\ last \in files
  BY <1>4, <1>5, <1>6 DEF last
<1>. HIDE DEF D
<1>8. ASSUME NEW r \in files, ~(r.id <= last.id) PROVE FALSE
  <2>1. last.id < r.id
    BY <1>1, <1>7, <1>8 DEF Receipt
  <2>2. last.end <= r.end
    BY <1>7, <2>1 DEF ReceiptsInv, Ordered, Kept
  <2>3. Day(last.end) <= Day(r.end) /\ Day(last.end) = Max(D) /\ Day(r.end) <= Max(D)
    BY <1>2, <1>3, <1>4, <1>7, <2>2, DaysFollow DEF D
  <2>4. r \in of
    <3>1. Day(r.end) \in Nat /\ Day(last.end) \in Nat
      BY <1>2, <1>7
    <3>. QED BY <1>4, <2>3, <3>1
  <2>5. r.end <= last.end
    BY <1>7, <2>4
  <2>6. r \in newest
    <3>1. r.end = last.end
      BY <1>2, <1>7, <2>2, <2>5
    <3>. QED BY <1>7, <2>4, <3>1
  <2>7. r # last
    BY <1>1, <1>7, <2>1 DEF Receipt
  <2>8. IsFiniteSet(newest) /\ {last, r} \in SUBSET newest
    <3>1. newest \in SUBSET files
      BY <1>4, <1>5
    <3>. QED BY <1>1, <1>7, <2>6, <3>1, FS_Subset
  <2>9. Cardinality({last, r}) = 2
    <3>1. IsFiniteSet({last}) /\ Cardinality({last}) = 1 /\ r \notin {last} /\ {last} \cup {r} = {last, r}
      BY <2>7, FS_Singleton
    <3>2. Cardinality({last} \cup {r}) = 1 + 1
      BY <3>1, FS_AddElement
    <3>. QED BY <3>1, <3>2
  <2>10. 2 <= Cardinality(newest) /\ Cardinality(newest) \in Nat
    BY <2>8, <2>9, FS_Subset, FS_CardinalityType
  <2>11. ~(Cardinality(newest) > 1)
    BY <1>6
  <2>. HIDE DEF newest
  <2>. QED BY <2>10, <2>11
<1>. QED BY <1>6, <1>7, <1>8 DEF last

LEMMA StatusFromInv == ReceiptsInv => StatusIsTrue
<1>1. SUFFICES ASSUME ReceiptsInv PROVE StatusIsTrue
  OBVIOUS
<1>2. TypeOK
  BY <1>1 DEF ReceiptsInv, Typed, Placed, Past, Kept, Receipt, TypeOK
<1>3. RejectedNotShown
  BY <1>1 DEF ReceiptsInv, NotShown, Kept, RejectedNotShown
<1>4. NewestIsShown
  <2>1. ASSUME Report("OK").completion = "VERIFIED"
        PROVE  Latest # None /\ Latest # Corrupt /\ Report("OK").receipt = Latest
    BY <2>1 DEF Report
  <2>. QED BY <1>1, <2>1, LatestIsLast DEF NewestIsShown
<1>5. FailureFailsStatus
  BY <1>1 DEF ReceiptsInv, Typed, FailureFailsStatus, Report, Merge
<1>. QED BY <1>2, <1>3, <1>4, <1>5 DEF StatusIsTrue

-----------------------------------------------------------------------------
(* Every step keeps the invariant                                           *)

LEMMA InitReceipts == Init => ReceiptsInv
<1>1. SUFFICES ASSUME Init PROVE ReceiptsInv
  OBVIOUS
<1>2. files = {} /\ durable.files = {} /\ rejected = {} /\ ~Live /\ Kept = {}
  BY <1>1 DEF Init, Live, Kept
<1>3. Typed
  <2>1. now \in 0 .. MaxTime /\ runs \in Nat /\ days \subseteq Days /\ control \in {"OK", "WARNING", "ERROR"}
    BY <1>1, ReceiptsAssumption DEF Init
  <2>2. root \in BOOLEAN /\ durable \in [root: BOOLEAN, days: SUBSET Days, files: SUBSET Receipt]
    BY <1>1 DEF Init
  <2>3. IsFiniteSet(files) /\ IsFiniteSet(durable.files)
    BY <1>2, FS_EmptySet
  <2>. QED BY <1>2, <2>1, <2>2, <2>3 DEF Typed
<1>4. Placed /\ Past /\ Ordered /\ Before /\ NotShown
  BY <1>1, <1>2 DEF Init, Placed, Past, Ordered, Before, NotShown, Made
<1>. QED BY <1>3, <1>4 DEF ReceiptsInv

LEMMA TickKeeps == ReceiptsInv /\ Tick => ReceiptsInv'
<1>1. SUFFICES ASSUME ReceiptsInv, Tick PROVE ReceiptsInv'
  OBVIOUS
<1>2. /\ now' = now + 1 /\ now < MaxTime /\ UNCHANGED <<root, days, files, durable, rejected, control, run, runs>>
      /\ Kept' = Kept /\ Live' = Live /\ Made' = Made
  BY <1>1 DEF Tick, disk, ghosts, bounds, Kept, Live, Made
<1>3. now \in 0 .. MaxTime /\ now' \in 0 .. MaxTime /\ Kept \subseteq Receipt
  BY <1>1, <1>2, ReceiptsAssumption DEF ReceiptsInv, Typed, Kept
<1>4. Typed' /\ Placed'
  BY <1>1, <1>2, <1>3 DEF ReceiptsInv, Typed, Placed
<1>5. Past'
  <2>1. \A r \in Kept : r.end \in 0 .. MaxTime
    BY <1>3 DEF Receipt
  <2>2. /\ Live => run.start \in 0 .. MaxTime
        /\ Made => run.rec.end \in 0 .. MaxTime
    BY <1>1 DEF ReceiptsInv, Typed, Collector, Past, Receipt, Made
  <2>. QED BY <1>1, <1>2, <1>3, <2>1, <2>2 DEF ReceiptsInv, Past
<1>6. Ordered' /\ Before' /\ NotShown'
  BY <1>1, <1>2 DEF ReceiptsInv, Ordered, Before, NotShown
<1>. QED BY <1>4, <1>5, <1>6 DEF ReceiptsInv

\* All receipts are of earlier runs, completed by now.
LEMMA BeginKeeps == ReceiptsInv /\ Begin => ReceiptsInv'
<1>1. SUFFICES ASSUME ReceiptsInv, Begin PROVE ReceiptsInv'
  OBVIOUS
<1>2. /\ runs' = runs + 1 /\ run' = [pc |-> "work", start |-> now, rec |-> None, fresh |-> {}]
      /\ UNCHANGED <<now, root, days, files, durable, control, rejected>>
      /\ Kept' = Kept /\ ~Live
  BY <1>1 DEF Begin, disk, ghosts, Kept, Live
<1>3. runs \in Nat /\ now \in 0 .. MaxTime /\ run' \in Collector /\ ~Made'
  BY <1>1, <1>2 DEF ReceiptsInv, Typed, Collector, Made
<1>4. Typed' /\ Placed'
  BY <1>1, <1>2, <1>3 DEF ReceiptsInv, Typed, Placed
<1>5. \A r \in Kept : r \in Receipt /\ r.id \in Nat /\ r.id < runs' /\ r.end <= now
  BY <1>1, <1>2, <1>3 DEF ReceiptsInv, Typed, Past, Kept, Receipt
<1>6. Past'
  <2>1. now <= now
    BY <1>3
  <2>2. \A r \in Kept : r.id <= runs'
    BY <1>2, <1>3, <1>5
  <2>. QED BY <1>1, <1>2, <1>3, <1>5, <2>1, <2>2 DEF ReceiptsInv, Past
<1>7. Ordered'
  BY <1>1, <1>2 DEF ReceiptsInv, Ordered
<1>8. Before' /\ NotShown'
  <2>1. \A r \in rejected : r.id \in Nat /\ r.id < runs' /\ r.id <= runs'
    BY <1>1, <1>2, <1>3 DEF ReceiptsInv, NotShown
  <2>. QED BY <1>1, <1>2, <1>3, <1>5, <2>1 DEF ReceiptsInv, Before, NotShown, Kept
<1>. QED BY <1>4, <1>6, <1>7, <1>8 DEF ReceiptsInv

LEMMA CompleteKeeps ==
    ASSUME ReceiptsInv, NEW s \in Statuses, NEW c \in {"OK", "WARNING", "ERROR"}, NEW events,
           Complete(s, c, events)
    PROVE  ReceiptsInv'
<1>1. PICK d \in {"RECORDED", "INCOMPLETE"} :
        run' = [run EXCEPT !.pc = "mkdir",
                           !.rec = [id |-> runs, start |-> run.start, end |-> now, status |-> s, diagnostics |-> d]]
  BY DEF Complete
<1>2. /\ control' = c /\ UNCHANGED <<now, root, days, files, durable, rejected, runs>> /\ Kept' = Kept
      /\ run # None /\ run.pc = "work" /\ Live
  BY DEF Complete, disk, ghosts, bounds, Kept, At, Live
<1>3. run \in Collector /\ run.start <= now /\ now \in 0 .. MaxTime /\ runs \in Nat
  BY <1>2 DEF ReceiptsInv, Typed, Past, Live
<1>4. /\ run'.pc = "mkdir" /\ run'.start = run.start /\ run'.rec \in Receipt /\ run' \in Collector
      /\ run'.rec.id = runs /\ run'.rec.start = run.start /\ run'.rec.end = now
  BY <1>1, <1>3 DEF Collector, Receipt
<1>5. Typed' /\ Placed'
  BY <1>2, <1>4 DEF ReceiptsInv, Typed, Placed, Made
<1>6. Past' /\ Ordered' /\ NotShown'
  <2>1. now <= now
    BY <1>3
  <2>. QED BY <1>2, <1>3, <1>4, <2>1 DEF ReceiptsInv, Past, Ordered, NotShown
<1>7. Before'
  BY <1>2, <1>3, <1>4 DEF ReceiptsInv, Before
<1>. QED BY <1>5, <1>6, <1>7 DEF ReceiptsInv

\* A step of the run that holds the lock that only moves it and touches no receipt.
LEMMA MoveKeeps ==
    ASSUME ReceiptsInv, Made, UNCHANGED <<now, files, control, rejected, runs>>,
           durable'.files = durable.files,
           durable' \in [root: BOOLEAN, days: SUBSET Days, files: SUBSET Receipt],
           root' \in BOOLEAN, days' \subseteq Days, days \subseteq days', days' # {} => root',
           Day(run.rec.end) \in days',
           run' \in Collector, run'.pc \in {"sync", "link"}, run.pc # "commit",
           run'.start = run.start, run'.rec = run.rec
    PROVE  ReceiptsInv'
<1>1. Live /\ Kept' = Kept
  BY DEF Made, Kept
<1>2. Typed' /\ Placed'
  BY <1>1 DEF ReceiptsInv, Typed, Placed, Made
<1>3. Past' /\ Ordered' /\ NotShown'
  BY <1>1 DEF ReceiptsInv, Past, Ordered, NotShown
<1>4. Before'
  BY <1>1 DEF ReceiptsInv, Before
<1>. QED BY <1>2, <1>3, <1>4 DEF ReceiptsInv

LEMMA MakeDirectoriesKeeps == ReceiptsInv /\ MakeDirectories => ReceiptsInv'
<1>1. SUFFICES ASSUME ReceiptsInv, MakeDirectories PROVE ReceiptsInv'
  OBVIOUS
<1>2. /\ Made /\ run \in Collector /\ run.pc = "mkdir" /\ run.rec \in Receipt
      /\ root' = TRUE /\ days' = days \cup {Day(run.rec.end)}
      /\ UNCHANGED <<now, files, durable, control, rejected, runs>>
  BY <1>1 DEF MakeDirectories, At, Made, Live, ReceiptsInv, Typed, Past, ghosts, bounds
<1>3. Day(run.rec.end) \in Days
  <2>1. run.rec.end \in Nat /\ MaxTime \in Nat /\ run.rec.end <= MaxTime
    BY <1>2, ReceiptsAssumption DEF Receipt
  <2>2. Day(run.rec.end) \in Nat /\ Day(MaxTime) \in Nat /\ Day(run.rec.end) <= Day(MaxTime)
    BY <2>1, DaysFollow
  <2>. QED BY <2>2 DEF Days
<1>4. run' \in Collector /\ run'.pc = "sync" /\ run'.start = run.start /\ run'.rec = run.rec
  <2>1. PICK fresh \in SUBSET {"root", "day"} : run' = [run EXCEPT !.pc = "sync", !.fresh = fresh]
    BY <1>1 DEF MakeDirectories
  <2>. QED BY <1>2, <2>1 DEF Collector
<1>5. durable \in [root: BOOLEAN, days: SUBSET Days, files: SUBSET Receipt] /\ days \subseteq Days
  BY <1>1 DEF ReceiptsInv, Typed
<1>. QED BY <1>1, <1>2, <1>3, <1>4, <1>5, MoveKeeps

LEMMA SyncParentsKeeps == ReceiptsInv /\ SyncParents => ReceiptsInv'
<1>1. SUFFICES ASSUME ReceiptsInv, SyncParents PROVE ReceiptsInv'
  OBVIOUS
<1>2. /\ Made /\ run \in Collector /\ run.pc = "sync" /\ Day(run.rec.end) \in days
      /\ UNCHANGED <<now, root, days, files, control, rejected, runs>>
  BY <1>1 DEF SyncParents, At, Made, Live, ReceiptsInv, Typed, Placed, ghosts, bounds
<1>3. /\ durable \in [root: BOOLEAN, days: SUBSET Days, files: SUBSET Receipt]
      /\ root \in BOOLEAN /\ days \subseteq Days /\ (days # {} => root)
  BY <1>1 DEF ReceiptsInv, Typed, Placed
<1>4. /\ durable'.files = durable.files
      /\ durable' \in [root: BOOLEAN, days: SUBSET Days, files: SUBSET Receipt]
  <2>1. durable' = [durable EXCEPT !.root = durable.root \/ "root" \in run.fresh,
                                   !.days = IF "day" \in run.fresh THEN days ELSE durable.days]
    BY <1>1 DEF SyncParents
  <2>2. (durable.root \/ "root" \in run.fresh) \in BOOLEAN
    OBVIOUS
  <2>3. (IF "day" \in run.fresh THEN days ELSE durable.days) \in SUBSET Days
    <3>1. days \in SUBSET Days /\ durable.days \in SUBSET Days
      BY <1>3
    <3>. QED BY <3>1
  <2>. QED BY <1>3, <2>1, <2>2, <2>3
<1>5. run' \in Collector /\ run'.pc = "link" /\ run'.start = run.start /\ run'.rec = run.rec
  BY <1>1, <1>2 DEF SyncParents, Goto, Collector
<1>6. root' \in BOOLEAN /\ days' \subseteq Days /\ (days' # {} => root')
  BY <1>2, <1>3, Zenon
<1>. QED BY <1>1, <1>2, <1>4, <1>5, <1>6, MoveKeeps

\* The new receipt is of the last run, and completed after all others.
LEMMA LinkKeeps == ReceiptsInv /\ Link => ReceiptsInv'
<1>1. SUFFICES ASSUME ReceiptsInv, Link PROVE ReceiptsInv'
  OBVIOUS
<1> DEFINE new == run.rec
<1>2. /\ Live /\ Made /\ run \in Collector /\ run.pc = "link" /\ files' = files \cup {new}
      /\ run' = [run EXCEPT !.pc = "commit"]
      /\ UNCHANGED <<now, root, days, durable, control, rejected, runs>>
  BY <1>1 DEF Link, At, Goto, Made, Live, ReceiptsInv, Typed, ghosts, bounds
<1>3. /\ new \in Receipt /\ new.id = runs /\ new.start <= new.end /\ new.end <= now /\ run.start <= new.end
      /\ Day(new.end) \in days
  BY <1>1, <1>2 DEF ReceiptsInv, Past, Placed, Before
<1>4. /\ run' \in Collector /\ run'.pc = "commit" /\ run'.start = run.start /\ run'.rec = new
      /\ Kept' = Kept \cup {new}
  <2>1. run' \in Collector /\ run'.pc = "commit" /\ run'.start = run.start /\ run'.rec = new
    BY <1>2 DEF Collector
  <2>2. Kept' = Kept \cup {new}
    BY <1>2 DEF Kept
  <2>. QED BY <2>1, <2>2
<1>5. \A r \in Kept : r \in Receipt /\ r.id < runs /\ r.end <= run.start
  BY <1>1, <1>2 DEF ReceiptsInv, Typed, Before, Kept
<1>. HIDE DEF new
<1>6. Typed'
  <2>1. IsFiniteSet(files \cup {new})
    BY <1>1, FS_AddElement DEF ReceiptsInv, Typed
  <2>. QED BY <1>1, <1>2, <1>3, <1>4, <2>1 DEF ReceiptsInv, Typed
<1>7. Placed'
  BY <1>1, <1>2, <1>3, <1>4 DEF ReceiptsInv, Placed
<1>8. Past'
  <2>1. new.id <= runs
    BY <1>3 DEF Receipt
  <2>. QED BY <1>1, <1>2, <1>3, <1>4, <2>1 DEF ReceiptsInv, Past
<1>9. Ordered'
  <2>1. \A r \in Kept : r.id < new.id /\ r.end <= new.end /\ r.id # new.id /\ ~(new.id < r.id)
    <3>1. run.start \in Int /\ new.end \in Int /\ new.id \in Int /\ run.start <= new.end
      BY <1>2, <1>3 DEF Collector, Receipt
    <3>2. \A r \in Kept : r.id \in Int /\ r.end \in Int
      BY <1>5 DEF Receipt
    <3>. QED BY <1>3, <1>5, <3>1, <3>2
  <2>2. new.end <= new.end /\ ~(new.id < new.id)
    BY <1>3 DEF Receipt
  <2>. QED BY <1>1, <1>4, <2>1, <2>2 DEF ReceiptsInv, Ordered
<1>10. Before'
  <2>1. ~(new.id < runs)
    BY <1>3 DEF Receipt
  <2>2. \A r \in Kept' : r.id < runs => r.end <= run.start
    BY <1>4, <1>5, <2>1
  <2>3. \A r \in files' : r.id < runs \/ r = new
    BY <1>2, <1>5 DEF Kept
  <2>. QED BY <1>1, <1>2, <1>3, <1>4, <2>2, <2>3 DEF ReceiptsInv, Before
<1>11. NotShown'
  <2>1. new \notin rejected
    <3>1. ~(new.id < runs)
      BY <1>3 DEF Receipt
    <3>2. \A r \in rejected : r.id < runs
      BY <1>1, <1>2 DEF ReceiptsInv, Before
    <3>. QED BY <3>1, <3>2
  <2>. QED BY <1>1, <1>2, <1>4, <2>1 DEF ReceiptsInv, NotShown
<1>. QED BY <1>6, <1>7, <1>8, <1>9, <1>10, <1>11 DEF ReceiptsInv

\* A step after which no run holds the lock, that adds no receipt.
LEMMA EndKeeps ==
    ASSUME ReceiptsInv, run' = None, UNCHANGED <<now, control, runs>>,
           root' \in BOOLEAN, days' \subseteq Days, days' # {} => root',
           durable' \in [root: BOOLEAN, days: SUBSET Days, files: SUBSET Receipt],
           Kept' \subseteq Kept, \A r \in files' : Day(r.end) \in days',
           \A r \in rejected' : r.id \in Nat /\ r.id <= runs,
           rejected' \cap Kept' = {}
    PROVE  ReceiptsInv'
<1>1. ~Live' /\ ~Made'
  BY DEF Live, Made
<1>2. IsFiniteSet(files') /\ IsFiniteSet(durable'.files) /\ files' \subseteq Receipt
  <2>1. IsFiniteSet(Kept) /\ Kept \subseteq Receipt
    BY FS_Union DEF ReceiptsInv, Typed, Kept
  <2>2. files' \subseteq Kept /\ durable'.files \subseteq Kept
    BY DEF Kept
  <2>. QED BY <2>1, <2>2, FS_Subset
<1>3. Typed' /\ Placed'
  BY <1>1, <1>2 DEF ReceiptsInv, Typed, Placed
<1>4. Past' /\ Ordered'
  BY <1>1 DEF ReceiptsInv, Past, Ordered
<1>5. Before' /\ NotShown'
  BY <1>1 DEF Before, NotShown
<1>. QED BY <1>3, <1>4, <1>5 DEF ReceiptsInv

LEMMA CommitKeeps == ReceiptsInv /\ Commit => ReceiptsInv'
<1>1. SUFFICES ASSUME ReceiptsInv, Commit PROVE ReceiptsInv'
  OBVIOUS
<1>2. run' = None /\ UNCHANGED <<now, root, days, files, control, rejected, runs>>
  BY <1>1 DEF Commit, bounds
<1>3. PICK day : durable' = [durable EXCEPT !.files = (durable.files \ Of(day, durable.files)) \cup Of(day, files)]
  BY <1>1 DEF Commit
<1>4. /\ durable \in [root: BOOLEAN, days: SUBSET Days, files: SUBSET Receipt] /\ files \subseteq Receipt
      /\ root \in BOOLEAN /\ days \subseteq Days /\ (days # {} => root)
      /\ \A r \in files : Day(r.end) \in days
  BY <1>1 DEF ReceiptsInv, Typed, Placed
<1>5. /\ durable'.files \subseteq Kept
      /\ durable' \in [root: BOOLEAN, days: SUBSET Days, files: SUBSET Receipt]
  BY <1>3, <1>4 DEF Of, Kept
<1>6. Kept' \subseteq Kept
  BY <1>2, <1>5 DEF Kept
<1>7. rejected' \cap Kept' = {} /\ \A r \in rejected' : r.id \in Nat /\ r.id <= runs
  BY <1>1, <1>2, <1>6 DEF ReceiptsInv, NotShown
<1>8. root' \in BOOLEAN /\ days' \subseteq Days /\ (days' # {} => root')
  BY <1>2, <1>4, Zenon
<1>. QED BY <1>1, <1>2, <1>4, <1>5, <1>6, <1>7, <1>8, EndKeeps

\* The receipt taken away was not durable: only Commit makes it so.
LEMMA SyncFailsKeeps == ReceiptsInv /\ SyncFails => ReceiptsInv'
<1>1. SUFFICES ASSUME ReceiptsInv, SyncFails PROVE ReceiptsInv'
  OBVIOUS
<1>2. /\ Live /\ Made /\ run' = None /\ files' = files \ {run.rec} /\ rejected' = rejected \cup {run.rec}
      /\ UNCHANGED <<now, root, days, durable, control, runs>>
  BY <1>1 DEF SyncFails, At, Live, Made
<1>3. /\ durable \in [root: BOOLEAN, days: SUBSET Days, files: SUBSET Receipt] /\ runs \in Nat
      /\ root \in BOOLEAN /\ days \subseteq Days /\ (days # {} => root)
      /\ \A r \in files : Day(r.end) \in days
  BY <1>1 DEF ReceiptsInv, Typed, Placed
<1>4. run.rec.id = runs /\ run.rec.id \in Nat /\ run.rec.id <= runs /\ ~(run.rec.id < runs)
  BY <1>1, <1>2, <1>3 DEF ReceiptsInv, Past
<1>5. run.rec \notin durable.files /\ Kept' \subseteq Kept /\ run.rec \notin Kept'
  <2>1. \A r \in durable.files : r.id < runs
    BY <1>1, <1>2 DEF ReceiptsInv, Before
  <2>. QED BY <1>2, <1>4, <2>1 DEF Kept
<1>6. rejected' \cap Kept' = {} /\ \A r \in rejected' : r.id \in Nat /\ r.id <= runs
  BY <1>1, <1>2, <1>4, <1>5 DEF ReceiptsInv, NotShown
<1>7. \A r \in files' : Day(r.end) \in days'
  BY <1>2, <1>3
<1>8. root' \in BOOLEAN /\ days' \subseteq Days /\ (days' # {} => root')
  BY <1>2, <1>3, Zenon
<1>. QED BY <1>1, <1>2, <1>3, <1>5, <1>6, <1>7, <1>8, EndKeeps

LEMMA KillKeeps == ReceiptsInv /\ Kill => ReceiptsInv'
<1>1. SUFFICES ASSUME ReceiptsInv, Kill PROVE ReceiptsInv'
  OBVIOUS
<1>2. run' = None /\ UNCHANGED <<now, root, days, files, durable, control, rejected, runs>> /\ Kept' = Kept
  BY <1>1 DEF Kill, disk, ghosts, Kept
<1>3. /\ durable \in [root: BOOLEAN, days: SUBSET Days, files: SUBSET Receipt]
      /\ root \in BOOLEAN /\ days \subseteq Days /\ (days # {} => root)
      /\ \A r \in files : Day(r.end) \in days
      /\ rejected \cap Kept = {} /\ \A r \in rejected : r.id \in Nat /\ r.id <= runs
  BY <1>1 DEF ReceiptsInv, Typed, Placed, NotShown
<1>4. root' \in BOOLEAN /\ days' \subseteq Days /\ (days' # {} => root')
  BY <1>2, <1>3, Zenon
<1>. QED BY <1>1, <1>2, <1>3, <1>4, EndKeeps

LEMMA PowerLossKeeps == ReceiptsInv /\ PowerLoss => ReceiptsInv'
<1>1. SUFFICES ASSUME ReceiptsInv, PowerLoss PROVE ReceiptsInv'
  OBVIOUS
<1>2. /\ run' = None /\ UNCHANGED <<now, control, rejected, runs>>
      /\ root' = durable.root /\ days' = IF durable.root THEN durable.days ELSE {}
      /\ files' = {r \in durable.files : Day(r.end) \in days'}
      /\ durable' = [root |-> root', days |-> days', files |-> files']
  BY <1>1 DEF PowerLoss, ghosts
<1>3. /\ durable \in [root: BOOLEAN, days: SUBSET Days, files: SUBSET Receipt]
      /\ rejected \cap Kept = {} /\ \A r \in rejected : r.id \in Nat /\ r.id <= runs
  BY <1>1 DEF ReceiptsInv, Typed, NotShown
<1>4. root' \in BOOLEAN /\ days' \subseteq Days /\ (days' # {} => root') /\ \A r \in files' : Day(r.end) \in days'
  BY <1>2, <1>3
<1>5. files' \subseteq durable.files /\ durable'.files = files' /\ Kept' \subseteq Kept
  BY <1>2 DEF Kept
<1>6. durable' \in [root: BOOLEAN, days: SUBSET Days, files: SUBSET Receipt]
  BY <1>2, <1>3, <1>4, <1>5
<1>7. rejected' \cap Kept' = {}
  BY <1>2, <1>3, <1>5
<1>. QED BY <1>1, <1>2, <1>3, <1>4, <1>5, <1>6, <1>7, EndKeeps

\* Nothing the invariant is about changes.
LEMMA SameKeeps ==
    ASSUME ReceiptsInv, UNCHANGED <<now, root, days, files, durable, control, run, rejected, runs>>
    PROVE  ReceiptsInv'
<1>1. Kept' = Kept /\ Live' = Live /\ Made' = Made
  BY DEF Kept, Live, Made
<1>2. Typed' /\ Placed' /\ Past'
  BY <1>1 DEF ReceiptsInv, Typed, Placed, Past
<1>3. Ordered' /\ Before' /\ NotShown'
  BY <1>1 DEF ReceiptsInv, Ordered, Before, NotShown
<1>. QED BY <1>2, <1>3 DEF ReceiptsInv

-----------------------------------------------------------------------------
(* The inductive invariant holds: one receipt per run, in the order of the *)
(* runs on disk and in memory, and a run's own receipt is on file only     *)
(* while it publishes it.                                                  *)
THEOREM ReceiptsInvariant == Spec => []ReceiptsInv
<1>1. ASSUME ReceiptsInv, [Next]_vars PROVE ReceiptsInv'
  <2>1. CASE Tick
    BY <1>1, <2>1, TickKeeps
  <2>2. CASE Begin
    BY <1>1, <2>2, BeginKeeps
  <2>3. ASSUME NEW s \in Statuses, NEW c \in {"OK", "WARNING", "ERROR"}, NEW events \in {{}, {now}, {now + 1}},
               Complete(s, c, events)
        PROVE  ReceiptsInv'
    BY <1>1, <2>3, CompleteKeeps
  <2>4. CASE MakeDirectories
    BY <1>1, <2>4, MakeDirectoriesKeeps
  <2>5. CASE SyncParents
    BY <1>1, <2>5, SyncParentsKeeps
  <2>6. CASE Link
    BY <1>1, <2>6, LinkKeeps
  <2>7. CASE Commit
    BY <1>1, <2>7, CommitKeeps
  <2>8. CASE SyncFails
    BY <1>1, <2>8, SyncFailsKeeps
  <2>9. CASE Kill
    BY <1>1, <2>9, KillKeeps
  <2>10. CASE PowerLoss
    BY <1>1, <2>10, PowerLossKeeps
  <2>11. ASSUME NEW r \in files, Damage(r) PROVE ReceiptsInv'
    BY <1>1, <2>11, SameKeeps DEF Damage, disk, ghosts
  <2>12. CASE UNCHANGED vars
    BY <1>1, <2>12, SameKeeps DEF vars, disk, ghosts, bounds
  <2>. QED BY <1>1, <2>1, <2>2, <2>3, <2>4, <2>5, <2>6, <2>7, <2>8, <2>9, <2>10, <2>11, <2>12 DEF Next
<1>. QED BY <1>1, InitReceipts, PTL DEF Spec

(* The status tells the truth about the last run: it shows no run older    *)
(* than one whose receipt is there, nothing that was reported as not       *)
(* published, and fails when the run it shows or the control did.          *)
THEOREM StatusTrue == Spec => []StatusIsTrue
<1>. QED BY ReceiptsInvariant, StatusFromInv, PTL
=============================================================================
