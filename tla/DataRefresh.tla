----------------------------- MODULE DataRefresh -----------------------------
(***************************************************************************)
(* The refresh of the leagues' result files (corner_refresh.refresh_data), *)
(* by the daily baseline and by the 06:00 morning job that asks for the    *)
(* Championship only when a finished fixture is missing                    *)
(* (morning_refresh), under the shared daily cap of one GET per league     *)
(* (refresh_attempts), with the saved summary (refresh_reporting) and the  *)
(* retained acquisition evidence (refresh_result_evidence).                *)
(*                                                                         *)
(* A file is the fixtures it has a score of, those it has corners of too,  *)
(* and whether its scores contradict the calendar.  What a GET brings is   *)
(* arbitrary.  The run lock lets one job work; a job waits for it under    *)
(* the cap and is refused without it.  Forecast readers share the data     *)
(* lock.  A job may stop between any two of its steps.  One season: its    *)
(* rollover, which forgets the previous summary, is left out.              *)
(***************************************************************************)
EXTENDS Integers, Sequences, FiniteSets, TLAPS

CONSTANTS
    Leagues,   \* the configured leagues, in order
    Morning,   \* the league of the morning job
    Fixtures,
    DayLength, \* slots of a day; the first is the morning job's
    MaxTime,   \* bound
    MaxRuns,   \* bound: the jobs launched
    Capped,    \* whether the daily cap is installed
    None

League == {Leagues[i] : i \in 1 .. Len(Leagues)}
Jobs == {"baseline", "morning"}
Files == {f \in [has : SUBSET Fixtures, corners : SUBSET Fixtures, wrong : BOOLEAN] : f.corners \subseteq f.has}
Day(t) == t \div DayLength
Blocks == {"FINAL_SCORE_CONFLICT", "CALENDAR_UNVERIFIED", "UNVERIFIED_FINAL_STATES"}

VARIABLES
    now,
    calendar, \* the fixtures the retained calendar says are finished, or None
    copy,     \* what the morning job copied of it before it took the lock
    file,     \* the published result file of each league, or None
    evidence, \* the acquisitions retained for the morning league
    attempts, \* the receipts of each day and league: None, Started or the result
    status,   \* status.json: each league's row, or None
    waiting,  \* the jobs that wait for the run lock
    job,      \* the job that holds it, or None
    reader,   \* what a forecast reader has read under the data lock, or None
    gets,     \* ghost: the GETs sent for each reservation
    missed,   \* ghost: a baseline ended without attempting every league
    runs

files == <<file, evidence, attempts, status>>
vars == <<now, calendar, copy, files, waiting, job, reader, gets, missed, runs>>

Unknown == [status |-> "unknown", at |-> None, csv |-> None, success |-> None, failure |-> None, elig |-> None]
Started == [Unknown EXCEPT !.status = "started"]
\* the rows whose times are up to t
RowBy(t) ==
    LET stamp == (0 .. t) \cup {None}
    IN  [status : {"unknown", "success", "failed", "interrupted"}, at : stamp, csv : Files \cup {None},
         success : stamp, failure : stamp, elig : Blocks \cup {"VERIFIED_FINAL_SCORES", None}]

RefreshAssumption ==
    /\ Leagues \in Seq(STRING) /\ Morning \in League
    /\ \A i, j \in 1 .. Len(Leagues) : Leagues[i] = Leagues[j] => i = j
    /\ DayLength \in Nat \ {0} /\ MaxTime \in Nat /\ Capped \in BOOLEAN
    /\ None \notin Files /\ None \notin RowBy(MaxTime) /\ None # Started /\ None \notin 0 .. MaxTime

Previous(l) == IF status = None THEN Unknown ELSE status[l]

-----------------------------------------------------------------------------
(* Rows.                                                                   *)

MutantRetainHistory(row, prior) ==
    [row EXCEPT !.success = IF row.status = "success" THEN row.at ELSE None,
                !.failure = IF row.status = "failed" THEN row.at ELSE None]
(* The last success and the last failure seen; an interrupted attempt is   *)
(* neither.                                                                *)
RetainHistory(row, prior) ==
    LET last(kind, field) == IF row.status = kind THEN row.at
                             ELSE IF prior.status = kind THEN prior.at ELSE prior[field]
    IN  [row EXCEPT !.success = last("success", "success"), !.failure = last("failed", "failure")]

MutantPreserveBlock(row, prior) == row
(* A transport or publication outcome never clears a settlement block.     *)
PreserveBlock(row, prior) == IF prior.elig \in Blocks THEN [row EXCEPT !.elig = prior.elig] ELSE row

(* The finished fixtures whose score in the file is not the calendar's, and*)
(* those without corners and such a score in it.                           *)
Conflicts(l) == IF file[l] /= None /\ file[l].wrong THEN file[l].has \cap copy ELSE {}
Missing(l) == IF file[l] = None THEN copy ELSE (copy \ file[l].corners) \cup Conflicts(l)

(* What the morning job says of a league after its file may have changed.  *)
Assessment(l) ==
    IF copy = None THEN "CALENDAR_UNVERIFIED"
    ELSE IF file[l] /= None /\ ~(file[l].has \subseteq copy) THEN "UNVERIFIED_FINAL_STATES"
    ELSE IF Conflicts(l) /= {} THEN "FINAL_SCORE_CONFLICT" ELSE "VERIFIED_FINAL_SCORES"

Assess(l, row) ==
    IF job.name = "morning" /\ l = Morning /\ job.decided /\ row.status = "success"
    THEN [row EXCEPT !.elig = Assessment(l)] ELSE row

-----------------------------------------------------------------------------
Init ==
    /\ now = 0
    /\ calendar = {} /\ copy = None
    /\ file = [l \in League |-> None]
    /\ evidence = {}
    /\ attempts = [d \in 0 .. Day(MaxTime) |-> [l \in League |-> None]]
    /\ status = None
    /\ waiting = {}
    /\ job = None /\ reader = None
    /\ gets = [d \in 0 .. Day(MaxTime) |-> [l \in League |-> 0]]
    /\ missed = FALSE /\ runs = 0

Tick ==
    /\ now < MaxTime
    /\ now' = now + 1
    /\ UNCHANGED <<calendar, copy, files, waiting, job, reader, gets, missed, runs>>

NewCalendar(c) ==
    /\ calendar /= c /\ (calendar = None \/ calendar \subseteq c)
    /\ calendar' = c
    /\ UNCHANGED <<now, copy, files, waiting, job, reader, gets, missed, runs>>

(* The copy becomes too old to be used.                                    *)
Expire ==
    /\ copy /= None
    /\ copy' = None
    /\ UNCHANGED <<now, calendar, files, waiting, job, reader, gets, missed, runs>>

MutantMayWait == FALSE
MayWait == Capped
(* The lock is waited for under the cap; the morning job needs the cap, and*)
(* copies the calendar first.                                              *)
Launch(name) ==
    /\ runs < MaxRuns /\ name \notin waiting /\ ~(job /= None /\ job.name = name)
    /\ name = "morning" => Capped /\ now % DayLength = 0
    /\ IF job = None \/ MayWait
       THEN waiting' = waiting \cup {name} /\ UNCHANGED missed
       ELSE missed' = (missed \/ (Capped /\ name = "baseline")) /\ UNCHANGED waiting
    /\ copy' = IF name = "morning" THEN calendar ELSE copy
    /\ runs' = runs + 1
    /\ UNCHANGED <<now, calendar, files, job, reader, gets>>

(* Selection happens under the lock: the morning job's slot may be over.   *)
Selection(name) ==
    IF name = "baseline" THEN League
    ELSE IF copy /= None /\ now % DayLength = 0 /\ Missing(Morning) /= {} THEN {Morning} ELSE {}

MutantPlanMissing(l) == {f \in calendar : file[l] = None \/ f \notin file[l].has \/ file[l].wrong}
PlanMissing(l) == {f \in calendar : file[l] = None \/ f \notin file[l].corners \/ file[l].wrong}
(* The read-only proposal of the morning request, from the retained        *)
(* calendar and the published file; none while a refresh writes.           *)
Plan ==
    IF job = None /\ calendar /= None /\ now % DayLength = 0 /\ PlanMissing(Morning) /= {}
    THEN {Morning} ELSE {}

MutantNoReader == TRUE
NoReader == reader = None

Acquire(name) ==
    /\ job = None /\ NoReader /\ name \in waiting
    /\ waiting' = waiting \ {name}
    /\ job' = [name |-> name, pc |-> "league", next |-> 1, selected |-> Selection(name), rows |-> <<>>, day |-> None,
               start |-> now, decided |-> name = "morning" /\ copy /= None /\ now % DayLength = 0, got |-> None]
    /\ UNCHANGED <<now, calendar, copy, files, reader, gets, missed, runs>>

Current == Leagues[job.next]
At(place) == job /= None /\ job.pc = place
AddRow(row) ==
    job' = [job EXCEPT !.rows = Append(@, row), !.next = @ + 1,
                       !.pc = IF job.next = Len(Leagues) THEN "status" ELSE "league"]

NotSelected ==
    /\ At("league") /\ Current \notin job.selected
    /\ AddRow(Assess(Current, Previous(Current)))
    /\ UNCHANGED <<now, calendar, copy, files, waiting, reader, gets, missed, runs>>

MutantConsumed(d, l) == attempts[d][l] \notin {None, Started}
(* Even an interrupted reservation consumes the day.                       *)
Consumed(d, l) == attempts[d][l] /= None

MutantConsumedRow(l) ==
    IF attempts[Day(now)][l].csv = Previous(l).csv THEN Previous(l) ELSE attempts[Day(now)][l]
(* A receipt of today that the summary does not show yet is shown; without *)
(* one the attempt was interrupted, which is no outcome.                   *)
ConsumedRow(l) ==
    LET receipt == attempts[Day(now)][l]
        prior == Previous(l)
    IN  IF receipt = Started
        THEN RetainHistory([Unknown EXCEPT !.status = "interrupted"], prior)
        ELSE IF prior.at = receipt.at /\ prior.csv = receipt.csv THEN prior ELSE receipt

CapConsumed ==
    /\ At("league") /\ Current \in job.selected /\ Capped /\ Consumed(Day(now), Current)
    /\ AddRow(Assess(Current, PreserveBlock(ConsumedRow(Current), Previous(Current))))
    /\ UNCHANGED <<now, calendar, copy, files, waiting, reader, gets, missed, runs>>

Reserve ==
    /\ At("league") /\ Current \in job.selected /\ (Capped => ~Consumed(Day(now), Current))
    /\ attempts' = IF Capped THEN [attempts EXCEPT ![Day(now)][Current] = Started] ELSE attempts
    /\ job' = [job EXCEPT !.pc = "get", !.day = Day(now)]
    /\ UNCHANGED <<now, calendar, copy, file, evidence, status, waiting, reader, gets, missed, runs>>

(* The one GET: a complete body, or an error at the transport or in it.    *)
Get(got) ==
    /\ At("get")
    /\ gets' = [gets EXCEPT ![job.day][Current] = @ + 1]
    /\ job' = [job EXCEPT !.pc = "publish", !.got = got]
    /\ UNCHANGED <<now, calendar, copy, files, waiting, reader, missed, runs>>

MutantPublishable(l, got) == got /= None /\ got.corners /= {}
(* A body without corners, or that would remove a fixture with corners, is *)
(* refused.  One that has only a score may go.                             *)
Publishable(l, got) ==
    /\ got /= None /\ got.corners /= {}
    /\ file[l] = None \/ file[l].corners \subseteq got.corners

MutantPublish ==
    /\ At("publish")
    /\ IF Publishable(Current, job.got)
       THEN /\ evidence' = IF Current = Morning THEN evidence \cup {job.got} ELSE evidence
            /\ \/ file' = [file EXCEPT ![Current] = job.got] /\ UNCHANGED job
               \/ job' = [job EXCEPT !.pc = "finish", !.got = None] /\ UNCHANGED file
       ELSE job' = [job EXCEPT !.pc = "finish", !.got = None] /\ UNCHANGED <<file, evidence>>
    /\ UNCHANGED <<now, calendar, copy, attempts, status, waiting, reader, gets, missed, runs>>
(* The old file is backed up and the new one renamed over it; either may   *)
(* fail.                                                                   *)
Publish ==
    /\ At("publish")
    /\ IF Publishable(Current, job.got)
       THEN \/ /\ file' = [file EXCEPT ![Current] = job.got]
               /\ job' = [job EXCEPT !.pc = "retain"]
            \/ job' = [job EXCEPT !.pc = "finish", !.got = None] /\ UNCHANGED file
       ELSE job' = [job EXCEPT !.pc = "finish", !.got = None] /\ UNCHANGED file
    /\ UNCHANGED <<now, calendar, copy, evidence, attempts, status, waiting, reader, gets, missed, runs>>

(* Evidence that cannot be retained rolls nothing back.                    *)
Retain ==
    /\ At("retain")
    /\ evidence' \in {evidence, IF Current = Morning THEN evidence \cup {job.got} ELSE evidence}
    /\ job' = [job EXCEPT !.pc = "finish"]
    /\ UNCHANGED <<now, calendar, copy, file, attempts, status, waiting, reader, gets, missed, runs>>

Outcome(l) ==
    LET row == [Unknown EXCEPT !.status = IF job.got = None THEN "failed" ELSE "success",
                               !.at = now, !.csv = job.got]
    IN  RetainHistory(Assess(l, PreserveBlock(row, Previous(l))), Previous(l))

Finish ==
    /\ At("finish")
    /\ attempts' = IF Capped THEN [attempts EXCEPT ![job.day][Current] = Outcome(Current)] ELSE attempts
    /\ AddRow(Outcome(Current))
    /\ UNCHANGED <<now, calendar, copy, file, evidence, status, waiting, reader, gets, missed, runs>>

WriteStatus ==
    /\ At("status")
    /\ status' = [l \in League |-> job.rows[CHOOSE i \in 1 .. Len(Leagues) : Leagues[i] = l]]
    /\ missed' = (missed \/ (Capped /\ job.name = "baseline" /\
                  \E l \in League : \A d \in Day(job.start) .. Day(now) : attempts[d][l] = None))
    /\ job' = None
    /\ UNCHANGED <<now, calendar, copy, file, evidence, attempts, waiting, reader, gets, runs>>

Crash ==
    /\ job /= None
    /\ job' = None
    /\ UNCHANGED <<now, calendar, copy, files, waiting, reader, gets, missed, runs>>

(* A forecast reader keeps the shared lock until its source hashes are     *)
(* saved.                                                                  *)
Read ==
    /\ job = None /\ reader = None
    /\ reader' = file
    /\ UNCHANGED <<now, calendar, copy, files, waiting, job, gets, missed, runs>>

EndRead ==
    /\ reader /= None
    /\ reader' = None
    /\ UNCHANGED <<now, calendar, copy, files, waiting, job, gets, missed, runs>>

Next ==
    \/ Tick \/ Expire
    \/ \E c \in SUBSET Fixtures : NewCalendar(c)
    \/ \E name \in Jobs : Launch(name) \/ Acquire(name)
    \/ NotSelected \/ CapConsumed \/ Reserve
    \/ (At("get") /\ \E got \in Files \cup {None} : Get(got))
    \/ Publish \/ Retain \/ Finish \/ WriteStatus \/ Crash \/ Read \/ EndRead

Spec == Init /\ [][Next]_vars

-----------------------------------------------------------------------------
TypeOK ==
    /\ now \in 0 .. MaxTime
    /\ \A l \in League : file[l] \in Files \cup {None}
    /\ evidence \subseteq Files
    /\ waiting \subseteq Jobs
    /\ status = None \/ \A l \in League : status[l].status \in {"unknown", "success", "failed", "interrupted"}

(* Under the cap a league is asked for at most once a day, whichever job   *)
(* comes first, waits, overlaps or stops halfway.                          *)
OneGetPerDay == Capped => \A d \in 0 .. Day(MaxTime), l \in League : gets[d][l] <= 1

(* No refresh loses a fixture that a file has corners of.                  *)
NoFixtureLost == \A l \in League : file[l] /= None => file[l].corners \subseteq file'[l].corners

(* A baseline that overlaps the morning job still attempts every league    *)
(* unless it is stopped.                                                   *)
BaselineCoversAll == ~missed

(* The history in the summary only moves forward: no interrupted, skipped, *)
(* failed or overlapping run makes the last success or failure older.      *)
HistoryAdvances ==
    status /= None =>
        \A l \in League, f \in {"success", "failure"} :
            LET known(row) == IF row.status = (IF f = "success" THEN "success" ELSE "failed") THEN row.at ELSE row[f]
            IN  known(status[l]) /= None => (known(status'[l]) /= None /\ known(status[l]) <= known(status'[l]))

(* Only an assessment by the morning job lifts a settlement block, however *)
(* many refreshes come between.                                            *)
BlockNeedsAssessment ==
    status /= None /\ status' /= status =>
     \A l \in League : status[l].elig \in Blocks /\ status'[l].elig \notin Blocks => job.name = "morning" /\ job.decided

(* What a forecast reader read is what is published until it has saved its *)
(* hashes.                                                                 *)
ReadersSeeOneFile == reader /= None => reader = file

(* The proposal and the job, which read the same evidence by different     *)
(* code, ask for the same leagues.                                         *)
PlanIsSelected == job = None /\ copy = calendar => Selection("morning") = Plan

(* Retained evidence is of a file that was published, never of a refused or*)
(* failed one: the file has every fixture that it shows corners of.        *)
EvidenceWasPublished == \A e \in evidence : file[Morning] /= None /\ e.corners \subseteq file[Morning].corners

-----------------------------------------------------------------------------
(* Proved for any leagues, fixtures, jobs, crashes and bodies: one GET per *)
(* league and day, no corners lost, evidence and readers true to the file, *)
(* every league covered by a baseline, blocks that only the morning job    *)
(* lifts, and a history that only moves forward.                           *)

Slots == 0 .. Day(MaxTime)
Job == [name : Jobs, pc : {"league", "get", "publish", "retain", "finish", "status"}, next : Nat,
        selected : SUBSET League, rows : Seq(RowBy(now)), day : Slots \cup {None}, start : 0 .. now,
        decided : BOOLEAN, got : Files \cup {None}]

RefreshTyped ==
    /\ now \in 0 .. MaxTime
    /\ file \in [League -> Files \cup {None}] /\ evidence \subseteq Files
    /\ attempts \in [Slots -> [League -> RowBy(now) \cup {None, Started}]]
    /\ gets \in [Slots -> [League -> Nat]]
    /\ status = None \/ status \in [League -> RowBy(now)]
    /\ job = None \/ job \in Job

Busy == job # None
\* a league's attempt is on its way
Trying == Busy /\ job.pc \in {"get", "publish", "retain", "finish"}

\* One row for each league before the next.
Placed ==
    Busy => /\ Len(job.rows) + 1 = job.next /\ job.next \in 1 .. Len(Leagues) + 1
            /\ job.pc = "status" <=> job.next = Len(Leagues) + 1
            /\ Trying => job.day \in Slots /\ Day(job.start) <= job.day /\ job.day <= Day(now)
            /\ job.pc = "retain" => job.got \in Files /\ file[Current] = job.got

\* A reservation precedes its one GET, and days to come have none.
Reserved ==
    /\ \A d \in Slots, l \in League : Day(now) < d => attempts[d][l] = None
    /\ Capped => \A d \in Slots, l \in League : gets[d][l] <= 1 /\ (attempts[d][l] = None => gets[d][l] = 0)
    /\ Capped /\ Trying => attempts[job.day][Current] # None
    /\ Capped /\ At("get") => gets[job.day][Current] = 0
    /\ Trying => \A d \in Slots : job.day < d => attempts[d][Current] = None
    /\ ~Capped => \A d \in Slots, l \in League : attempts[d][l] = None

\* A baseline has an attempt of its time behind each row.
Covered ==
    /\ ~missed
    /\ Capped /\ Busy /\ job.name = "baseline" =>
          /\ job.selected = League
          /\ \A i \in 1 .. Len(job.rows) :
                \E d \in Day(job.start) .. Day(now) : attempts[d][Leagues[i]] # None

\* Row q of a league says no less of its past than row r.
Last(row, f) == IF row.status = (IF f = "success" THEN "success" ELSE "failed") THEN row.at ELSE row[f]
Continues(q, r) ==
    \A f \in {"success", "failure"} : Last(r, f) # None => Last(q, f) # None /\ Last(r, f) <= Last(q, f)
Receipt(d, l) == attempts[d][l] \notin {None, Started}

\* Rows continue the summary, and a receipt of today continues both.
Forward ==
    /\ \A l \in League : Receipt(Day(now), l) => Continues(attempts[Day(now)][l], Previous(l))
    /\ Busy => \A i \in 1 .. Len(job.rows) :
          /\ Continues(job.rows[i], Previous(Leagues[i]))
          /\ Receipt(Day(now), Leagues[i]) => Continues(attempts[Day(now)][Leagues[i]], job.rows[i])

\* Rows keep the blocks unless the morning job assesses.
Blocked ==
    Busy => \A i \in 1 .. Len(job.rows) :
        Previous(Leagues[i]).elig \in Blocks /\ job.rows[i].elig \notin Blocks => job.name = "morning" /\ job.decided

ReadersWait == reader # None => job = None /\ reader = file

RefreshInv ==
    /\ RefreshTyped /\ Placed /\ Reserved /\ Covered /\ Forward /\ Blocked /\ ReadersWait
    /\ EvidenceWasPublished

-----------------------------------------------------------------------------
(* Days and rows                                                            *)

LEMMA DaysFollow ==
    ASSUME RefreshAssumption, NEW s \in Nat, NEW t \in Nat
    PROVE  Day(s) \in Nat /\ (s <= t => Day(s) <= Day(t))
<1> DEFINE D == DayLength
<1>1. D \in Nat \ {0}
  BY DEF RefreshAssumption
<1>2. /\ s = D * (s \div D) + (s % D) /\ s \div D \in Nat /\ s % D \in 0 .. D - 1
      /\ t = D * (t \div D) + (t % D) /\ t \div D \in Nat /\ t % D \in 0 .. D - 1
  BY <1>1
<1>3. ASSUME s <= t, t \div D < s \div D PROVE FALSE
  <2>1. PICK x \in Nat : s \div D = (t \div D) + 1 + x
    <3>1. s \div D - (t \div D) - 1 \in Nat
      BY <1>2, <1>3
    <3>. QED BY <1>2, <3>1
  <2>2. D * ((t \div D) + 1 + x) = D * (t \div D) + D + D * x /\ D * x \in Nat /\ D * (t \div D) \in Nat
    BY <1>1, <1>2
  <2>. QED BY <1>1, <1>2, <1>3, <2>1, <2>2
<1>. QED BY <1>2, <1>3 DEF Day

LEMMA Today ==
    ASSUME RefreshAssumption, RefreshTyped
    PROVE  Day(now) \in Slots /\ Day(now) \in Nat /\ now \in Nat /\ Slots \subseteq Nat /\ MaxTime \in Nat
<1>1. MaxTime \in Nat /\ now \in Nat /\ now <= MaxTime
  BY DEF RefreshAssumption, RefreshTyped
<1>2. Day(now) \in Nat /\ Day(MaxTime) \in Nat /\ Day(now) <= Day(MaxTime)
  BY <1>1, DaysFollow
<1>. QED BY <1>1, <1>2 DEF Slots

\* None is no row, no time and no file; Started is no row.
LEMMA Distinct ==
    ASSUME RefreshAssumption, NEW t \in 0 .. MaxTime
    PROVE  /\ None \notin Files /\ None \notin 0 .. MaxTime /\ None # t /\ None # Started
           /\ RowBy(t) \subseteq RowBy(MaxTime) /\ None \notin RowBy(t) /\ Started \notin RowBy(t)
           /\ Unknown \in RowBy(t)
<1>1. RowBy(t) \subseteq RowBy(MaxTime)
  BY DEF RefreshAssumption, RowBy
<1>2. Started \notin RowBy(t)
  BY DEF Started, Unknown, RowBy
<1>3. Unknown \in RowBy(t)
  BY DEF Unknown, RowBy
<1>. QED BY <1>1, <1>2, <1>3 DEF RefreshAssumption

LEMMA LeaguesFacts ==
    ASSUME RefreshAssumption
    PROVE  /\ Len(Leagues) \in Nat \ {0} /\ \A i \in 1 .. Len(Leagues) : Leagues[i] \in League
           /\ \A i, j \in 1 .. Len(Leagues) : Leagues[i] = Leagues[j] => i = j
<1>1. Leagues \in Seq(STRING) /\ Morning \in League /\ League = {Leagues[i] : i \in 1 .. Len(Leagues)}
  BY DEF RefreshAssumption, League
<1>2. Len(Leagues) \in Nat /\ 1 .. Len(Leagues) # {}
  BY <1>1
<1>. QED BY <1>1, <1>2 DEF RefreshAssumption

LEMMA PreviousIsRow ==
    ASSUME RefreshAssumption, RefreshTyped, NEW l \in League
    PROVE  Previous(l) \in RowBy(now)
<1>1. now \in 0 .. MaxTime
  BY DEF RefreshTyped
<1>. QED BY <1>1, Distinct DEF Previous, RefreshTyped

\* An assessment says nothing of the past.
LEMMA Assessed ==
    ASSUME RefreshAssumption, NEW l, NEW t \in 0 .. MaxTime, NEW row \in RowBy(t)
    PROVE  /\ Assess(l, row) \in RowBy(t)
           /\ Continues(Assess(l, row), row)
           /\ \A f \in {"success", "failure"} : Last(Assess(l, row), f) = Last(row, f)
           /\ Assess(l, row).elig = row.elig \/ (job.name = "morning" /\ job.decided)
<1>1. PICK e \in Blocks \cup {"VERIFIED_FINAL_SCORES", row.elig} : Assess(l, row) = [row EXCEPT !.elig = e]
  <2>1. CASE job.name = "morning" /\ l = Morning /\ job.decided /\ row.status = "success"
    <3>1. Assess(l, row) = [row EXCEPT !.elig = Assessment(l)]
      BY <2>1 DEF Assess
    <3>2. Assessment(l) \in Blocks \cup {"VERIFIED_FINAL_SCORES"}
      BY DEF Assessment, Blocks
    <3>. QED BY <3>1, <3>2
  <2>2. CASE ~(job.name = "morning" /\ l = Morning /\ job.decided /\ row.status = "success")
    <3>1. Assess(l, row) = row
      BY <2>2 DEF Assess
    <3>2. row = [row EXCEPT !.elig = row.elig]
      BY DEF RowBy
    <3>. QED BY <3>1, <3>2
  <2>. QED BY <2>1, <2>2
<1>2. Assess(l, row) \in RowBy(t)
  BY <1>1 DEF RowBy
<1>3. \A f \in {"success", "failure"} : Last(Assess(l, row), f) = Last(row, f)
  BY <1>1 DEF RowBy, Last
<1>4. \A f \in {"success", "failure"} : Last(row, f) \in (0 .. t) \cup {None}
  BY DEF RowBy, Last
<1>5. Continues(Assess(l, row), row)
  <2>1. \A f \in {"success", "failure"} : Last(row, f) # None => Last(row, f) <= Last(row, f)
    BY <1>4
  <2>. QED BY <1>3, <2>1 DEF Continues
<1>6. Assess(l, row).elig = row.elig \/ (job.name = "morning" /\ job.decided)
  BY DEF Assess
<1>. QED BY <1>2, <1>3, <1>5, <1>6

\* A row continues itself; what has the same past continues the same rows.
LEMMA ContinuesSame ==
    ASSUME NEW t \in Nat, NEW row \in RowBy(t), NEW q, \A f \in {"success", "failure"} : Last(q, f) = Last(row, f)
    PROVE  Continues(q, row) /\ Continues(row, q)
<1>1. \A f \in {"success", "failure"} : Last(row, f) \in (0 .. t) \cup {None}
  BY DEF RowBy, Last
<1>2. \A f \in {"success", "failure"} : Last(row, f) # None => Last(row, f) <= Last(row, f)
  BY <1>1
<1>. QED BY <1>2 DEF Continues

\* A block of the row before stays, and nothing else of the row changes.
LEMMA BlockKept ==
    ASSUME NEW t \in Nat, NEW row \in RowBy(t), NEW prior \in RowBy(t)
    PROVE  /\ PreserveBlock(row, prior) \in RowBy(t)
           /\ PreserveBlock(row, prior).status = row.status /\ PreserveBlock(row, prior).at = row.at
           /\ \A f \in {"success", "failure"} : Last(PreserveBlock(row, prior), f) = Last(row, f)
           /\ prior.elig \in Blocks => PreserveBlock(row, prior).elig = prior.elig
<1>1. CASE prior.elig \in Blocks
  <2>1. PreserveBlock(row, prior) = [row EXCEPT !.elig = prior.elig]
    BY <1>1 DEF PreserveBlock
  <2>. QED BY <2>1 DEF RowBy, Last
<1>2. CASE prior.elig \notin Blocks
  <2>1. PreserveBlock(row, prior) = row
    BY <1>2 DEF PreserveBlock
  <2>. QED BY <1>2, <2>1
<1>. QED BY <1>1, <1>2

\* A row with the history of the one before retained continues it.
LEMMA HistoryRetained ==
    ASSUME RefreshAssumption, NEW t \in 0 .. MaxTime, NEW row \in RowBy(t), NEW prior \in RowBy(t),
           row.status \in {"success", "failed"} => row.at = t
    PROVE  /\ RetainHistory(row, prior) \in RowBy(t)
           /\ Continues(RetainHistory(row, prior), prior)
           /\ RetainHistory(row, prior).elig = row.elig
<1>1. PICK s, f : /\ s = IF row.status = "success" THEN row.at ELSE Last(prior, "success")
                  /\ f = IF row.status = "failed" THEN row.at ELSE Last(prior, "failure")
  OBVIOUS
<1>2. \A x \in {"success", "failure"} : Last(prior, x) \in (0 .. t) \cup {None}
  BY DEF RowBy, Last
<1>3. RetainHistory(row, prior) = [row EXCEPT !.success = s, !.failure = f]
  BY <1>1 DEF RetainHistory, Last
<1>4. s \in (0 .. t) \cup {None} /\ f \in (0 .. t) \cup {None}
  BY <1>1, <1>2 DEF RowBy
<1>5. RetainHistory(row, prior) \in RowBy(t) /\ RetainHistory(row, prior).elig = row.elig
  BY <1>3, <1>4 DEF RowBy
<1>6. Last(RetainHistory(row, prior), "success") = s /\ Last(RetainHistory(row, prior), "failure") = f
  BY <1>1, <1>3 DEF RowBy, Last
<1>7. t \in Nat /\ None # t /\ \A x \in {"success", "failure"} : Last(prior, x) # None =>
         Last(prior, x) <= t /\ Last(prior, x) <= Last(prior, x)
  BY <1>2, Distinct DEF RefreshAssumption
<1>8. Last(prior, "success") # None => s # None /\ Last(prior, "success") <= s
  BY <1>1, <1>7
<1>9. Last(prior, "failure") # None => f # None /\ Last(prior, "failure") <= f
  BY <1>1, <1>7
<1>. QED BY <1>5, <1>6, <1>8, <1>9 DEF Continues

-----------------------------------------------------------------------------
(* What the next state of a job is.                                         *)

\* A step of a job that changes only the attempt it is at.
Steady == UNCHANGED <<now, status, reader, missed>> /\ job' \in Job /\
          job'.rows = job.rows /\ job'.next = job.next /\ job'.name = job.name /\ job'.decided = job.decided /\
          job'.selected = job.selected /\ job'.start = job.start

LEMMA HeldBy ==
    ASSUME RefreshAssumption, RefreshInv, Busy, job.pc # "status"
    PROVE  /\ job \in Job /\ reader = None /\ job.next \in 1 .. Len(Leagues) /\ Current \in League
           /\ Len(job.rows) = job.next - 1 /\ job.rows \in Seq(RowBy(now))
           /\ \A i \in 1 .. Len(job.rows) : i \in 1 .. Len(Leagues) /\ Leagues[i] \in League /\ Leagues[i] # Current
<1>1. job \in Job /\ reader = None
  BY DEF RefreshInv, RefreshTyped, Busy, ReadersWait
<1>2. Len(job.rows) + 1 = job.next /\ job.next \in 1 .. Len(Leagues) + 1 /\ job.next # Len(Leagues) + 1
  BY DEF RefreshInv, Placed
<1>3. Len(Leagues) \in Nat \ {0} /\ job.next \in Nat /\ job.rows \in Seq(RowBy(now)) /\ Len(job.rows) \in Nat
  BY <1>1, LeaguesFacts DEF Job
<1>4. job.next \in 1 .. Len(Leagues) /\ Len(job.rows) = job.next - 1
  BY <1>2, <1>3
<1>5. \A i \in 1 .. Len(job.rows) : i \in 1 .. Len(Leagues) /\ i # job.next
  BY <1>3, <1>4
<1>. QED BY <1>1, <1>3, <1>4, <1>5, LeaguesFacts DEF Current

\* The row of a league is added to the others.
LEMMA RowAdded ==
    ASSUME RefreshAssumption, RefreshInv, Busy, job.pc # "status", NEW row \in RowBy(now), AddRow(row), now' = now
    PROVE  /\ job' \in Job /\ job'.pc \in {"league", "status"} /\ job'.next = job.next + 1
           /\ job'.next \in 1 .. Len(Leagues) + 1
           /\ job'.pc = "status" <=> job'.next = Len(Leagues) + 1
           /\ Len(job'.rows) + 1 = job'.next /\ Len(job'.rows) = Len(job.rows) + 1
           /\ \A i \in 1 .. Len(job'.rows) : \/ i \in 1 .. Len(job.rows) /\ job'.rows[i] = job.rows[i]
                                             \/ Leagues[i] = Current /\ job'.rows[i] = row
           /\ job'.name = job.name /\ job'.decided = job.decided /\ job'.start = job.start
           /\ job'.selected = job.selected
<1>1. /\ job \in Job /\ job.next \in 1 .. Len(Leagues) /\ Len(job.rows) = job.next - 1 /\ job.rows \in Seq(RowBy(now))
      /\ Len(Leagues) \in Nat
  BY HeldBy, LeaguesFacts
<1>2. PICK pc \in {"league", "status"} :
        /\ job' = [job EXCEPT !.rows = Append(job.rows, row), !.next = job.next + 1, !.pc = pc]
        /\ pc = "status" <=> job.next = Len(Leagues)
  BY DEF AddRow
<1>3. /\ Append(job.rows, row) \in Seq(RowBy(now)) /\ Len(Append(job.rows, row)) = Len(job.rows) + 1
      /\ \A i \in 1 .. Len(job.rows) : Append(job.rows, row)[i] = job.rows[i]
      /\ Append(job.rows, row)[Len(job.rows) + 1] = row
  BY <1>1
<1>4. /\ job'.rows = Append(job.rows, row) /\ job'.next = job.next + 1 /\ job'.pc = pc
      /\ job'.name = job.name /\ job'.decided = job.decided /\ job'.start = job.start
      /\ job'.selected = job.selected /\ job'.day = job.day /\ job'.got = job.got
      /\ job' \in Job
  <2>1. PICK rows \in Seq(RowBy(now)), next \in Nat : rows = Append(job.rows, row) /\ next = job.next + 1
    <3>1. job.next + 1 \in Nat
      BY <1>1
    <3>. QED BY <1>3, <3>1, Zenon
  <2>2. job' = [job EXCEPT !.rows = rows, !.next = next, !.pc = pc]
    BY <1>2, <2>1
  <2>. QED BY <1>1, <1>2, <2>1, <2>2 DEF Job
<1>5. job' \in Job
  BY <1>4
<1>6. job'.next \in 1 .. Len(Leagues) + 1 /\ (job'.pc = "status" <=> job'.next = Len(Leagues) + 1)
  BY <1>1, <1>2, <1>4
<1>7. Len(job'.rows) + 1 = job'.next /\ Len(job'.rows) = Len(job.rows) + 1
  BY <1>1, <1>3, <1>4
<1>8. ASSUME NEW i \in 1 .. Len(job'.rows)
      PROVE  \/ i \in 1 .. Len(job.rows) /\ job'.rows[i] = job.rows[i]
             \/ Leagues[i] = Current /\ job'.rows[i] = row
  <2>1. i \in 1 .. Len(job.rows) \/ i = Len(job.rows) + 1
    BY <1>1, <1>7
  <2>2. Leagues[Len(job.rows) + 1] = Current
    BY <1>1 DEF Current
  <2>. QED BY <1>3, <1>4, <2>1, <2>2
<1>. QED BY <1>2, <1>4, <1>5, <1>6, <1>7, <1>8

-----------------------------------------------------------------------------
(* Every step keeps the invariant                                           *)

\* Steps that touch nothing the invariant is about.
LEMMA SameKeeps ==
    ASSUME RefreshInv, UNCHANGED <<now, file, evidence, attempts, status, job, gets>>, ~missed',
           reader' # None => job = None /\ reader' = file
    PROVE  RefreshInv'
<1>1. RefreshTyped'
  BY DEF RefreshInv, RefreshTyped, Job, RowBy
<1>2. Placed'
  BY DEF RefreshInv, Placed, Busy, Trying, Current
<1>3. Reserved'
  BY DEF RefreshInv, Reserved, Busy, Trying, At, Current
<1>4. Covered'
  BY DEF RefreshInv, Covered, Busy
<1>5. Forward'
  BY DEF RefreshInv, Forward, Busy, Previous, Receipt, Continues, Last
<1>6. Blocked'
  BY DEF RefreshInv, Blocked, Busy, Previous
<1>7. ReadersWait' /\ EvidenceWasPublished'
  BY DEF RefreshInv, ReadersWait, EvidenceWasPublished
<1>. QED BY <1>1, <1>2, <1>3, <1>4, <1>5, <1>6, <1>7 DEF RefreshInv

\* A row is added behind which there is an attempt when a baseline needs one, which
\* continues the summary, and which a receipt of today continues.
LEMMA RowKeeps ==
    ASSUME RefreshAssumption, RefreshInv, Busy, job.pc # "status", NEW row \in RowBy(now), AddRow(row),
           UNCHANGED <<now, file, evidence, status, reader, gets, missed>>,
           attempts' \in [Slots -> [League -> RowBy(now) \cup {None, Started}]],
           \A d \in Slots, l \in League : /\ l # Current => attempts'[d][l] = attempts[d][l]
                                          /\ attempts'[d][l] = None <=> attempts[d][l] = None,
           Continues(row, Previous(Current)),
           attempts'[Day(now)][Current] \notin {None, Started} =>
               /\ Continues(attempts'[Day(now)][Current], Previous(Current))
               /\ Continues(attempts'[Day(now)][Current], row),
           Previous(Current).elig \in Blocks /\ row.elig \notin Blocks => job.name = "morning" /\ job.decided,
           Capped /\ job.name = "baseline" => \E d \in Day(job.start) .. Day(now) : attempts[d][Current] # None
    PROVE  RefreshInv'
<1>1. /\ job' \in Job /\ job'.pc \in {"league", "status"}
      /\ job'.next \in 1 .. Len(Leagues) + 1
      /\ job'.pc = "status" <=> job'.next = Len(Leagues) + 1
      /\ Len(job'.rows) + 1 = job'.next
      /\ \A i \in 1 .. Len(job'.rows) : \/ i \in 1 .. Len(job.rows) /\ job'.rows[i] = job.rows[i]
                                        \/ Leagues[i] = Current /\ job'.rows[i] = row
      /\ job'.name = job.name /\ job'.decided = job.decided /\ job'.start = job.start
      /\ job'.selected = job.selected
  BY RowAdded
<1>2. /\ job \in Job /\ reader = None /\ Current \in League
      /\ \A i \in 1 .. Len(job.rows) : Leagues[i] \in League /\ Leagues[i] # Current
  BY HeldBy
<1>3. ~Trying' /\ ~At("get")'
  BY <1>1 DEF Trying, At
<1>4. Day(now) \in Slots
  BY Today DEF RefreshInv
<1>5. \A l \in League : Previous(l)' = Previous(l)
  BY DEF Previous
<1>6. Day(now)' = Day(now)
  BY DEF Day
<1>7. RefreshTyped'
  BY <1>1 DEF RefreshInv, RefreshTyped, Job, RowBy
<1>8. Placed'
  BY <1>1, <1>3 DEF Placed
<1>9. Reserved'
  <2>1. \A d \in Slots, l \in League : Day(now) < d => attempts'[d][l] = None
    BY DEF RefreshInv, Reserved
  <2>2. Capped => \A d \in Slots, l \in League : gets'[d][l] <= 1 /\ (attempts'[d][l] = None => gets'[d][l] = 0)
    BY DEF RefreshInv, Reserved
  <2>3. ~Capped => \A d \in Slots, l \in League : attempts'[d][l] = None
    BY DEF RefreshInv, Reserved
  <2>. QED BY <1>3, <1>6, <2>1, <2>2, <2>3 DEF Reserved
<1>10. Covered'
  <2>1. ~missed' /\ (Capped /\ job.name = "baseline" => job'.selected = League)
    BY <1>1 DEF RefreshInv, Covered
  <2>2. ASSUME Capped, job.name = "baseline", NEW i \in 1 .. Len(job'.rows)
        PROVE  \E d \in Day(job.start) .. Day(now) : attempts'[d][Leagues[i]] # None
    <3>1. Leagues[i] \in League /\ \E d \in Day(job.start) .. Day(now) : attempts[d][Leagues[i]] # None
      <4>1. CASE Leagues[i] = Current
        BY <1>2, <2>2, <4>1
      <4>2. CASE i \in 1 .. Len(job.rows)
        BY <1>2, <2>2, <4>2 DEF RefreshInv, Covered
      <4>. QED BY <1>1, <4>1, <4>2
    <3>2. Day(job.start) \in Nat /\ Day(now) \in Nat /\ Day(now) <= Day(MaxTime)
      <4>1. job.start \in Nat
        BY <1>2, Today DEF Job, RefreshInv, RefreshTyped
      <4>. QED BY SMTT(30), <1>4, <4>1, Today, DaysFollow DEF Slots, RefreshInv
    <3>3. Day(job.start) .. Day(now) \subseteq Slots
      <4>1. Day(MaxTime) \in Nat
        BY Today, DaysFollow DEF RefreshInv
      <4>. QED BY <3>2, <4>1 DEF Slots
    <3>. QED BY <3>1, <3>3
  <2>. QED BY <1>1, <1>6, <2>1, <2>2 DEF Covered, Day
<1>11. Forward'
  <2>1. ASSUME NEW l \in League, attempts'[Day(now)][l] \notin {None, Started}
        PROVE  Continues(attempts'[Day(now)][l], Previous(l))
    <3>1. CASE l = Current
      BY <2>1, <3>1
    <3>2. CASE l # Current
      BY <1>4, <2>1, <3>2 DEF RefreshInv, Forward, Receipt
    <3>. QED BY <3>1, <3>2
  <2>2. ASSUME NEW i \in 1 .. Len(job'.rows)
        PROVE  /\ Continues(job'.rows[i], Previous(Leagues[i])) /\ Leagues[i] \in League
               /\ attempts'[Day(now)][Leagues[i]] \notin {None, Started} =>
                     Continues(attempts'[Day(now)][Leagues[i]], job'.rows[i])
    <3>1. CASE i \in 1 .. Len(job.rows) /\ job'.rows[i] = job.rows[i]
      <4>1. attempts'[Day(now)][Leagues[i]] = attempts[Day(now)][Leagues[i]]
        BY <1>2, <1>4, <3>1
      <4>. QED BY <1>2, <3>1, <4>1 DEF RefreshInv, Forward, Receipt
    <3>2. CASE Leagues[i] = Current /\ job'.rows[i] = row
      BY <1>2, <3>2
    <3>. QED BY <1>1, <2>2, <3>1, <3>2
  <2>. QED BY <1>5, <1>6, <2>1, <2>2 DEF Forward, Receipt, Continues, Last
<1>12. Blocked'
  <2>1. ASSUME NEW i \in 1 .. Len(job'.rows)
        PROVE  /\ Leagues[i] \in League
               /\ Previous(Leagues[i]).elig \in Blocks /\ job'.rows[i].elig \notin Blocks =>
                    job.name = "morning" /\ job.decided
    <3>1. CASE i \in 1 .. Len(job.rows) /\ job'.rows[i] = job.rows[i]
      BY <1>2, <3>1 DEF RefreshInv, Blocked
    <3>2. CASE Leagues[i] = Current /\ job'.rows[i] = row
      BY <1>2, <3>2
    <3>. QED BY <1>1, <2>1, <3>1, <3>2
  <2>. QED BY <1>1, <1>5, <2>1 DEF Blocked
<1>13. ReadersWait' /\ EvidenceWasPublished'
  BY <1>2 DEF RefreshInv, ReadersWait, EvidenceWasPublished
<1>. QED BY <1>7, <1>8, <1>9, <1>10, <1>11, <1>12, <1>13 DEF RefreshInv

LEMMA InitRefresh == ASSUME RefreshAssumption, Init PROVE RefreshInv
<1>1. /\ now = 0 /\ ~Busy /\ reader = None /\ evidence = {} /\ ~missed /\ status = None
      /\ file = [l \in League |-> None] /\ attempts = [d \in Slots |-> [l \in League |-> None]]
      /\ gets = [d \in Slots |-> [l \in League |-> 0]]
  BY DEF Init, Busy, Slots
<1>2. now \in 0 .. MaxTime
  BY <1>1 DEF RefreshAssumption
<1>3. RefreshTyped
  BY <1>1, <1>2 DEF RefreshTyped, Busy
<1>4. Placed /\ Covered /\ Blocked /\ ReadersWait /\ EvidenceWasPublished
  BY <1>1 DEF Placed, Covered, Blocked, ReadersWait, EvidenceWasPublished
<1>5. Reserved
  BY <1>1 DEF Reserved, Trying, At, Busy
<1>6. Forward
  BY <1>1, <1>2, <1>3, Today DEF Forward, Receipt
<1>. QED BY <1>3, <1>4, <1>5, <1>6 DEF RefreshInv

\* A later day has no receipt yet.
LEMMA TickKeeps == ASSUME RefreshAssumption, RefreshInv, Tick PROVE RefreshInv'
<1>1. /\ now < MaxTime /\ now' = now + 1
      /\ UNCHANGED <<file, evidence, attempts, status, job, reader, gets, missed>>
  BY DEF Tick, files
<1>2. now \in Nat /\ now' \in 0 .. MaxTime /\ Day(now) \in Slots /\ Slots \subseteq Nat /\ Day(now) \in Nat
      /\ 0 .. now \subseteq 0 .. now'
  BY <1>1, Today DEF RefreshInv
<1>3. Day(now') \in Nat /\ Day(now) <= Day(now')
  BY <1>1, <1>2, DaysFollow
<1>4. RowBy(now) \subseteq RowBy(now')
  BY <1>2 DEF RowBy
<1>5. RefreshTyped'
  <2>1. attempts' \in [Slots -> [League -> RowBy(now') \cup {None, Started}]]
    BY <1>1, <1>4 DEF RefreshInv, RefreshTyped
  <2>2. status = None \/ status \in [League -> RowBy(now')]
    BY <1>4 DEF RefreshInv, RefreshTyped
  <2>3. job \in Job => job \in Job'
    <3>1. job \in Job => job.rows \in Seq(RowBy(now'))
      BY <1>4 DEF Job
    <3>. QED BY <1>1, <1>2, <3>1 DEF Job, RowBy
  <2>4. job = None \/ job' \in Job'
    BY <1>1, <2>3 DEF RefreshInv, RefreshTyped
  <2>. QED BY <1>1, <1>2, <2>1, <2>2, <2>4 DEF RefreshInv, RefreshTyped, RowBy
<1>6. Placed'
  <2>1. Trying => Day(job.start) <= job.day /\ job.day <= Day(now') /\ job.day \in Slots
    <3>1. Trying => Day(job.start) <= job.day /\ job.day <= Day(now) /\ job.day \in Slots
      BY DEF RefreshInv, Placed, Trying
    <3>2. Trying => job.day \in Nat
      BY <3>1 DEF Slots
    <3>. QED BY <1>2, <1>3, <3>1, <3>2
  <2>. QED BY <1>1, <2>1 DEF RefreshInv, Placed, Busy, Trying, Current, Day
<1>7. Reserved'
  <2>1. \A d \in Slots, l \in League : Day(now') < d => attempts[d][l] = None
    BY <1>2, <1>3 DEF RefreshInv, Reserved
  <2>. QED BY <1>1, <2>1 DEF RefreshInv, Reserved, Busy, Trying, At, Current, Day
<1>8. Covered'
  <2>1. ASSUME Busy, NEW d \in Day(job.start) .. Day(now)
        PROVE  d \in Day(job.start) .. Day(now')
    BY <1>2, <1>3, <2>1
  <2>. QED BY <1>1, <2>1 DEF RefreshInv, Covered, Busy, Day
<1>9. Forward'
  <2>1. CASE Day(now') = Day(now)
    <3>1. Day(now)' = Day(now)
      BY <2>1 DEF Day
    <3>. QED BY <1>1, <3>1 DEF RefreshInv, Forward, Busy, Previous, Receipt, Continues, Last
  <2>2. CASE Day(now') # Day(now)
    <3>1. \A l \in League : ~Receipt(Day(now), l)'
      <4>1. Day(now') \in Slots
        <5>1. MaxTime \in Nat /\ now' \in Nat /\ now' <= MaxTime
          BY <1>2 DEF RefreshAssumption
        <5>2. Day(now') <= Day(MaxTime) /\ Day(MaxTime) \in Nat
          BY <5>1, DaysFollow
        <5>. QED BY <1>3, <5>2 DEF Slots
      <4>2. Day(now) < Day(now')
        BY <1>2, <1>3, <2>2
      <4>3. \A l \in League : attempts[Day(now')][l] = None
        BY <4>1, <4>2 DEF RefreshInv, Reserved
      <4>. QED BY <1>1, <4>3 DEF Receipt, Day
    <3>2. ASSUME Busy, NEW i \in 1 .. Len(job.rows)
          PROVE  Leagues[i] \in League /\ Continues(job.rows[i], Previous(Leagues[i]))
      <4>1. Len(job.rows) \in Nat /\ Len(job.rows) + 1 \in 1 .. Len(Leagues) + 1 /\ Len(Leagues) \in Nat
        BY <3>2, LeaguesFacts DEF RefreshInv, RefreshTyped, Placed, Busy, Job
      <4>2. i \in 1 .. Len(Leagues)
        BY <4>1
      <4>. QED BY <3>2, <4>2, LeaguesFacts DEF RefreshInv, Forward
    <3>. QED BY <1>1, <3>1, <3>2 DEF Forward, Busy, Previous, Continues, Last
  <2>. QED BY <2>1, <2>2
<1>10. Blocked' /\ ReadersWait' /\ EvidenceWasPublished'
  BY <1>1 DEF RefreshInv, Blocked, Busy, Previous, ReadersWait, EvidenceWasPublished
<1>. QED BY <1>5, <1>6, <1>7, <1>8, <1>9, <1>10 DEF RefreshInv

\* A new job has no rows yet.
LEMMA AcquireKeeps ==
    ASSUME RefreshAssumption, RefreshInv, NEW name \in Jobs, Acquire(name)
    PROVE  RefreshInv'
<1>1. reader = None /\ UNCHANGED <<now, file, evidence, attempts, status, reader, gets, missed>>
  BY DEF Acquire, files, NoReader
<1>2. /\ job'.name = name /\ job'.pc = "league" /\ job'.next = 1 /\ job'.selected = Selection(name)
      /\ job'.rows = <<>> /\ job'.start = now
  BY DEF Acquire
<1>3. Selection(name) \subseteq League /\ (name = "baseline" => Selection(name) = League)
  BY DEF Selection, RefreshAssumption
<1>4. job' \in Job
  <2>1. now \in 0 .. now
    BY Today DEF RefreshInv
  <2>2. PICK decided \in BOOLEAN, selected \in SUBSET League, rows \in Seq(RowBy(now)) :
          job' = [name |-> name, pc |-> "league", next |-> 1, selected |-> selected, rows |-> rows, day |-> None,
                  start |-> now, decided |-> decided, got |-> None]
    <3>1. (name = "morning" /\ copy /= None /\ now % DayLength = 0) \in BOOLEAN /\ <<>> \in Seq(RowBy(now))
      OBVIOUS
    <3>. QED BY <1>3, <3>1, Zenon DEF Acquire
  <2>. QED BY <2>1, <2>2 DEF Job
<1>5. Len(job'.rows) = 0 /\ 1 .. Len(job'.rows) = {}
  BY <1>2
<1>6. ~Trying' /\ ~At("get")'
  BY <1>2 DEF Trying, At
<1>7. RefreshTyped'
  BY <1>1, <1>4 DEF RefreshInv, RefreshTyped, Job, RowBy
<1>8. Placed'
  BY <1>2, <1>5, <1>6, LeaguesFacts DEF Placed
<1>9. Reserved'
  BY <1>1, <1>6 DEF RefreshInv, Reserved, Day
<1>10. Covered'
  BY <1>1, <1>2, <1>3, <1>5 DEF RefreshInv, Covered
<1>11. Forward'
  BY <1>1, <1>5 DEF RefreshInv, Forward, Previous, Receipt, Continues, Last, Day
<1>12. Blocked' /\ ReadersWait' /\ EvidenceWasPublished'
  BY <1>1, <1>5 DEF RefreshInv, Blocked, ReadersWait, EvidenceWasPublished
<1>. QED BY <1>7, <1>8, <1>9, <1>10, <1>11, <1>12 DEF RefreshInv

LEMMA CrashKeeps == ASSUME RefreshAssumption, RefreshInv, Crash PROVE RefreshInv'
<1>1. ~Busy' /\ job' = None /\ job # None /\ UNCHANGED <<now, file, evidence, attempts, status, reader, gets, missed>>
  BY DEF Crash, files, Busy
<1>2. RefreshTyped'
  BY <1>1 DEF RefreshInv, RefreshTyped, RowBy
<1>3. Placed' /\ Covered' /\ Blocked'
  BY <1>1 DEF RefreshInv, Placed, Covered, Blocked
<1>4. Reserved'
  BY <1>1 DEF RefreshInv, Reserved, Trying, At, Busy, Day
<1>5. Forward'
  BY ZenonT(60), <1>1 DEF RefreshInv, Forward, Previous, Receipt, Continues, Last, Day
<1>6. ReadersWait' /\ EvidenceWasPublished'
  BY <1>1 DEF RefreshInv, ReadersWait, EvidenceWasPublished
<1>. QED BY <1>2, <1>3, <1>4, <1>5, <1>6 DEF RefreshInv

-----------------------------------------------------------------------------
(* Rows of the three kinds                                                  *)

LEMMA NotSelectedKeeps == ASSUME RefreshAssumption, RefreshInv, NotSelected PROVE RefreshInv'
<1> DEFINE row == Assess(Current, Previous(Current))
<1>1. /\ Busy /\ job.pc = "league" /\ Current \notin job.selected /\ AddRow(row)
      /\ UNCHANGED <<now, file, evidence, attempts, status, reader, gets, missed>>
  BY DEF NotSelected, At, Busy, files
<1>2. Current \in League /\ now \in 0 .. MaxTime /\ now \in Nat /\ Day(now) \in Slots
  BY <1>1, HeldBy, Today DEF RefreshInv, RefreshTyped
<1>3. Previous(Current) \in RowBy(now)
  BY <1>2, PreviousIsRow DEF RefreshInv
<1>4. /\ row \in RowBy(now) /\ Continues(row, Previous(Current))
      /\ \A f \in {"success", "failure"} : Last(row, f) = Last(Previous(Current), f)
      /\ row.elig = Previous(Current).elig \/ (job.name = "morning" /\ job.decided)
  BY <1>2, <1>3, Assessed
<1>. HIDE DEF row
<1>5. attempts'[Day(now)][Current] \notin {None, Started} =>
          /\ Continues(attempts'[Day(now)][Current], Previous(Current))
          /\ Continues(attempts'[Day(now)][Current], row)
  BY <1>1, <1>2, <1>4 DEF RefreshInv, Forward, Receipt, Continues
<1>6. ~(Capped /\ job.name = "baseline")
  BY <1>1, <1>2 DEF RefreshInv, Covered
<1>7. attempts' \in [Slots -> [League -> RowBy(now) \cup {None, Started}]]
  BY <1>1 DEF RefreshInv, RefreshTyped
<1>8. job.pc # "status"
  BY <1>1
<1>. QED BY <1>1, <1>4, <1>5, <1>6, <1>7, <1>8, RowKeeps

\* The receipt of today is shown unless the summary has it, and a started attempt
\* leaves the history as it was.
LEMMA CapConsumedKeeps == ASSUME RefreshAssumption, RefreshInv, CapConsumed PROVE RefreshInv'
<1> DEFINE l == Current
           prior == Previous(l)
           shown == ConsumedRow(l)
           kept == PreserveBlock(shown, prior)
           row == Assess(l, kept)
           receipt == attempts[Day(now)][l]
<1>1. /\ Busy /\ job.pc = "league" /\ receipt # None /\ AddRow(row)
      /\ UNCHANGED <<now, file, evidence, attempts, status, reader, gets, missed>>
  BY DEF CapConsumed, Consumed, At, Busy, files
<1>2. l \in League /\ now \in 0 .. MaxTime /\ now \in Nat /\ Day(now) \in Slots
  BY <1>1, HeldBy, Today DEF RefreshInv, RefreshTyped
<1>3. prior \in RowBy(now)
  BY <1>2, PreviousIsRow DEF RefreshInv
<1>4. shown \in RowBy(now) /\ Continues(shown, prior)
      /\ (receipt # Started => Continues(receipt, shown) /\ Continues(receipt, prior))
  <2>1. CASE receipt = Started
    <3>1. [Unknown EXCEPT !.status = "interrupted"] \in RowBy(now)
          /\ [Unknown EXCEPT !.status = "interrupted"].status \notin {"success", "failed"}
      BY DEF Unknown, RowBy
    <3>2. shown = RetainHistory([Unknown EXCEPT !.status = "interrupted"], prior)
      BY <2>1 DEF ConsumedRow
    <3>. HIDE DEF prior, shown
    <3>. QED BY <1>2, <1>3, <2>1, <3>1, <3>2, HistoryRetained
  <2>2. CASE receipt # Started
    <3>1. receipt \in RowBy(now) /\ Continues(receipt, prior)
      BY <1>1, <1>2, <2>2 DEF RefreshInv, RefreshTyped, Forward, Receipt
    <3>2. shown = prior \/ shown = receipt
      BY <2>2 DEF ConsumedRow
    <3>3. Continues(prior, prior) /\ Continues(receipt, receipt)
      BY <1>2, <1>3, <3>1, ContinuesSame
    <3>. QED BY <1>3, <3>1, <3>2, <3>3
  <2>. QED BY <2>1, <2>2
<1>. HIDE DEF prior, shown
<1>5. /\ kept \in RowBy(now) /\ \A f \in {"success", "failure"} : Last(kept, f) = Last(shown, f)
      /\ prior.elig \in Blocks => kept.elig = prior.elig
  BY <1>2, <1>3, <1>4, BlockKept
<1>. HIDE DEF kept
<1>6. /\ row \in RowBy(now) /\ \A f \in {"success", "failure"} : Last(row, f) = Last(kept, f)
      /\ row.elig = kept.elig \/ (job.name = "morning" /\ job.decided)
  BY <1>2, <1>5, Assessed
<1>. HIDE DEF row, receipt, l
<1>7. Continues(row, prior) /\ (receipt # Started => Continues(receipt, row) /\ Continues(receipt, prior))
  BY <1>4, <1>5, <1>6 DEF Continues
<1>8. prior.elig \in Blocks /\ row.elig \notin Blocks => job.name = "morning" /\ job.decided
  BY <1>5, <1>6
<1>9. Capped /\ job.name = "baseline" => \E d \in Day(job.start) .. Day(now) : attempts[d][l] # None
  <2>1. job.start \in 0 .. now
    BY <1>1, HeldBy DEF Job
  <2>2. Day(job.start) \in Nat /\ Day(now) \in Nat /\ Day(job.start) <= Day(now)
    BY <1>2, <2>1, DaysFollow
  <2>3. Day(now) \in Day(job.start) .. Day(now)
    BY <2>2
  <2>. QED BY <1>1, <2>3 DEF receipt
<1>10. attempts' \in [Slots -> [League -> RowBy(now) \cup {None, Started}]]
  BY <1>1 DEF RefreshInv, RefreshTyped
<1>11. job.pc # "status"
  BY <1>1
<1>. QED BY <1>1, <1>6, <1>7, <1>8, <1>9, <1>10, <1>11, RowKeeps DEF l, prior, receipt

\* The outcome retains the history and the block, and becomes the receipt of the day the
\* attempt was reserved on.
LEMMA FinishKeeps == ASSUME RefreshAssumption, RefreshInv, Finish PROVE RefreshInv'
<1> DEFINE l == Current
           prior == Previous(l)
           plain == [Unknown EXCEPT !.status = IF job.got = None THEN "failed" ELSE "success",
                                    !.at = now, !.csv = job.got]
           kept == PreserveBlock(plain, prior)
           said == Assess(l, kept)
           row == RetainHistory(said, prior)
<1>1. /\ Busy /\ job.pc = "finish" /\ Trying /\ AddRow(row) /\ Outcome(l) = row
      /\ attempts' = IF Capped THEN [attempts EXCEPT ![job.day][l] = row] ELSE attempts
      /\ UNCHANGED <<now, file, evidence, status, reader, gets, missed>>
  BY DEF Finish, Outcome, At, Busy, Trying
<1>2. l \in League /\ now \in 0 .. MaxTime /\ now \in Nat /\ Day(now) \in Slots /\ Day(now) \in Nat /\ Slots \subseteq Nat
      /\ job \in Job
  BY <1>1, HeldBy, Today DEF RefreshInv, RefreshTyped
<1>3. prior \in RowBy(now)
  BY <1>2, PreviousIsRow DEF RefreshInv
<1>4. plain \in RowBy(now) /\ plain.at = now
  <2>1. job.got \in Files \cup {None} /\ now \in 0 .. now
    BY <1>2 DEF Job
  <2>. QED BY <2>1 DEF Unknown, RowBy
<1>. HIDE DEF prior, plain
<1>5. /\ kept \in RowBy(now) /\ kept.status = plain.status /\ kept.at = now
      /\ prior.elig \in Blocks => kept.elig = prior.elig
  BY <1>2, <1>3, <1>4, BlockKept
<1>. HIDE DEF kept
<1>6. /\ said \in RowBy(now) /\ said.at = now
      /\ said.elig = kept.elig \/ (job.name = "morning" /\ job.decided)
  <2>1. Assess(l, kept).at = kept.at
    BY <1>5 DEF Assess, RowBy
  <2>. QED BY <1>2, <1>5, <2>1, Assessed
<1>. HIDE DEF said
<1>7. row \in RowBy(now) /\ Continues(row, prior) /\ row.elig = said.elig
  BY <1>2, <1>3, <1>6, HistoryRetained
<1>8. Continues(row, row)
  BY <1>2, <1>7, ContinuesSame
<1>. HIDE DEF row, l
<1>9. /\ job.day \in Slots /\ Day(job.start) <= job.day /\ job.day <= Day(now)
      /\ Capped => attempts[job.day][l] # None
      /\ \A d \in Slots : job.day < d => attempts[d][l] = None
  BY <1>1 DEF RefreshInv, Placed, Reserved, l
<1>10. job.day \in Nat
  BY <1>9 DEF Slots
<1>11. /\ attempts' \in [Slots -> [League -> RowBy(now) \cup {None, Started}]]
       /\ \A d \in Slots, m \in League :
             /\ ~(Capped /\ d = job.day /\ m = l) => attempts'[d][m] = attempts[d][m]
             /\ Capped => attempts'[job.day][l] = row
  BY <1>1, <1>2, <1>7, <1>9 DEF RefreshInv, RefreshTyped
<1>12. row # None
  BY <1>2, <1>7, Distinct
<1>13. \A d \in Slots, m \in League : /\ m # l => attempts'[d][m] = attempts[d][m]
                                      /\ attempts'[d][m] = None <=> attempts[d][m] = None
  BY <1>9, <1>11, <1>12
<1>14. ASSUME attempts'[Day(now)][l] \notin {None, Started}
       PROVE  Continues(attempts'[Day(now)][l], prior) /\ Continues(attempts'[Day(now)][l], row)
  <2>1. ASSUME ~Capped PROVE FALSE
    <3>1. attempts[Day(now)][l] \notin {None, Started}
      BY <1>1, <1>14, <2>1
    <3>. QED BY <1>2, <2>1, <3>1 DEF RefreshInv, Reserved
  <2>2. Day(now) = job.day
    <3>1. attempts[Day(now)][l] # None
      BY <1>2, <1>13, <1>14
    <3>2. ~(job.day < Day(now))
      BY <1>2, <1>9, <3>1
    <3>. QED BY <1>2, <1>9, <1>10, <3>2
  <2>. QED BY <1>2, <1>7, <1>8, <1>11, <2>1, <2>2
<1>15. prior.elig \in Blocks /\ row.elig \notin Blocks => job.name = "morning" /\ job.decided
  BY <1>5, <1>6, <1>7
<1>16. Capped /\ job.name = "baseline" => \E d \in Day(job.start) .. Day(now) : attempts[d][l] # None
  <2>1. job.start \in Nat
    BY <1>2 DEF Job
  <2>2. Day(job.start) \in Nat
    BY <2>1, DaysFollow
  <2>3. job.day \in Day(job.start) .. Day(now)
    BY <1>2, <1>9, <1>10, <2>2
  <2>. QED BY <1>9, <2>3
<1>17. job.pc # "status"
  BY <1>1
<1>. QED BY <1>1, <1>7, <1>11, <1>13, <1>14, <1>15, <1>16, <1>17, RowKeeps DEF l, prior

-----------------------------------------------------------------------------
(* The attempt at a league                                                  *)

\* A step of the attempt adds no row; no receipt appears under a row.
LEMMA AttemptKeeps ==
    ASSUME RefreshAssumption, RefreshInv, Busy, job.pc # "status", UNCHANGED <<now, status, reader, missed>>,
           job' \in Job, job'.rows = job.rows, job'.next = job.next, job'.name = job.name,
           job'.decided = job.decided, job'.selected = job.selected, job'.start = job.start,
           \A d \in Slots, l \in League :
               attempts'[d][l] = attempts[d][l] \/ (l = Current /\ attempts'[d][l] = Started)
    PROVE  Covered' /\ Forward' /\ Blocked' /\ ReadersWait'
<1>1. /\ job \in Job /\ reader = None
      /\ \A i \in 1 .. Len(job.rows) : Leagues[i] \in League /\ Leagues[i] # Current
  BY HeldBy
<1>2. Day(now) \in Slots /\ Day(now) \in Nat /\ now \in 0 .. MaxTime
  BY Today DEF RefreshInv, RefreshTyped
<1>3. /\ \A l \in League : Previous(l)' = Previous(l)
      /\ Day(now)' = Day(now)
  BY DEF Previous, Day
<1>4. None # Started
  BY DEF RefreshAssumption
<1>5. Covered'
  <2>1. ASSUME Capped, job.name = "baseline", NEW i \in 1 .. Len(job.rows)
        PROVE  \E d \in Day(job.start) .. Day(now) : attempts'[d][Leagues[i]] # None
    <3>1. PICK d \in Day(job.start) .. Day(now) : attempts[d][Leagues[i]] # None
      BY <2>1 DEF RefreshInv, Covered
    <3>2. d \in Slots
      <4>1. job.start \in Nat /\ MaxTime \in Nat
        BY <1>1, Today DEF Job, RefreshInv
      <4>2. Day(job.start) \in Nat /\ Day(MaxTime) \in Nat
        BY <4>1, DaysFollow
      <4>3. Day(now) <= Day(MaxTime)
        BY <1>2, <4>2 DEF Slots
      <4>. QED BY <1>2, <4>2, <4>3 DEF Slots
    <3>. QED BY <1>1, <3>1, <3>2
  <2>2. ~missed' /\ (Capped /\ job.name = "baseline" => job'.selected = League)
    BY DEF RefreshInv, Covered
  <2>. QED BY <1>3, <2>1, <2>2 DEF Covered, Day
<1>6. Forward'
  <2>1. \A l \in League : Receipt(Day(now), l)' => Receipt(Day(now), l) /\ attempts'[Day(now)][l] = attempts[Day(now)][l]
    BY <1>2, <1>3 DEF Receipt
  <2>2. \A l \in League : Receipt(Day(now), l)' => Continues(attempts'[Day(now)][l], Previous(l))
    BY <2>1 DEF RefreshInv, Forward
  <2>3. ASSUME NEW i \in 1 .. Len(job.rows)
        PROVE  /\ Continues(job.rows[i], Previous(Leagues[i])) /\ Leagues[i] \in League
               /\ Receipt(Day(now), Leagues[i])' => Continues(attempts'[Day(now)][Leagues[i]], job.rows[i])
    BY <1>1, <2>1 DEF RefreshInv, Forward
  <2>. QED BY <1>3, <2>2, <2>3 DEF Forward, Continues, Last
<1>7. Blocked'
  BY <1>1, <1>3 DEF RefreshInv, Blocked
<1>8. ReadersWait'
  BY <1>1 DEF ReadersWait
<1>. QED BY <1>5, <1>6, <1>7, <1>8

LEMMA ReserveKeeps == ASSUME RefreshAssumption, RefreshInv, Reserve PROVE RefreshInv'
<1>1. /\ Busy /\ job.pc = "league" /\ (Capped => attempts[Day(now)][Current] = None)
      /\ attempts' = IF Capped THEN [attempts EXCEPT ![Day(now)][Current] = Started] ELSE attempts
      /\ job' = [job EXCEPT !.pc = "get", !.day = Day(now)]
      /\ UNCHANGED <<now, file, evidence, status, reader, gets, missed>>
  BY DEF Reserve, At, Busy, Consumed
<1>2. /\ job \in Job /\ Current \in League /\ Day(now) \in Slots /\ Day(now) \in Nat /\ now \in 0 .. MaxTime
      /\ Slots \subseteq Nat
  BY <1>1, HeldBy, Today DEF RefreshInv, RefreshTyped
<1>3. /\ job' \in Job /\ job'.rows = job.rows /\ job'.next = job.next /\ job'.name = job.name
      /\ job'.decided = job.decided /\ job'.selected = job.selected /\ job'.start = job.start
      /\ job'.pc = "get" /\ job'.day = Day(now) /\ Current' = Current
  BY <1>1, <1>2 DEF Job, Current
<1>4. /\ attempts' \in [Slots -> [League -> RowBy(now) \cup {None, Started}]]
      /\ \A d \in Slots, l \in League :
            /\ d = Day(now) /\ l = Current /\ Capped => attempts'[d][l] = Started
            /\ ~(d = Day(now) /\ l = Current /\ Capped) => attempts'[d][l] = attempts[d][l]
  BY <1>1, <1>2 DEF RefreshInv, RefreshTyped
<1>5. None # Started
  BY DEF RefreshAssumption
<1>6. RefreshTyped'
  BY <1>1, <1>3, <1>4 DEF RefreshInv, RefreshTyped, Job, RowBy
<1>7. Placed'
  <2>1. Day(job.start) <= Day(now) /\ Day(now) <= Day(now)
    <3>1. job.start \in Nat /\ now \in Nat /\ job.start <= now
      BY <1>2, Today DEF Job, RefreshInv
    <3>. QED BY <1>2, <3>1, DaysFollow
  <2>. QED BY <1>1, <1>2, <1>3, <2>1 DEF RefreshInv, Placed, Busy, Trying, Day
<1>8. Reserved'
  <2>1. \A d \in Slots, l \in League : Day(now) < d => attempts'[d][l] = None
    <3>1. \A d \in Slots : Day(now) < d => d # Day(now)
      BY <1>2
    <3>. QED BY <1>4, <3>1 DEF RefreshInv, Reserved
  <2>2. Capped => \A d \in Slots, l \in League : gets'[d][l] <= 1 /\ (attempts'[d][l] = None => gets'[d][l] = 0)
    BY <1>1, <1>4, <1>5 DEF RefreshInv, Reserved
  <2>3. Capped => attempts'[Day(now)][Current] # None /\ gets'[Day(now)][Current] = 0
    BY <1>1, <1>2, <1>4, <1>5 DEF RefreshInv, Reserved
  <2>4. \A d \in Slots : Day(now) < d => attempts'[d][Current] = None
    BY <1>2, <2>1
  <2>5. ~Capped => \A d \in Slots, l \in League : attempts'[d][l] = None
    BY <1>4 DEF RefreshInv, Reserved
  <2>. QED BY <1>1, <1>3, <2>1, <2>2, <2>3, <2>4, <2>5 DEF Reserved, Trying, At, Day
<1>9. Covered' /\ Forward' /\ Blocked' /\ ReadersWait'
  <2>1. \A d \in Slots, l \in League :
            attempts'[d][l] = attempts[d][l] \/ (l = Current /\ attempts'[d][l] = Started)
    BY <1>4
  <2>2. job.pc # "status"
    BY <1>1
  <2>. QED BY <1>1, <1>3, <2>1, <2>2, AttemptKeeps
<1>10. EvidenceWasPublished'
  BY <1>1 DEF RefreshInv, EvidenceWasPublished
<1>. QED BY <1>6, <1>7, <1>8, <1>9, <1>10 DEF RefreshInv

LEMMA GetKeeps ==
    ASSUME RefreshAssumption, RefreshInv, NEW got \in Files \cup {None}, Get(got)
    PROVE  RefreshInv'
<1>1. /\ Busy /\ Trying /\ At("get") /\ job.pc = "get"
      /\ gets' = [gets EXCEPT ![job.day][Current] = gets[job.day][Current] + 1]
      /\ job' = [job EXCEPT !.pc = "publish", !.got = got]
      /\ UNCHANGED <<now, file, evidence, attempts, status, reader, missed>>
  BY DEF Get, At, Busy, Trying, files
<1>2. job \in Job /\ Current \in League
  BY <1>1, HeldBy
<1>3. /\ job' \in Job /\ job'.rows = job.rows /\ job'.next = job.next /\ job'.name = job.name
      /\ job'.decided = job.decided /\ job'.selected = job.selected /\ job'.start = job.start
      /\ job'.pc = "publish" /\ job'.day = job.day /\ Current' = Current
  BY <1>1, <1>2 DEF Job, Current
<1>4. job.day \in Slots /\ Day(job.start) <= job.day /\ job.day <= Day(now)
  BY <1>1 DEF RefreshInv, Placed
<1>5. /\ gets' \in [Slots -> [League -> Nat]]
      /\ gets'[job.day][Current] = gets[job.day][Current] + 1
      /\ \A d \in Slots, l \in League : ~(d = job.day /\ l = Current) => gets'[d][l] = gets[d][l]
  <2>1. gets \in [Slots -> [League -> Nat]] /\ gets[job.day][Current] + 1 \in Nat
    BY <1>2, <1>4 DEF RefreshInv, RefreshTyped
  <2>. QED BY <1>1, <1>2, <1>4, <2>1
<1>6. RefreshTyped'
  BY <1>1, <1>3, <1>5 DEF RefreshInv, RefreshTyped, Job, RowBy
<1>7. Placed'
  BY <1>1, <1>3, <1>4 DEF RefreshInv, Placed, Busy, Trying, Day
<1>8. Reserved'
  <2>1. Capped => attempts[job.day][Current] # None /\ gets[job.day][Current] = 0
    BY <1>1 DEF RefreshInv, Reserved
  <2>2. Capped => \A d \in Slots, l \in League : gets'[d][l] <= 1 /\ (attempts[d][l] = None => gets'[d][l] = 0)
    BY <1>5, <2>1 DEF RefreshInv, Reserved
  <2>. QED BY <1>1, <1>3, <2>1, <2>2 DEF RefreshInv, Reserved, Trying, At, Day
<1>9. Covered' /\ Forward' /\ Blocked' /\ ReadersWait'
  <2>1. job.pc # "status"
    BY <1>1
  <2>. QED BY <1>1, <1>3, <2>1, AttemptKeeps
<1>10. EvidenceWasPublished'
  BY <1>1 DEF RefreshInv, EvidenceWasPublished
<1>. QED BY <1>6, <1>7, <1>8, <1>9, <1>10 DEF RefreshInv

\* The step after the GET: the file may change, and grows.
LEMMA PublishKeeps == ASSUME RefreshAssumption, RefreshInv, Publish PROVE RefreshInv'
<1>1. /\ Busy /\ Trying /\ job.pc = "publish"
      /\ UNCHANGED <<now, evidence, attempts, status, reader, gets, missed>>
      /\ \/ /\ Publishable(Current, job.got) /\ file' = [file EXCEPT ![Current] = job.got]
            /\ job' = [job EXCEPT !.pc = "retain"]
         \/ file' = file /\ job' = [job EXCEPT !.pc = "finish", !.got = None]
  BY DEF Publish, At, Busy, Trying
<1>2. job \in Job /\ Current \in League
  BY <1>1, HeldBy
<1>3. /\ job' \in Job /\ job'.rows = job.rows /\ job'.next = job.next /\ job'.name = job.name
      /\ job'.decided = job.decided /\ job'.selected = job.selected /\ job'.start = job.start
      /\ job'.pc \in {"retain", "finish"} /\ job'.day = job.day /\ Current' = Current
  BY <1>1, <1>2 DEF Job, Current
<1>4. /\ file' \in [League -> Files \cup {None}]
      /\ job'.pc = "retain" => job'.got \in Files /\ file'[Current] = job'.got
      /\ \A l \in League : file[l] # None => file'[l] # None /\ file[l].corners \subseteq file'[l].corners
  <2>1. CASE file' = file /\ job' = [job EXCEPT !.pc = "finish", !.got = None]
    BY <1>2, <2>1 DEF RefreshInv, RefreshTyped, Job
  <2>2. CASE /\ Publishable(Current, job.got) /\ file' = [file EXCEPT ![Current] = job.got]
             /\ job' = [job EXCEPT !.pc = "retain"]
    <3>1. job.got \in Files /\ job.got # None /\ (file[Current] # None => file[Current].corners \subseteq job.got.corners)
      BY <1>2, <2>2 DEF Publishable, Job
    <3>2. job'.got = job.got /\ file \in [League -> Files \cup {None}]
      BY <1>2, <2>2 DEF Job, RefreshInv, RefreshTyped
    <3>. QED BY <1>2, <2>2, <3>1, <3>2
  <2>. QED BY <1>1, <2>1, <2>2
<1>5. RefreshTyped'
  BY <1>1, <1>3, <1>4 DEF RefreshInv, RefreshTyped, Job, RowBy
<1>6. Placed'
  BY <1>1, <1>3, <1>4 DEF RefreshInv, Placed, Busy, Trying, Day
<1>7. Reserved'
  BY <1>1, <1>3 DEF RefreshInv, Reserved, Trying, At, Day
<1>8. Covered' /\ Forward' /\ Blocked' /\ ReadersWait'
  <2>1. job.pc # "status"
    BY <1>1
  <2>. QED BY <1>1, <1>3, <2>1, AttemptKeeps
<1>9. EvidenceWasPublished'
  BY <1>1, <1>4 DEF RefreshInv, EvidenceWasPublished, RefreshAssumption
<1>. QED BY <1>5, <1>6, <1>7, <1>8, <1>9 DEF RefreshInv

LEMMA RetainKeeps == ASSUME RefreshAssumption, RefreshInv, Retain PROVE RefreshInv'
<1>1. /\ Busy /\ Trying /\ job.pc = "retain"
      /\ UNCHANGED <<now, file, attempts, status, reader, gets, missed>>
      /\ evidence' \in {evidence, IF Current = Morning THEN evidence \cup {job.got} ELSE evidence}
      /\ job' = [job EXCEPT !.pc = "finish"]
  BY DEF Retain, At, Busy, Trying
<1>2. job \in Job /\ Current \in League /\ job.got \in Files /\ file[Current] = job.got
  BY <1>1, HeldBy DEF RefreshInv, Placed
<1>3. /\ job' \in Job /\ job'.rows = job.rows /\ job'.next = job.next /\ job'.name = job.name
      /\ job'.decided = job.decided /\ job'.selected = job.selected /\ job'.start = job.start
      /\ job'.pc = "finish" /\ job'.day = job.day /\ Current' = Current
  BY <1>1, <1>2 DEF Job, Current
<1>4. evidence' \subseteq Files
  BY <1>1, <1>2 DEF RefreshInv, RefreshTyped
<1>5. RefreshTyped'
  BY <1>1, <1>3, <1>4 DEF RefreshInv, RefreshTyped, Job, RowBy
<1>6. Placed'
  BY <1>1, <1>3 DEF RefreshInv, Placed, Busy, Trying, Day
<1>7. Reserved'
  BY <1>1, <1>3 DEF RefreshInv, Reserved, Trying, At, Day
<1>8. Covered' /\ Forward' /\ Blocked' /\ ReadersWait'
  <2>1. job.pc # "status"
    BY <1>1
  <2>. QED BY <1>1, <1>3, <2>1, AttemptKeeps
<1>9. EvidenceWasPublished'
  <2>1. Current = Morning => file[Morning] # None /\ job.got.corners \subseteq file[Morning].corners
    BY <1>2, Distinct DEF RefreshInv, RefreshTyped
  <2>. QED BY <1>1, <2>1 DEF RefreshInv, EvidenceWasPublished
<1>. QED BY <1>5, <1>6, <1>7, <1>8, <1>9 DEF RefreshInv

-----------------------------------------------------------------------------
(* The summary                                                              *)

\* Every league has its row when the summary is written.
LEMMA StatusRows ==
    ASSUME RefreshAssumption, RefreshInv, WriteStatus
    PROVE  /\ Busy /\ job \in Job /\ status' \in [League -> RowBy(now)]
           /\ \A l \in League : \E i \in 1 .. Len(job.rows) : Leagues[i] = l /\ status'[l] = job.rows[i]
<1>1. /\ Busy /\ job.pc = "status"
      /\ status' = [l \in League |-> job.rows[CHOOSE i \in 1 .. Len(Leagues) : Leagues[i] = l]]
  BY DEF WriteStatus, At, Busy
<1>2. job \in Job /\ Len(job.rows) + 1 = Len(Leagues) + 1
  BY <1>1 DEF RefreshInv, RefreshTyped, Placed, Busy
<1>3. Len(job.rows) = Len(Leagues) /\ job.rows \in Seq(RowBy(now))
  BY <1>2, LeaguesFacts DEF Job
<1>4. ASSUME NEW l \in League
      PROVE  \E i \in 1 .. Len(job.rows) : Leagues[i] = l /\ status'[l] = job.rows[i]
  <2>1. \E i \in 1 .. Len(Leagues) : Leagues[i] = l
    BY DEF League
  <2>2. PICK i : i = CHOOSE k \in 1 .. Len(Leagues) : Leagues[k] = l
    OBVIOUS
  <2>3. i \in 1 .. Len(Leagues) /\ Leagues[i] = l
    BY <2>1, <2>2
  <2>4. status'[l] = job.rows[i]
    BY <1>1, <2>2
  <2>. QED BY <1>3, <2>3, <2>4
<1>5. \A i \in 1 .. Len(job.rows) : job.rows[i] \in RowBy(now)
  BY <1>3
<1>6. \A l \in League : status'[l] \in RowBy(now)
  BY <1>4, <1>5
<1>7. status' \in [League -> RowBy(now)]
  BY <1>1, <1>6
<1>. QED BY <1>1, <1>2, <1>4, <1>7

LEMMA WriteStatusKeeps == ASSUME RefreshAssumption, RefreshInv, WriteStatus PROVE RefreshInv'
<1>1. /\ ~Busy' /\ job' = None /\ UNCHANGED <<now, file, evidence, attempts, reader, gets>>
      /\ missed' = (missed \/ (Capped /\ job.name = "baseline" /\
                   \E l \in League : \A d \in Day(job.start) .. Day(now) : attempts[d][l] = None))
  BY DEF WriteStatus, Busy
<1>2. /\ Busy /\ status' \in [League -> RowBy(now)]
      /\ \A l \in League : \E i \in 1 .. Len(job.rows) : Leagues[i] = l /\ status'[l] = job.rows[i]
  BY StatusRows
<1>3. status' # None => \A l \in League : Previous(l)' = status'[l]
  BY DEF Previous
<1>4. RefreshTyped'
  BY <1>1, <1>2 DEF RefreshInv, RefreshTyped, RowBy
<1>5. Placed' /\ Blocked'
  BY <1>1 DEF Placed, Blocked
<1>6. Reserved'
  BY <1>1 DEF RefreshInv, Reserved, Trying, At, Busy, Day
<1>7. Covered'
  <2>1. Capped /\ job.name = "baseline" =>
            \A l \in League : \E d \in Day(job.start) .. Day(now) : attempts[d][l] # None
    BY <1>2 DEF RefreshInv, Covered
  <2>. QED BY <1>1, <2>1 DEF RefreshInv, Covered
<1>8. Forward'
  <2>1. ASSUME NEW l \in League, Receipt(Day(now), l)'
        PROVE  Continues(attempts[Day(now)][l], Previous(l)')
    <3>1. Receipt(Day(now), l)
      BY <1>1, <2>1 DEF Receipt, Day
    <3>2. Continues(attempts[Day(now)][l], status'[l])
      BY <1>2, <3>1 DEF RefreshInv, Forward
    <3>3. CASE status' # None
      BY <1>3, <3>2, <3>3
    <3>4. CASE status' = None
      BY <3>4 DEF Previous, Continues, Last, Unknown
    <3>. QED BY <3>3, <3>4
  <2>. QED BY <1>1, <2>1 DEF Forward, Continues, Last, Day
<1>9. ReadersWait' /\ EvidenceWasPublished'
  BY <1>1 DEF RefreshInv, ReadersWait, EvidenceWasPublished
<1>. QED BY <1>4, <1>5, <1>6, <1>7, <1>8, <1>9 DEF RefreshInv

LEMMA NextKeeps == ASSUME RefreshAssumption, RefreshInv, [Next]_vars PROVE RefreshInv'
<1>1. CASE Tick
  BY <1>1, TickKeeps
<1>2. CASE Expire \/ \E c \in SUBSET Fixtures : NewCalendar(c)
  BY <1>2, SameKeeps DEF Expire, NewCalendar, files, RefreshInv, ReadersWait, Covered
<1>3. ASSUME NEW name \in Jobs, Launch(name) PROVE RefreshInv'
  <2>1. UNCHANGED <<now, file, evidence, attempts, status, job, reader, gets>>
    BY <1>3 DEF Launch, files
  <2>2. ~missed'
    <3>1. CASE job = None \/ MayWait
      BY <1>3, <3>1 DEF Launch, RefreshInv, Covered
    <3>2. CASE ~(job = None \/ MayWait)
      <4>1. ~Capped /\ missed' = (missed \/ (Capped /\ name = "baseline"))
        BY <1>3, <3>2 DEF Launch, MayWait
      <4>. QED BY <4>1 DEF RefreshInv, Covered
    <3>. QED BY <3>1, <3>2
  <2>. QED BY <2>1, <2>2, SameKeeps DEF RefreshInv, ReadersWait
<1>4. ASSUME NEW name \in Jobs, Acquire(name) PROVE RefreshInv'
  BY <1>4, AcquireKeeps
<1>5. CASE NotSelected
  BY <1>5, NotSelectedKeeps
<1>6. CASE CapConsumed
  BY <1>6, CapConsumedKeeps
<1>7. CASE Reserve
  BY <1>7, ReserveKeeps
<1>8. ASSUME NEW got \in Files \cup {None}, Get(got) PROVE RefreshInv'
  BY <1>8, GetKeeps
<1>9. CASE Publish
  BY <1>9, PublishKeeps
<1>10. CASE Retain
  BY <1>10, RetainKeeps
<1>11. CASE Finish
  BY <1>11, FinishKeeps
<1>12. CASE WriteStatus
  BY <1>12, WriteStatusKeeps
<1>13. CASE Crash
  BY <1>13, CrashKeeps
<1>14. CASE Read \/ EndRead
  BY <1>14, SameKeeps DEF Read, EndRead, files, RefreshInv, Covered
<1>15. CASE UNCHANGED vars
  BY <1>15, SameKeeps DEF vars, files, RefreshInv, ReadersWait, Covered
<1>. QED BY <1>1, <1>2, <1>3, <1>4, <1>5, <1>6, <1>7, <1>8, <1>9, <1>10, <1>11, <1>12, <1>13, <1>14, <1>15 DEF Next

-----------------------------------------------------------------------------
(* What the code promises, for any leagues, files and order of jobs         *)

(* Every state a refresh can reach has its rows, receipts and attempts in   *)
(* step: the inductive invariant.                                           *)
THEOREM RefreshInvariant == ASSUME RefreshAssumption PROVE Spec => []RefreshInv
<1>1. Init => RefreshInv
  BY InitRefresh
<1>2. RefreshInv /\ [Next]_vars => RefreshInv'
  BY NextKeeps
<1>. QED BY <1>1, <1>2, PTL DEF Spec

(* Every variable keeps its type.                                           *)
THEOREM TypeCorrect == ASSUME RefreshAssumption PROVE Spec => []TypeOK
<1> DEFINE Waiting == waiting \subseteq Jobs
<1>1. Init => Waiting
  BY DEF Init
<1>2. Waiting /\ [Next]_vars => Waiting'
  <2> SUFFICES ASSUME Waiting, [Next]_vars PROVE Waiting'
    OBVIOUS
  <2>1. ASSUME NEW name \in Jobs, Launch(name) \/ Acquire(name) PROVE Waiting'
    BY <2>1 DEF Launch, Acquire
  <2>2. CASE UNCHANGED waiting
    BY <2>2
  <2>. QED BY <2>1, <2>2
       DEF Next, Tick, Expire, NewCalendar, NotSelected, CapConsumed, Reserve, Get, Publish, Retain, Finish,
           WriteStatus, Crash, Read, EndRead, vars
<1>3. RefreshInv /\ Waiting => TypeOK
  BY DEF RefreshInv, RefreshTyped, TypeOK, RowBy
<1>. QED BY <1>1, <1>2, <1>3, RefreshInvariant, PTL DEF Spec

(* The daily cap holds whichever job comes first, waits, overlaps or stops; *)
(* a baseline that ends attempted every league; readers and evidence are    *)
(* true to the published file.                                              *)
THEOREM RefreshIsSafe ==
    ASSUME RefreshAssumption
    PROVE  Spec => [](OneGetPerDay /\ BaselineCoversAll /\ ReadersSeeOneFile /\ EvidenceWasPublished)
<1>1. RefreshInv => OneGetPerDay /\ BaselineCoversAll /\ ReadersSeeOneFile /\ EvidenceWasPublished
  BY DEF RefreshInv, OneGetPerDay, Reserved, Slots, BaselineCoversAll, Covered, ReadersSeeOneFile, ReadersWait
<1>. QED BY <1>1, RefreshInvariant, PTL

LEMMA FilesGrow == ASSUME RefreshAssumption, RefreshInv, [Next]_vars PROVE NoFixtureLost
<1>1. CASE file' = file
  BY <1>1 DEF NoFixtureLost
<1>2. CASE Publish /\ file' # file
  <2>1. /\ Publishable(Current, job.got) /\ file' = [file EXCEPT ![Current] = job.got]
        /\ Busy /\ Trying /\ job.pc = "publish"
    BY <1>2 DEF Publish, At, Busy, Trying
  <2>2. Current \in League /\ file \in [League -> Files \cup {None}]
    BY <2>1, HeldBy DEF RefreshInv, RefreshTyped
  <2>3. file[Current] # None => file[Current].corners \subseteq job.got.corners
    BY <2>1 DEF Publishable
  <2>. QED BY <2>1, <2>2, <2>3 DEF NoFixtureLost
<1>. QED BY <1>1, <1>2
     DEF Next, Tick, Expire, NewCalendar, Launch, Acquire, NotSelected, CapConsumed, Reserve, Get, Retain,
         Finish, WriteStatus, Crash, Read, EndRead, vars, files

(* Only the end of a job writes the summary.                                *)
LEMMA OnlyJobsEnd == ASSUME [Next]_vars, status' # status PROVE WriteStatus
BY DEF Next, Tick, Expire, NewCalendar, Launch, Acquire, NotSelected, CapConsumed, Reserve, Get, Publish, Retain,
       Finish, Crash, Read, EndRead, vars, files

LEMMA PastKept == ASSUME RefreshAssumption, RefreshInv, [Next]_vars, status # None PROVE HistoryAdvances
<1>1. ASSUME NEW l \in League PROVE Continues(status'[l], status[l])
  <2>1. CASE status' = status
    <3>1. now \in Nat /\ status[l] \in RowBy(now)
      BY Today DEF RefreshInv, RefreshTyped
    <3>. QED BY <2>1, <3>1, ContinuesSame
  <2>2. CASE status' # status
    <3>1. WriteStatus
      BY <2>2, OnlyJobsEnd
    <3>2. PICK i \in 1 .. Len(job.rows) : Leagues[i] = l /\ status'[l] = job.rows[i]
      BY <3>1, StatusRows
    <3>3. Continues(job.rows[i], Previous(l))
      BY <3>1, <3>2, StatusRows DEF RefreshInv, Forward
    <3>. QED BY <3>2, <3>3 DEF Previous
  <2>. QED BY <2>1, <2>2
<1>. QED BY <1>1 DEF HistoryAdvances, Continues, Last

LEMMA BlocksKept == ASSUME RefreshAssumption, RefreshInv, [Next]_vars PROVE BlockNeedsAssessment
<1> SUFFICES ASSUME status # None, status' # status, NEW l \in League,
                    status[l].elig \in Blocks, status'[l].elig \notin Blocks
             PROVE  job.name = "morning" /\ job.decided
  BY DEF BlockNeedsAssessment
<1>1. WriteStatus
  BY OnlyJobsEnd
<1>2. PICK i \in 1 .. Len(job.rows) : Leagues[i] = l /\ status'[l] = job.rows[i]
  BY <1>1, StatusRows
<1>3. Previous(l) = status[l]
  BY DEF Previous
<1>. QED BY <1>1, <1>2, <1>3, StatusRows DEF RefreshInv, Blocked

(* No step loses corners of a file, makes    the last success or failure of  *)
(* the summary older, or lifts a settlement block without the morning job's *)
(* assessment.                                                              *)
THEOREM RefreshForgetsNothing ==
    ASSUME RefreshAssumption
    PROVE  Spec => [][NoFixtureLost /\ HistoryAdvances /\ BlockNeedsAssessment]_vars
<1>1. RefreshInv /\ [Next]_vars => NoFixtureLost /\ HistoryAdvances /\ BlockNeedsAssessment
  BY FilesGrow, PastKept, BlocksKept DEF HistoryAdvances
<1>. QED BY <1>1, RefreshInvariant, PTL DEF Spec

(* The read-only proposal of the morning request and the job itself ask for *)
(* the same leagues on the same evidence.                                   *)
THEOREM PlanAgrees == ASSUME RefreshAssumption PROVE Spec => []PlanIsSelected
<1>1. RefreshInv => PlanIsSelected
  <2> SUFFICES ASSUME RefreshInv, job = None, copy = calendar, calendar # None
               PROVE  Missing(Morning) # {} <=> PlanMissing(Morning) # {}
    BY DEF PlanIsSelected, Selection, Plan
  <2>1. file[Morning] # None => file[Morning].corners \subseteq file[Morning].has
    BY DEF RefreshInv, RefreshTyped, RefreshAssumption, Files
  <2>2. \A f : f \in Missing(Morning) <=> f \in PlanMissing(Morning)
    BY <2>1 DEF Missing, Conflicts, PlanMissing
  <2>. QED BY <2>2
<1>. QED BY <1>1, RefreshInvariant, PTL
=============================================================================
