---------------------------- MODULE ForecastLedger ----------------------------
(***************************************************************************)
(* The local 1X2 forecast ledger (live_forecasts.py, predict.py).  A       *)
(* command predicts from CSV files that grow as matches are played, hashes *)
(* the files it used, and saves one original forecast per fixture under    *)
(* the ledger lock.  A result is scored from the saved probabilities and   *)
(* published with no lock at all, and a summary reads the two directories  *)
(* one file after the other.  Commands may stop at any step.               *)
(***************************************************************************)
EXTENDS Integers, FiniteSets, FiniteSetsExt

CONSTANTS
    Clients, Readers,
    Ids,        \* forecast ids still to be drawn (uuid4), which bound the run
    Fixtures, Dates,   \* what may be predicted, and played, and when
    Scores,     \* final scores that may be recorded
    Estimate,   \* probabilities of the outcomes, by number of earlier matches, in parts of Whole
    Whole,
    None

Outcomes == {"home", "draw", "away"}
Played == SUBSET Fixtures
Forecast == [fixture: Fixtures, used: Played, sources: Played, probabilities: [Outcomes -> 0 .. Whole]]
Scored == [score: Scores, outcome: Outcomes, brier: 0 .. 3 * Whole * Whole]

\* _validate_forecast: probabilities of the three outcomes that sum to one
Distribution(p) == p \in [Outcomes -> 0 .. Whole] /\ p["home"] + p["draw"] + p["away"] = Whole

ForecastConstants ==
    /\ Dates \in [Fixtures -> Nat]
    /\ Scores \subseteq [home: Nat, away: Nat]
    /\ Whole \in Nat \ {0}
    /\ IsFiniteSet(Fixtures) /\ IsFiniteSet(Ids)
    /\ \A n \in 0 .. Cardinality(Fixtures) : Distribution(Estimate[n])
    /\ None \notin Fixtures \cup Ids \cup Scored

VARIABLES
    history,    \* the matches in the CSV files
    forecasts,  \* forecasts/<id>.json
    results,    \* results/<id>.json
    call,       \* per client: the command it runs
    view,       \* per reader: what its summary has read
    \* observations, read by no action
    told,       \* <<forecast, score>> reported as recorded
    atStart     \* per reader: the scored forecasts when its summary began

files == <<history, forecasts, results>>
vars == <<files, call, view, told, atStart>>

Saved == {f \in Ids : forecasts[f] # None}

Init ==
    /\ history = {}
    /\ forecasts = [f \in Ids |-> None] /\ results = [f \in Ids |-> None]
    /\ call = [c \in Clients |-> None]
    /\ view = [r \in Readers |-> None]
    /\ told = {} /\ atStart = [r \in Readers |-> {}]

\* a match enters the files in order of date, on its day or later
Play(x) ==
    /\ x \notin history /\ \A y \in Fixtures : Dates[y] < Dates[x] => y \in history
    /\ history' = history \cup {x}
    /\ UNCHANGED <<forecasts, results, call, view, told, atStart>>

Goto(c, state) == call' = [call EXCEPT ![c] = state]
End(c) == Goto(c, None)
Doing(c, step) == call[c] # None /\ call[c].do = step

-----------------------------------------------------------------------------
(* Saving a prediction                                                     *)

\* strictly earlier matches only
MutantEligible(x) == {m \in history : Dates[m] <= Dates[x]}
Eligible(x) == {m \in history : Dates[m] < Dates[x]}

Predict(c, x) ==
    /\ call[c] = None
    /\ LET used == Eligible(x) IN
       Goto(c, [do |-> "hash", fixture |-> x, used |-> used,
                probabilities |-> Estimate[Cardinality(used)]])
    /\ UNCHANGED <<files, view, told, atStart>>

\* the record is made before its sources are known
MutantHash(c) ==
    /\ Doing(c, "hash")
    /\ Goto(c, [do |-> "save", record |-> call[c]])
    /\ UNCHANGED <<files, view, told, atStart>>
\* the files are hashed when the record is made, after the model has run
Hash(c) ==
    /\ Doing(c, "hash")
    /\ Goto(c, [do |-> "save", record |->
            [fixture |-> call[c].fixture, used |-> call[c].used, sources |-> history,
             probabilities |-> call[c].probabilities]])
    /\ UNCHANGED <<files, view, told, atStart>>

\* under the lock: no forecast of this fixture, and the record is linked
MutantUnforecast(x) == \A f \in Saved : forecasts[f].fixture = x => results[f] # None
Unforecast(x) == \A f \in Saved : forecasts[f].fixture # x
Save(c) ==
    /\ Doing(c, "save") /\ End(c)
    /\ IF Unforecast(call[c].record.fixture)
       THEN \E f \in Ids \ Saved : forecasts' = [forecasts EXCEPT ![f] = call[c].record]
       ELSE UNCHANGED forecasts
    /\ UNCHANGED <<history, results, view, told, atStart>>

-----------------------------------------------------------------------------
(* Recording a result                                                      *)

Outcome(score) == CASE score.home > score.away -> "home"
                    [] score.home < score.away -> "away"
                    [] OTHER -> "draw"

\* the squared error of the probabilities, in parts of Whole squared
Brier(probabilities, outcome) ==
    LET e(o) == probabilities[o] - IF o = outcome THEN Whole ELSE 0 IN
    e("home") * e("home") + e("draw") * e("draw") + e("away") * e("away")

\* scored again with what the files say now
MutantScore(f, score) ==
    [score |-> score, outcome |-> Outcome(score),
     brier |-> Brier(Estimate[Cardinality(Eligible(forecasts[f].fixture))], Outcome(score))]
Score(f, score) ==
    [score |-> score, outcome |-> Outcome(score), brier |-> Brier(forecasts[f].probabilities, Outcome(score))]

\* the same score again is a replay, another one is a conflict
Replay(f, score) == told' = told \cup IF results[f].score = score THEN {<<f, score>>} ELSE {}

Record(c, f, score) ==
    /\ call[c] = None /\ f \in Saved
    /\ IF results[f] # None
       THEN Replay(f, score) /\ UNCHANGED call
       ELSE Goto(c, [do |-> "link", forecast |-> f, result |-> Score(f, score)]) /\ UNCHANGED told
    /\ UNCHANGED <<files, view, atStart>>

\* exclusive creation: whoever links second is refused, whatever its score
MutantPublish(f, result) ==
    /\ results' = [results EXCEPT ![f] = result]
    /\ told' = told \cup {<<f, result.score>>}
Publish(f, result) ==
    IF results[f] = None
    THEN /\ results' = [results EXCEPT ![f] = result]
         /\ told' = told \cup {<<f, result.score>>}
    ELSE UNCHANGED <<results, told>>
Link(c) ==
    /\ Doing(c, "link") /\ End(c)
    /\ Publish(call[c].forecast, call[c].result)
    /\ UNCHANGED <<history, forecasts, view, atStart>>

\* a command that stops leaves at most a temporary file that no reader lists
Stop(c) == call[c] # None /\ End(c) /\ UNCHANGED <<files, view, told, atStart>>

-----------------------------------------------------------------------------
(* Summary                                                                 *)

\* _load_all_forecasts; _validate_result
ForecastsLoad ==
    /\ \A f \in Saved : Distribution(forecasts[f].probabilities)
    /\ \A f, g \in Saved : f # g => forecasts[f].fixture # forecasts[g].fixture
ResultLoads(f) == results[f] # None => results[f] = Score(f, results[f].score)

Summarise(r) ==
    /\ view[r] = None
    /\ view' = [view EXCEPT ![r] =
            [saved |-> Saved, left |-> Saved, completed |-> [f \in Ids |-> None], failed |-> ~ForecastsLoad]]
    /\ atStart' = [atStart EXCEPT ![r] = {f \in Ids : results[f] # None}]
    /\ UNCHANGED <<files, call, told>>

Reading(r) == view[r] # None /\ ~view[r].failed
ReadResult(r, f) ==
    /\ Reading(r) /\ f \in view[r].left
    /\ view' = [view EXCEPT ![r].left = @ \ {f}, ![r].completed[f] = results[f], ![r].failed = ~ResultLoads(f)]
    /\ UNCHANGED <<files, call, told, atStart>>

\* the sum of a list of numbers, one for each of what they belong to
AddUp(numbers) == MapThenSumSet(LAMBDA x : numbers[x], DOMAIN numbers)

Completed(r) == {f \in view[r].saved : view[r].completed[f] # None}
MutantTotals(r) ==
    [saved |-> Cardinality(view[r].saved), completed |-> Cardinality(Completed(r)),
     pending |-> Cardinality(view[r].saved \ Completed(r)),
     score |-> AddUp([f \in view[r].saved |-> IF results[f] = None THEN 0 ELSE results[f].brier])]
Totals(r) ==
    [saved |-> Cardinality(view[r].saved), completed |-> Cardinality(Completed(r)),
     pending |-> Cardinality(view[r].saved \ Completed(r)),
     score |-> AddUp([f \in Completed(r) |-> view[r].completed[f].brier])]

Done(r) ==
    /\ view[r] # None /\ (view[r].left = {} \/ view[r].failed)
    /\ view' = [view EXCEPT ![r] = None]
    /\ atStart' = [atStart EXCEPT ![r] = {}]
    /\ UNCHANGED <<files, call, told>>

Next ==
    \/ \E x \in Fixtures : Play(x)
    \/ \E c \in Clients :
        \/ \E x \in Fixtures : Predict(c, x)
        \/ \E f \in Ids, score \in Scores : Record(c, f, score)
        \/ Hash(c) \/ Save(c) \/ Link(c) \/ Stop(c)
    \/ \E r \in Readers : Summarise(r) \/ (\E f \in Ids : ReadResult(r, f)) \/ Done(r)

Spec == Init /\ [][Next]_vars

-----------------------------------------------------------------------------
(* Properties                                                              *)

TypeOK ==
    /\ history \in Played
    /\ forecasts \in [Ids -> Forecast \cup {None}]
    /\ results \in [Ids -> Scored \cup {None}]
    /\ \A c \in Clients : call[c] # None => call[c].do \in {"hash", "save", "link"}
    /\ \A r \in Readers : view[r] # None => view[r].left \subseteq view[r].saved
    /\ told \subseteq Ids \X Scores /\ atStart \in [Readers -> SUBSET Ids]

\* A forecast knows nothing of its own day: what it used is strictly earlier, its
\* probabilities are those of that history, and the hashed files, read after the
\* model ran, still hold every match it used.
NoLookahead ==
    \A f \in Saved : LET r == forecasts[f] IN
        /\ \A m \in r.used : Dates[m] < Dates[r.fixture]
        /\ r.used \subseteq r.sources
        /\ r.probabilities = Estimate[Cardinality(r.used)]

\* The ledger never locks itself out: however saves and results interleave, every
\* forecast and result passes the checks of its next reader.
SummaryNeverFails == \A r \in Readers : view[r] # None => ~view[r].failed

\* Two operators who record a result at once cannot both be told that theirs was
\* recorded, and what one was told is what the ledger keeps.
OneResult == \A pair \in told : results[pair[1]] # None /\ results[pair[1]].score = pair[2]

\* A forecast and its score are final.
RecordsAreFinal ==
    \A f \in Ids : /\ (forecasts[f] # None => forecasts'[f] = forecasts[f])
                   /\ (results[f] # None => results'[f] = results[f])

\* A summary that ran beside writers counts every forecast once, and averages the
\* scores of the forecasts it counts as completed: all that were scored when it
\* began, and none that is not.
SummaryAgrees ==
    \A r \in Readers : Reading(r) /\ view[r].left = {} =>
        LET t == Totals(r) IN
        /\ t.saved = t.completed + t.pending
        /\ atStart[r] \subseteq Completed(r)
        /\ \A f \in Completed(r) : view[r].completed[f] = results[f]
        /\ t.score = AddUp([f \in Completed(r) |-> Brier(forecasts[f].probabilities, results[f].outcome)])
=============================================================================
