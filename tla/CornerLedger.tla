----------------------------- MODULE CornerLedger -----------------------------
(***************************************************************************)
(* The manual corner ledger (corner_ledger.py): forecasts, $1 picks and    *)
(* results in one directory.  Every command reads and checks without the   *)
(* lock, then checks again and writes one record under ledger_lock (the    *)
(* write itself is AnalysisStore).  A summary reads the three directories  *)
(* one after the other and takes no lock.                                  *)
(***************************************************************************)
EXTENDS Naturals, FiniteSets

CONSTANTS
    Clients, Readers,
    Forecasts, Picks,   \* identities still to be drawn (uuid4), which bound the run
    Fixtures,
    Lines,              \* saved lines in half corners, so that a push needs an even one
    Scores,             \* results that may be recorded: corners by team
    None

LedgerConstants ==
    /\ Lines \subseteq Nat /\ Scores \subseteq [{"home", "away"} -> Nat]
    /\ None \notin Fixtures \cup Forecasts

VARIABLES
    forecasts,  \* forecasts/<id>.json, by fixture
    picks,      \* picks/<id>.json
    results,    \* results/<forecast id>.json
    call,       \* per client: the command past its unlocked checks
    view,       \* per reader: what its summary has read
    \* observations, read by no action
    settledAtStart  \* per reader: what was settled when the summary began

vars == <<forecasts, picks, results, call, view, settledAtStart>>

Sides == {"over", "under"}
Teams == {"home", "away"}
Pick == [forecast: Forecasts, team: Teams, line: Lines, side: Sides]
Call == [do: {"save"}, fixture: Fixtures] \cup [do: {"pick"}, pick: Pick]
        \cup [do: {"result"}, forecast: Forecasts, score: Scores]
View == [forecasts: SUBSET Forecasts, picks: SUBSET Picks, results: [Forecasts -> Scores \cup {None}],
         next: {"picks", "results", "done", "failed"}, left: SUBSET Forecasts]

Saved == {f \in Forecasts : forecasts[f] # None}
Recorded == {p \in Picks : picks[p] # None}

Init ==
    /\ forecasts = [f \in Forecasts |-> None]
    /\ picks = [p \in Picks |-> None]
    /\ results = [f \in Forecasts |-> None]
    /\ call = [c \in Clients |-> None]
    /\ view = [r \in Readers |-> None]
    /\ settledAtStart = [r \in Readers |-> {}]

-----------------------------------------------------------------------------
(* Settlement                                                              *)

\* twice the corners against the line in half corners: equality is a push
Settle(pick, score) ==
    LET actual == 2 * score[pick.team] IN
    CASE actual = pick.line -> "push"
      [] actual # pick.line /\ (actual > pick.line <=> pick.side = "over") -> "win"
      [] OTHER -> "loss"

\* the settlements a summary lists, given the scores it has
Settlements(scores) ==
    {[pick |-> p, outcome |-> Settle(picks[p], scores[picks[p].forecast])] :
        p \in {q \in Recorded : scores[picks[q].forecast] # None}}

-----------------------------------------------------------------------------
(* Commands                                                                *)

Begin(c, command) == call[c] = None /\ call' = [call EXCEPT ![c] = command]
End(c) == call' = [call EXCEPT ![c] = None]

\* save_corner_forecast validates its own record; any fixture may be proposed
Save(c) ==
    /\ \E x \in Fixtures : Begin(c, [do |-> "save", fixture |-> x])
    /\ UNCHANGED <<forecasts, picks, results, view, settledAtStart>>

\* a forecast of the same fixture is looked for under the lock
MutantCommitSave(c) ==
    /\ call[c] # None /\ call[c].do = "save" /\ End(c)
    /\ \E f \in Forecasts \ Saved : forecasts' = [forecasts EXCEPT ![f] = call[c].fixture]
    /\ UNCHANGED <<picks, results, view, settledAtStart>>
CommitSave(c) ==
    /\ call[c] # None /\ call[c].do = "save" /\ End(c)
    /\ IF \E f \in Saved : forecasts[f] = call[c].fixture
       THEN UNCHANGED forecasts
       ELSE \E f \in Forecasts \ Saved : forecasts' = [forecasts EXCEPT ![f] = call[c].fixture]
    /\ UNCHANGED <<picks, results, view, settledAtStart>>

\* a line the forecast does not have
MutantRecordPick(c) ==
    /\ \E pick \in Pick :
        /\ pick.forecast \in Saved /\ results[pick.forecast] = None
        /\ Begin(c, [do |-> "pick", pick |-> [pick EXCEPT !.line = @ + 1]])
    /\ UNCHANGED <<forecasts, picks, results, view, settledAtStart>>
\* record_corner_pick: an existing forecast and line, and no result yet
RecordPick(c) ==
    /\ \E pick \in Pick :
        /\ pick.forecast \in Saved /\ results[pick.forecast] = None
        /\ Begin(c, [do |-> "pick", pick |-> pick])
    /\ UNCHANGED <<forecasts, picks, results, view, settledAtStart>>

SameLine(p, pick) ==
    picks[p].forecast = pick.forecast /\ picks[p].team = pick.team /\ picks[p].line = pick.line

\* under the lock: not the same line twice, and still no result
MutantPickable(pick) == ~\E p \in Recorded : SameLine(p, pick)
Pickable(pick) ==
    /\ ~\E p \in Recorded : SameLine(p, pick)
    /\ results[pick.forecast] = None
CommitPick(c) ==
    /\ call[c] # None /\ call[c].do = "pick" /\ End(c)
    /\ IF Pickable(call[c].pick)
       THEN \E p \in Picks \ Recorded : picks' = [picks EXCEPT ![p] = call[c].pick]
       ELSE UNCHANGED picks
    /\ UNCHANGED <<forecasts, results, view, settledAtStart>>

RecordResult(c) ==
    /\ \E f \in Saved, score \in Scores : Begin(c, [do |-> "result", forecast |-> f, score |-> score])
    /\ UNCHANGED <<forecasts, picks, results, view, settledAtStart>>

\* the same score is a replay, another one a conflict; neither writes
MutantCommitResult(c) ==
    /\ call[c] # None /\ call[c].do = "result" /\ End(c)
    /\ results' = [results EXCEPT ![call[c].forecast] = call[c].score]
    /\ UNCHANGED <<forecasts, picks, view, settledAtStart>>
CommitResult(c) ==
    /\ call[c] # None /\ call[c].do = "result" /\ End(c)
    /\ results' = [results EXCEPT ![call[c].forecast] = IF @ = None THEN call[c].score ELSE @]
    /\ UNCHANGED <<forecasts, picks, view, settledAtStart>>

\* the command fails or dies between its checks and its record
Abandon(c) ==
    /\ call[c] # None /\ End(c)
    /\ UNCHANGED <<forecasts, picks, results, view, settledAtStart>>

-----------------------------------------------------------------------------
(* corner_ledger_summary                                                   *)

ListForecasts(r) ==
    /\ view[r] = None
    /\ view' = [view EXCEPT ![r] = [forecasts |-> Saved, picks |-> {}, next |-> "picks", left |-> Saved,
                                    results |-> [f \in Forecasts |-> None]]]
    /\ settledAtStart' = [settledAtStart EXCEPT ![r] = Settlements(results)]
    /\ UNCHANGED <<forecasts, picks, results, call>>

\* a pick on a forecast saved since the listing is an unknown forecast, and the summary fails
ListPicks(r) ==
    /\ view[r] # None /\ view[r].next = "picks"
    /\ view' = IF \E p \in Recorded : picks[p].forecast \notin view[r].forecasts
               THEN [view EXCEPT ![r].next = "failed"]
               ELSE [view EXCEPT ![r].next = "results", ![r].picks = Recorded]
    /\ UNCHANGED <<forecasts, picks, results, call, settledAtStart>>

ReadResult(r) ==
    /\ view[r] # None /\ view[r].next = "results"
    /\ \/ \E f \in view[r].left :
            view' = [view EXCEPT ![r].left = @ \ {f}, ![r].results[f] = results[f]]
       \/ view[r].left = {} /\ view' = [view EXCEPT ![r].next = "done"]
    /\ UNCHANGED <<forecasts, picks, results, call, settledAtStart>>

\* the summary is printed
PrintSummary(r) ==
    /\ view[r] # None /\ view[r].next \in {"done", "failed"}
    /\ view' = [view EXCEPT ![r] = None]
    /\ settledAtStart' = [settledAtStart EXCEPT ![r] = {}]
    /\ UNCHANGED <<forecasts, picks, results, call>>

\* what the summary counts as settled: listed picks whose result it has read
Counted(r) == {s \in Settlements(view[r].results) : s.pick \in view[r].picks}

-----------------------------------------------------------------------------

Next ==
    \/ \E c \in Clients : \/ Save(c) \/ CommitSave(c) \/ RecordPick(c) \/ CommitPick(c)
                          \/ RecordResult(c) \/ CommitResult(c) \/ Abandon(c)
    \/ \E r \in Readers : ListForecasts(r) \/ ListPicks(r) \/ ReadResult(r) \/ PrintSummary(r)

Spec == Init /\ [][Next]_vars

-----------------------------------------------------------------------------
(* Properties                                                              *)

TypeOK ==
    /\ forecasts \in [Forecasts -> Fixtures \cup {None}]
    /\ picks \in [Picks -> Pick \cup {None}]
    /\ results \in [Forecasts -> Scores \cup {None}]
    /\ call \in [Clients -> Call \cup {None}]
    /\ view \in [Readers -> View \cup {None}]

\* What every locked command and every summary loads is accepted: one forecast per fixture, no pick or
\* result without its forecast, one pick per team and line, whichever side.
LedgerLoads ==
    /\ \A f, g \in Saved : forecasts[f] = forecasts[g] => f = g
    /\ \A p \in Recorded : picks[p].forecast \in Saved
    /\ \A p, q \in Recorded : SameLine(p, picks[q]) => p = q
    /\ \A f \in Forecasts : results[f] # None => f \in Saved

\* The book of a fixture is closed by its result: from then on no pick is added to it and no
\* settlement of it changes, although picks and other scores were under way.
SettlementsAreFinal ==
    \A f \in Forecasts : results[f] # None =>
        /\ results'[f] = results[f]
        /\ {p \in Picks : picks'[p] # None /\ picks'[p].forecast = f}
               = {p \in Recorded : picks[p].forecast = f}

\* A summary that prints counts what was settled when it began and nothing that is not settled now, although
\* it reads file after file beside the writers.
SummaryIsBracketed ==
    \A r \in Readers : view[r] # None /\ view[r].next = "done" =>
        /\ settledAtStart[r] \subseteq Counted(r)
        /\ Counted(r) \subseteq Settlements(results)
        /\ \A s \in Counted(r) : picks[s.pick].forecast \in view[r].forecasts
=============================================================================
