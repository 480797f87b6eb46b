-------------------------- MODULE ResearchSnapshots --------------------------
(* Private research over the prospective evidence (corner_research.py,       *)
(* corner_shadow_scoring.py): a snapshot is a manifest of references taken   *)
(* under the runner's and the ledger's read locks; reports are computed from *)
(* what the references name, whatever was appended since.                    *)
(*                                                                           *)
(* A line stands for both directions of a paired team total; the side it     *)
(* belongs to is SideOf.  Files are written once (EvidenceStore), so a       *)
(* reference is the identity of a file.                                      *)
EXTENDS Naturals, FiniteSets, Sequences, SequencesExt, FiniteSetsExt

CONSTANTS
  Predictions,
  Lines, SideOf,            \* [Lines -> {"home", "away"}]
  Listings,                 \* what an observation may list
  Champion, Shadow,         \* lines each model finds qualified
  Actuals,                  \* lines an outcome hits exactly, as sets of lines
  MaxObservations, MaxResults, MaxSnapshots, MaxCrashes   \* bounds

ConstantsAssumption ==
  /\ SideOf \in [Lines -> {"home", "away"}] /\ Champion \cup Shadow \subseteq Lines
  /\ Listings \subseteq SUBSET Lines \ {{}} /\ Actuals \subseteq SUBSET Lines
  /\ {MaxObservations, MaxResults, MaxSnapshots, MaxCrashes} \subseteq Nat

Nothing == [later |-> {"none"}, paired |-> {}]
Sides == {"home", "away"}

VARIABLES
  observed,      \* [Predictions -> sequence of line sets, the source first]
  stamped,       \* [Predictions -> observations with a frozen policy]
  predicted,     \* predictions on disk
  targets,       \* [Predictions -> lines with a frozen target]
  opportunities, \* [Predictions -> qualified <<observation, line>>]
  shadows,       \* predictions with a shadow
  decisions,     \* [Predictions -> [observations -> decision or Nothing]]
  outcomes,      \* [Predictions -> chain of results]
  run,           \* the collector: what is left to write for one observation
  reader,        \* the snapshot being collected: rows so far, if any
  snapshots,     \* manifests on disk, and the report made when they were
  crashes

evidence == <<observed, stamped, predicted, targets, opportunities, shadows, decisions, outcomes>>
vars == <<evidence, run, reader, snapshots, crashes>>

Idle == [p |-> "none", o |-> 0, steps |-> <<>>]

Source(p) == observed[p][1]

----------------------------------------------------------------------------
(* Decisions: only lines of the source are compared, the others counted.     *)

Assess(source, o, lines) ==
  [later |-> IF o = 1 THEN {} ELSE lines \ source, paired |-> lines \cap source]

----------------------------------------------------------------------------
(* What is read of one prediction, by a snapshot or by the live comparison.  *)

Row(p) ==
  [prediction |-> p, shadow |-> p \in shadows, targets |-> targets[p],
   source |-> Source(p), opportunities |-> opportunities[p], chain |-> outcomes[p],
   observations |-> {[id |-> o, lines |-> observed[p][o], policy |-> o \in stamped[p],
                      decision |-> decisions[p][o]] : o \in DOMAIN observed[p]}]

(* Evidence that does not fit together stops a snapshot.                     *)
Coherent(row) ==
  /\ \A i \in row.observations : i.decision # Nothing =>
       row.shadow /\ i.policy /\ i.decision = Assess(row.source, i.id, i.lines)
  /\ \A x \in row.opportunities : x[2] \in row.targets

Rows == {Row(p) : p \in predicted}

(* _load: everything a frozen row names is still there as it was.            *)
Resolves(row) ==
  LET p == row.prediction IN
  /\ p \in predicted /\ (row.shadow => p \in shadows)
  /\ row.targets \subseteq targets[p] /\ row.opportunities \subseteq opportunities[p]
  /\ IsPrefix(row.chain, outcomes[p])
  /\ \A i \in row.observations :
       /\ i.id \in DOMAIN observed[p] /\ observed[p][i.id] = i.lines
       /\ i.policy => i.id \in stamped[p]
       /\ i.decision # Nothing => decisions[p][i.id] = i.decision

(* Only the predictions are frozen; what belongs to them is read again.      *)
MutantLoaded(rows) == {Row(row.prediction) : row \in rows}

Loaded(rows) == rows

Loads(rows) == \A row \in Loaded(rows) : Resolves(row) /\ Coherent(row)

----------------------------------------------------------------------------
(* Scoring.                                                                  *)

Tip(row) == row.chain[Len(row.chain)]
Paired(rows) == {row \in rows : row.shadow}
Settled(rows) == {row \in Paired(rows) : row.chain # <<>>}
OfSides(lines, sides) == {l \in lines : SideOf[l] \in sides}

(* Targets of both models that a settled result decides: those frozen with   *)
(* the shadow.                                                               *)
MutantFrozenTargets(row, sides) == OfSides(row.targets, sides)

FrozenTargets(row, sides) == OfSides(row.source, sides)

ForecastReport(rows, sides) ==
  LET settled == Settled(rows)
      size(f) == FoldSet(LAMBDA row, n : n + f[row], 0, settled)
  IN [predictions |-> Cardinality(rows), missing |-> Cardinality(rows \ Paired(rows)),
      settled |-> Cardinality(settled),
      teams |-> Cardinality(settled) * Cardinality(sides),
      scored |-> size([row \in settled |-> Cardinality(FrozenTargets(row, sides) \ Tip(row))]),
      pushes |-> size([row \in settled |-> Cardinality(FrozenTargets(row, sides) \cap Tip(row))]),
      later |-> size([row \in settled |-> Cardinality(row.targets \ row.source)])]

Decided(row, sides) ==
  UNION {{<<row.prediction, i.id, l>> : l \in OfSides(i.decision.paired, sides)} :
           i \in {i \in row.observations : i.decision # Nothing}}

(* The sides asked for are forgotten where decisions are counted.            *)
MutantDecisionReport(rows, sides) ==
  LET pairs == UNION {Decided(row, Sides) : row \in rows}
      settled == UNION {Decided(row, Sides) : row \in {r \in rows : r.chain # <<>>}}
      of(qualified) == {x \in pairs : x[3] \in qualified}
  IN [pairs |-> Cardinality(pairs),
      both |-> Cardinality(of(Champion \cap Shadow)),
      champion |-> Cardinality(of(Champion \ Shadow)), shadow |-> Cardinality(of(Shadow \ Champion)),
      neither |-> Cardinality(of(Lines \ (Champion \cup Shadow))),
      settled |-> Cardinality(settled \cap of(Champion))]

DecisionReport(rows, sides) ==
  LET pairs == UNION {Decided(row, sides) : row \in rows}
      settled == UNION {Decided(row, sides) : row \in {r \in rows : r.chain # <<>>}}
      of(qualified) == {x \in pairs : x[3] \in qualified}
  IN [pairs |-> Cardinality(pairs),
      both |-> Cardinality(of(Champion \cap Shadow)),
      champion |-> Cardinality(of(Champion \ Shadow)), shadow |-> Cardinality(of(Shadow \ Champion)),
      neither |-> Cardinality(of(Lines \ (Champion \cup Shadow))),
      settled |-> Cardinality(settled \cap of(Champion))]

(* research_summary; segment_comparison by venue.                            *)
Summary(rows) == <<ForecastReport(rows, Sides), DecisionReport(rows, Sides)>>
Segment(rows, side) ==
  <<ForecastReport(Paired(rows), {side}), DecisionReport(Paired(rows), {side})>>

(* inspect_fixture.                                                          *)
Inspection(row) ==
  [settled |-> row.chain # <<>>, shadow |-> row.shadow,
   missing |-> {i.id : i \in {i \in row.observations : i.decision = Nothing}}]

Report(rows) ==
  [summary |-> Summary(rows), home |-> Segment(rows, "home"), away |-> Segment(rows, "away"),
   fixtures |-> {Inspection(row) : row \in rows}]

----------------------------------------------------------------------------
Init ==
  /\ observed = [p \in Predictions |-> <<>>] /\ stamped = [p \in Predictions |-> {}]
  /\ predicted = {} /\ shadows = {}
  /\ targets = [p \in Predictions |-> {}] /\ opportunities = [p \in Predictions |-> {}]
  /\ decisions = [p \in Predictions |-> [o \in 1..MaxObservations |-> Nothing]]
  /\ outcomes = [p \in Predictions |-> <<>>]
  /\ run = Idle /\ reader = {} /\ snapshots = {} /\ crashes = 0

(* The read locks exclude a run and every writer under the ledger lock.      *)
Reading == reader # {}

(* The shadow is frozen before the prediction it belongs to.                 *)
MutantBeginRun(p) ==
  /\ run = Idle /\ ~Reading
  /\ \/ /\ Len(observed[p]) < MaxObservations /\ (observed[p] # <<>> => p \in predicted)
        /\ run' = [p |-> p, o |-> Len(observed[p]) + 1,
                   steps |-> IF observed[p] = <<>>
                             THEN <<"observation", "stamp", "shadow", "prediction", "assess", "decide">>
                             ELSE <<"observation", "stamp", "assess", "decide">>]
     \/ /\ observed[p] # <<>>     \* replay of a saved capture: no stamp is made
        /\ run' = [p |-> p, o |-> 1, steps |-> <<"prediction", "assess", "shadow", "decide">>]
  /\ UNCHANGED <<evidence, reader, snapshots, crashes>>

BeginRun(p) ==
  /\ run = Idle /\ ~Reading
  /\ \/ /\ Len(observed[p]) < MaxObservations /\ (observed[p] # <<>> => p \in predicted)
        /\ run' = [p |-> p, o |-> Len(observed[p]) + 1,
                   steps |-> IF observed[p] = <<>>
                             THEN <<"observation", "stamp", "prediction", "assess", "shadow", "decide">>
                             ELSE <<"observation", "stamp", "assess", "decide">>]
     \/ /\ observed[p] # <<>>     \* replay of a saved capture: no stamp is made
        /\ run' = [p |-> p, o |-> 1, steps |-> <<"prediction", "assess", "shadow", "decide">>]
  /\ UNCHANGED <<evidence, reader, snapshots, crashes>>

(* A decision under the policy of the day, not the one frozen at the quote.   *)
MutantWrite(p, o, step) ==
  /\ IF step = "observation"
     THEN \E lines \in Listings : observed' = [observed EXCEPT ![p] = Append(@, lines)]
     ELSE UNCHANGED observed
  /\ stamped' = IF step = "stamp" THEN [stamped EXCEPT ![p] = @ \cup {o}] ELSE stamped
  /\ predicted' = IF step = "prediction" THEN predicted \cup {p} ELSE predicted
  /\ targets' = IF step = "assess" THEN [targets EXCEPT ![p] = @ \cup observed[p][o]] ELSE targets
  /\ opportunities' = IF step = "assess"
       THEN [opportunities EXCEPT ![p] = @ \cup ({o} \X (observed[p][o] \cap Champion))]
       ELSE opportunities
  /\ shadows' = IF step = "shadow" THEN shadows \cup {p} ELSE shadows
  /\ decisions' = IF step = "decide" /\ p \in shadows
       THEN [decisions EXCEPT ![p][o] = Assess(Source(p), o, observed[p][o])]
       ELSE decisions
  /\ UNCHANGED outcomes

Write(p, o, step) ==
  /\ IF step = "observation"
     THEN \E lines \in Listings : observed' = [observed EXCEPT ![p] = Append(@, lines)]
     ELSE UNCHANGED observed
  /\ stamped' = IF step = "stamp" THEN [stamped EXCEPT ![p] = @ \cup {o}] ELSE stamped
  /\ predicted' = IF step = "prediction" THEN predicted \cup {p} ELSE predicted
  /\ targets' = IF step = "assess" THEN [targets EXCEPT ![p] = @ \cup observed[p][o]] ELSE targets
  /\ opportunities' = IF step = "assess"
       THEN [opportunities EXCEPT ![p] = @ \cup ({o} \X (observed[p][o] \cap Champion))]
       ELSE opportunities
  /\ shadows' = IF step = "shadow" THEN shadows \cup {p} ELSE shadows
  /\ decisions' = IF step = "decide" /\ p \in shadows /\ o \in stamped[p]
       THEN [decisions EXCEPT ![p][o] = Assess(Source(p), o, observed[p][o])]
       ELSE decisions
  /\ UNCHANGED outcomes

RunStep ==
  /\ run.steps # <<>> /\ Write(run.p, run.o, Head(run.steps))
  /\ run' = IF Len(run.steps) = 1 THEN Idle ELSE [run EXCEPT !.steps = Tail(@)]
  /\ UNCHANGED <<reader, snapshots, crashes>>

Die ==
  /\ run # Idle /\ crashes < MaxCrashes /\ crashes' = crashes + 1 /\ run' = Idle
  /\ UNCHANGED <<evidence, reader, snapshots>>

(* A recorder that does not wait for the readers.                            *)
MutantRecordOutcome(p) ==
  /\ p \in predicted /\ Len(outcomes[p]) < MaxResults
  /\ \E a \in Actuals : outcomes' = [outcomes EXCEPT ![p] = Append(@, a)]
  /\ UNCHANGED <<observed, stamped, predicted, targets, opportunities, shadows, decisions,
                 run, reader, snapshots, crashes>>

RecordOutcome(p) ==
  /\ ~Reading /\ p \in predicted /\ Len(outcomes[p]) < MaxResults
  /\ \E a \in Actuals : outcomes' = [outcomes EXCEPT ![p] = Append(@, a)]
  /\ UNCHANGED <<observed, stamped, predicted, targets, opportunities, shadows, decisions,
                 run, reader, snapshots, crashes>>

(* _create: the locks, one prediction after the other, the manifest.  With a *)
(* run in progress it times out.                                             *)
Collect(p) ==
  /\ run = Idle /\ Cardinality(snapshots) < MaxSnapshots
  /\ p \in predicted /\ \A row \in reader : row.prediction # p
  /\ Coherent(Row(p)) /\ reader' = reader \cup {Row(p)}
  /\ UNCHANGED <<evidence, run, snapshots, crashes>>

Publish ==
  /\ Reading /\ {row.prediction : row \in reader} = predicted
  /\ snapshots' = snapshots \cup {[rows |-> reader, report |-> Report(reader)]}
  /\ reader' = {} /\ UNCHANGED <<evidence, run, crashes>>

Abandon == Reading /\ reader' = {} /\ UNCHANGED <<evidence, run, snapshots, crashes>>

Next ==
  \/ \E p \in Predictions : BeginRun(p) \/ RecordOutcome(p) \/ Collect(p)
  \/ RunStep \/ Die \/ Publish \/ Abandon

Spec == Init /\ [][Next]_vars

----------------------------------------------------------------------------
TypeOK ==
  /\ predicted \subseteq Predictions /\ shadows \subseteq predicted
  /\ \A p \in Predictions :
       /\ observed[p] \in Seq(SUBSET Lines) /\ stamped[p] \subseteq DOMAIN observed[p]
       /\ targets[p] \subseteq Lines /\ outcomes[p] \in Seq(Actuals)
       /\ \A o \in 1..MaxObservations : decisions[p][o] # Nothing => o \in stamped[p]
  /\ {row.prediction : row \in reader} \subseteq predicted

(* A manifest names one moment: nothing it collected has moved when it is    *)
(* published, however long it took (_create, the two read locks).            *)
SnapshotIsOneMoment == snapshots' # snapshots => reader = Rows

(* A published snapshot can be read for ever, and says what it said: later   *)
(* observations, targets, decisions and results change no report of it, and  *)
(* what was missing stays missing (_load, research_summary,                  *)
(* segment_comparison, inspect_fixture).                                     *)
SnapshotsStand ==
  \A s \in snapshots : Loads(s.rows) /\ Report(Loaded(s.rows)) = s.report

(* Evidence as the collector leaves it, crashes included, never keeps a      *)
(* snapshot from being taken (_collect).                                     *)
EvidenceCoheres == \A p \in predicted : Coherent(Row(p))

(* The two venue groups of a comparison add up to the summary: no target and *)
(* no decision is counted on both sides or on neither (forecast_report,      *)
(* decision_report).                                                         *)
SegmentsAddUp ==
  LET whole == Summary(Paired(Rows))
      home == Segment(Rows, "home")
      away == Segment(Rows, "away")
  IN /\ \A f \in {"scored", "pushes", "teams"} : home[1][f] + away[1][f] = whole[1][f]
     /\ \A f \in {"pairs", "both", "champion", "shadow", "neither", "settled"} :
          home[2][f] + away[2][f] = whole[2][f]

(* The two models are compared on the same, frozen population: what is       *)
(* scored or pushed is the source cohort of the settled pairs, and every     *)
(* decision is counted in one of the four ways.                              *)
PairedOnFrozenTargets ==
  LET r == ForecastReport(Rows, Sides)
      d == DecisionReport(Rows, Sides)
  IN /\ r.scored + r.pushes =
          FoldSet(LAMBDA row, n : n + Cardinality(row.source), 0, Settled(Rows))
     /\ d.both + d.champion + d.shadow + d.neither = d.pairs
=============================================================================
