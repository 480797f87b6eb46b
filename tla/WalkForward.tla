----------------------------- MODULE WalkForward -----------------------------
(* The chronological evaluations: rolling corner predictions and forecasts   *)
(* (corners.py, forecasts.py), the recency and shot-feature experiments      *)
(* (corner_recency_experiment.py, corner_feature_experiment.py), the scored  *)
(* probabilities (corner_probability_evaluation.py,                          *)
(* corner_total_probability_evaluation.py), the next-day diagnostics         *)
(* (pl_chronological_evaluation.py) and the live prediction they stand for   *)
(* (corner_forecasts.py).                                                    *)
(*                                                                           *)
(* A mean is abstracted to the sums and counts it is made of, a dispersion   *)
(* to its moments.  Two histories that agree before the holdout are walked   *)
(* side by side.                                                             *)
EXTENDS Naturals, FiniteSets, Sequences, SequencesExt, FiniteSetsExt, Functions

CONSTANTS
  Days,          \* number of days
  DayChoices,    \* sets of fixtures a day may hold
  Teams,
  Holdout,       \* first day of the holdout
  Start, End,    \* scoring window
  MinHistory, MinVenue,
  Windows        \* candidate windows

ConstantsAssumption ==
  /\ {Days, Holdout, Start, End, MinHistory, MinVenue} \subseteq Nat \ {0}
  /\ End <= Days /\ Windows \subseteq Nat \ {0} /\ Windows # {}

Venues == {"HOME", "AWAY"}
Opposite(v) == IF v = "HOME" THEN "AWAY" ELSE "HOME"
Walks == {1, 2}

VARIABLES
  history,    \* [Walks -> [days -> fixtures]]
  day,        \* the next date
  totals,     \* [Walks -> totals of everything seen, and of complete fixtures]
  lists,      \* [Walks -> [team, venue -> its observations in order]]
  rows        \* [Walks -> what each evaluation forecast]

vars == <<history, day, totals, lists, rows>>

----------------------------------------------------------------------------
(* Observations: two of each fixture.                                        *)

Observation(d, x, v) ==
  [day |-> d, venue |-> v, complete |-> x.complete,
   team |-> IF v = "HOME" THEN x.home ELSE x.away,
   opponent |-> IF v = "HOME" THEN x.away ELSE x.home,
   made |-> IF v = "HOME" THEN x.hc ELSE x.ac,
   conceded |-> IF v = "HOME" THEN x.ac ELSE x.hc]

ObservationsOn(h, d) == {Observation(d, x, v) : x \in h[d], v \in Venues}
Before(h, d) == UNION {ObservationsOn(h, e) : e \in 1..(d - 1)}
Complete(items) == {o \in items : o.complete}

SumOver(items, f(_)) == FoldSet(LAMBDA o, n : n + f(o), 0, items)
Totals(items) ==
  [n |-> Cardinality(items), made |-> SumOver(items, LAMBDA o : o.made),
   conceded |-> SumOver(items, LAMBDA o : o.conceded)]
Nought == [n |-> 0, made |-> 0, conceded |-> 0]

(* What a mean is made of: the venue's league, the attack and the            *)
(* concession of the opponent at the other venue.                            *)
Mean(league, attack, concession) ==
  <<league.n, league.made, attack.n, attack.made, concession.n, concession.conceded>>

(* estimate_expected_corners, estimate_expected_goals: from the records.     *)
Estimate(prior, team, opponent, venue) ==
  Mean(Totals({o \in prior : o.venue = venue}),
       Totals({o \in prior : o.venue = venue /\ o.team = team}),
       Totals({o \in prior : o.venue = Opposite(venue) /\ o.team = opponent}))

Moments(items) ==
  <<Cardinality(items), SumOver(items, LAMBDA o : o.made),
    SumOver(items, LAMBDA o : o.made * o.made)>>

----------------------------------------------------------------------------
(* Running totals, keyed by venue for the league and by team and venue.      *)

Keys == ({"league"} \cup Teams) \X Venues
Empty == [k \in Keys |-> Nought]

AddTo(t, items) ==
  [k \in Keys |->
     LET new == Totals({o \in items : o.venue = k[2] /\ k[1] \in {"league", o.team}})
     IN [n |-> t[k].n + new.n, made |-> t[k].made + new.made,
         conceded |-> t[k].conceded + new.conceded]]

RunningMean(t, o) ==
  Mean(t[<<"league", o.venue>>], t[<<o.team, o.venue>>], t[<<o.opponent, Opposite(o.venue)>>])
Count(t) == t[<<"league", "HOME">>].n + t[<<"league", "AWAY">>].n
VenueGate(t, o) ==
  t[<<o.team, o.venue>>].n >= MinVenue /\ t[<<o.opponent, Opposite(o.venue)>>].n >= MinVenue

----------------------------------------------------------------------------
(* What each evaluation makes of one date.                                   *)

(* The date as it stands in the ordered records.                             *)
MutantBatch(h) == UNION {ObservationsOn(h, d) : d \in {d \in 1..Days : d <= day /\ d > day - 2}}

Batch(h) == ObservationsOn(h, day)

(* One record more than the gate asks for.                                   *)
MutantRollingRows(t, batch, prior) ==
  IF Count(t) <= MinHistory THEN {}
  ELSE {[of |-> o, mean |-> RunningMean(t, o), size |-> Moments(prior)] : o \in batch}

RollingRows(t, batch, prior) ==
  IF Count(t) < MinHistory THEN {}
  ELSE {[of |-> o, mean |-> RunningMean(t, o), size |-> Moments(prior)] : o \in batch}

FeatureRows(t, batch) ==
  IF Count(t) < MinHistory THEN {}
  ELSE {[of |-> o, mean |-> RunningMean(t, o)] : o \in {o \in Complete(batch) : VenueGate(t, o)}}

Recent(s, w) == SubSeq(s, IF Len(s) > w THEN Len(s) - w + 1 ELSE 1, Len(s))

WindowMean(t, l, o, w) ==
  Mean(t[<<"league", o.venue>>], Totals(ToSet(Recent(l[<<o.team, o.venue>>], w))),
       Totals(ToSet(Recent(l[<<o.opponent, Opposite(o.venue)>>], w))))

Expanding(t, l, o) ==
  LET a == Len(l[<<o.team, o.venue>>])
      c == Len(l[<<o.opponent, Opposite(o.venue)>>])
  IN WindowMean(t, l, o, IF a > c THEN a ELSE c)

(* How old each record is, which its weight decays with.                     *)
Ages(prior) == {day - p.day : p \in prior}

RecencyRows(t, l, batch) ==
  IF Count(t) < MinHistory THEN {}
  ELSE {[of |-> o, mean |-> Expanding(t, l, o),
         windows |-> [w \in Windows |-> WindowMean(t, l, o, w)],
         ages |-> Ages(ToSet(l[<<o.team, o.venue>>]))] :
          o \in {o \in batch : VenueGate(t, o)}}

(* The correction of low scores is fitted on the history, and kept valid for *)
(* the rates of the fixtures it is applied to, not for their scores.         *)
MutantRho(prior, batch) ==
  [low |-> {o \in prior \cup batch : o.made <= 1 /\ o.conceded <= 1},
   rates |-> {Estimate(prior, o.team, o.opponent, o.venue) : o \in prior \cup batch}]

Rho(prior, batch) ==
  [low |-> {o \in prior : o.made <= 1 /\ o.conceded <= 1},
   rates |-> {Estimate(prior, o.team, o.opponent, o.venue) : o \in prior \cup batch}]

GoalRows(prior, batch) ==
  IF Cardinality(prior) < MinHistory THEN {}
  ELSE {[of |-> o, mean |-> Estimate(prior, o.team, o.opponent, o.venue),
         rho |-> Rho(prior, batch), ages |-> Ages(prior)] : o \in batch}

Extend(l, batch) ==
  [k \in Teams \X Venues |->
     l[k] \o SetToSeq({o \in batch : o.team = k[1] /\ o.venue = k[2]})]

----------------------------------------------------------------------------
(* evaluate_corner_probabilities: fixtures in the window whose two teams     *)
(* pass the gates; the scored rows are the rolling ones.                     *)

(* A team passes the gate with its games at either venue.                    *)
MutantEligible(h) ==
  {<<d, x>> \in UNION {{d} \X h[d] : d \in Start..End} :
     LET prior == Before(h, d) IN
     /\ Cardinality(prior) >= MinHistory
     /\ Cardinality({o \in prior : o.team = x.home}) >= MinVenue
     /\ Cardinality({o \in prior : o.team = x.away}) >= MinVenue}

Eligible(h) ==
  {<<d, x>> \in UNION {{d} \X h[d] : d \in Start..End} :
     LET prior == Before(h, d) IN
     /\ Cardinality(prior) >= MinHistory
     /\ Cardinality({o \in prior : o.team = x.home /\ o.venue = "HOME"}) >= MinVenue
     /\ Cardinality({o \in prior : o.team = x.away /\ o.venue = "AWAY"}) >= MinVenue}

Outcomes(w) ==
  {r \in rows[w].rolling :
     \E e \in Eligible(history[w]) : r.of \in {Observation(e[1], e[2], v) : v \in Venues}}

(* evaluate_match_total_probabilities pairs the two sides.                   *)
TotalPairs(w) ==
  {<<e, {r \in rows[w].rolling : r.of \in {Observation(e[1], e[2], v) : v \in Venues}}>> :
     e \in {e \in Eligible(history[w]) : e[1] < day}}

(* predict_corner_fixture: what the live model would have said from the      *)
(* records before the date, or nothing.                                      *)
Live(prior, d, x) ==
  LET side(team, v) == Cardinality({o \in prior : o.team = team /\ o.venue = v})
  IN IF Cardinality(prior) < MinHistory \/ side(x.home, "HOME") < MinVenue
                                        \/ side(x.away, "AWAY") < MinVenue
     THEN {}
     ELSE {[of |-> o, mean |-> Estimate(prior, o.team, o.opponent, o.venue), size |-> Moments(prior)] :
             o \in {Observation(d, x, v) : v \in Venues}}

----------------------------------------------------------------------------
(* The next-day diagnostics: the same model on the cutoff of the day before. *)

(* The option only changes the label.                                        *)
MutantCutoff(d, next) == d

Cutoff(d, next) == IF next THEN d - 1 ELSE d

CornerReport(h, next) ==
  UNION {UNION {Live(Before(h, Cutoff(d, next)), d, x) : x \in h[d]} : d \in 1..(day - 1)}

Btts(h, next) ==
  UNION {LET prior == Before(h, Cutoff(d, next)) IN
         IF Cardinality({o \in prior : o.venue = "HOME"}) < MinHistory THEN {}
         ELSE {[of |-> <<d, x>>, prior |-> {o.day : o \in prior}] :
                 x \in {x \in h[d] : {x.home, x.away} \subseteq {o.team : o \in prior}}} :
           d \in 1..(day - 1)}

----------------------------------------------------------------------------
(* Selection on the development rows; a tie goes to the larger candidate.    *)
(* The loss is a stand-in that depends on what the likelihood depends on.    *)

Loss(mean, actual) ==
  LET forecast == (mean[4] + mean[6]) * 2
      outcome == actual * (mean[3] + mean[5])
  IN IF forecast > outcome THEN forecast - outcome ELSE outcome - forecast
LossOf(items, w) == SumOver(items, LAMBDA r : Loss(r.windows[w], r.of.made))

(* The parameter is chosen on everything that was scored.                    *)
MutantDevelopment(w) == rows[w].recency

Development(w) == {r \in rows[w].recency : r.of.day < Holdout}

SelectedWindow(w) ==
  CHOOSE c \in Windows : \A other \in Windows :
    \/ LossOf(Development(w), c) < LossOf(Development(w), other)
    \/ LossOf(Development(w), c) = LossOf(Development(w), other) /\ c >= other

----------------------------------------------------------------------------
Init ==
  /\ history \in {h \in [Walks -> [1..Days -> DayChoices]] :
                    \A d \in 1..(Holdout - 1) : h[1][d] = h[2][d]}
  /\ day = 1
  /\ totals = [w \in Walks |-> [all |-> Empty, complete |-> Empty]]
  /\ lists = [w \in Walks |-> [k \in Teams \X Venues |-> <<>>]]
  /\ rows = [w \in Walks |-> [rolling |-> {}, recency |-> {}, features |-> {}, goals |-> {}]]

(* The first half of a date is added before the second is forecast.          *)
MutantWalkDate ==
  /\ day <= Days /\ day' = day + 1
  /\ totals' = [w \in Walks |->
       [all |-> AddTo(totals[w].all, Batch(history[w])),
        complete |-> AddTo(totals[w].complete, Complete(Batch(history[w])))]]
  /\ lists' = [w \in Walks |-> Extend(lists[w], Batch(history[w]))]
  /\ rows' = [w \in Walks |->
       LET batch == Batch(history[w])
           prior == Before(history[w], day)
           half == AddTo(totals[w].all, {o \in batch : o.venue = "HOME"})
       IN [rolling |-> rows[w].rolling \cup RollingRows(half, batch, prior),
           recency |-> rows[w].recency \cup RecencyRows(totals[w].all, lists[w], batch),
           features |-> rows[w].features \cup FeatureRows(totals[w].complete, batch),
           goals |-> rows[w].goals \cup GoalRows(prior, batch)]]
  /\ UNCHANGED history

(* A date is forecast from what was added before it, then added as a whole.  *)
WalkDate ==
  /\ day <= Days /\ day' = day + 1
  /\ totals' = [w \in Walks |->
       [all |-> AddTo(totals[w].all, Batch(history[w])),
        complete |-> AddTo(totals[w].complete, Complete(Batch(history[w])))]]
  /\ lists' = [w \in Walks |-> Extend(lists[w], Batch(history[w]))]
  /\ rows' = [w \in Walks |->
       LET batch == Batch(history[w])
           prior == Before(history[w], day)
       IN [rolling |-> rows[w].rolling \cup RollingRows(totals[w].all, batch, prior),
           recency |-> rows[w].recency \cup RecencyRows(totals[w].all, lists[w], batch),
           features |-> rows[w].features \cup FeatureRows(totals[w].complete, batch),
           goals |-> rows[w].goals \cup GoalRows(prior, batch)]]
  /\ UNCHANGED history

Next == WalkDate

Spec == Init /\ [][Next]_vars

----------------------------------------------------------------------------
(* Every observation is forecast at most once.                               *)
TypeOK ==
  /\ day \in 1..(Days + 1)
  /\ \A w \in Walks : \A e \in {"rolling", "recency", "features", "goals"} :
       \A r, s \in rows[w][e] : r.of = s.of => r = s

(* Nothing is forecast from its own date or a later one: every mean is the   *)
(* one the records of strictly earlier dates give, whichever way it was      *)
(* accumulated (rolling_corner_predictions, rolling_recency_rows,            *)
(* rolling_feature_rows, rolling_*_forecasts).                               *)
StrictlyEarlier ==
  \A w \in Walks :
    LET of(o, keep(_)) ==
          Estimate({p \in Before(history[w], o.day) : keep(p)}, o.team, o.opponent, o.venue)
    IN /\ \A e \in {"rolling", "recency", "goals"} :
            \A r \in rows[w][e] : r.mean = of(r.of, LAMBDA p : TRUE)
       /\ \A r \in rows[w].features : r.mean = of(r.of, LAMBDA p : p.complete)
       /\ \A r \in rows[w].recency \cup rows[w].goals : 0 \notin r.ages

(* The backtest scores the deployed model: what is scored of a date is what  *)
(* a live prediction from the records before it would have said, and a       *)
(* fixture is left out exactly when the live model would have refused it     *)
(* (evaluate_corner_probabilities, predict_corner_fixture).                  *)
BacktestIsLive ==
  \A w \in Walks :
    Outcomes(w) = UNION {UNION {Live(Before(history[w], d), d, x) : x \in history[w][d]} :
                           d \in Start..(IF End < day THEN End ELSE day - 1)}

(* Both sides of an eligible fixture are forecast, with one dispersion       *)
(* (evaluate_match_total_probabilities raises otherwise).                    *)
EligibleIsPaired ==
  \A w \in Walks : \A p \in TotalPairs(w) :
    Cardinality(p[2]) = 2 /\ Cardinality({r.size : r \in p[2]}) = 1

(* Two histories that agree before the holdout choose the same window, and   *)
(* forecast the same there and on its first day, whatever happens after      *)
(* (run_recency_experiment, run_feature_experiment).                         *)
HoldoutIsBlind ==
  /\ SelectedWindow(1) = SelectedWindow(2)
  /\ \A e \in {"rolling", "recency", "features", "goals"} :
       \A r \in rows[1][e], s \in rows[2][e] :
         /\ r.of.day <= Holdout /\ s.of.day = r.of.day
         /\ s.of.team = r.of.team /\ s.of.opponent = r.of.opponent /\ s.of.venue = r.of.venue
         => s.mean = r.mean
  /\ \A r \in rows[1].goals, s \in rows[2].goals :
       r.of.day = Holdout /\ s.of.day = Holdout => r.rho.low = s.rho.low

(* The next-day reports know nothing of the day before the fixture, score    *)
(* nothing the same-day report does not, and keep its labels (_cutoff,       *)
(* _corner_report, _btts).                                                   *)
NextDayKnowsLess ==
  \A w \in Walks :
    /\ \A r \in CornerReport(history[w], TRUE) : r.size = Moments(Before(history[w], r.of.day - 1))
    /\ {r.of : r \in CornerReport(history[w], TRUE)} \subseteq
          {r.of : r \in CornerReport(history[w], FALSE)}
    /\ \A r \in Btts(history[w], TRUE) : r.of[1] - 1 \notin r.prior
    /\ {r.of : r \in Btts(history[w], TRUE)} \subseteq {r.of : r \in Btts(history[w], FALSE)}
=============================================================================
