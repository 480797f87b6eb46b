-------------------------- MODULE ProspectiveViews --------------------------
(* The public views over the prospective evidence                            *)
(* (corner_prospective_read.py): what an inventory read under both locks     *)
(* says of predictions, their targets, the opportunities found in them and   *)
(* their results; the performance derived from it; and the detail of one     *)
(* opportunity with the prices recorded since.                               *)
(*                                                                           *)
(* A target is a line of the home side with a direction and a frozen         *)
(* decisive probability, in tenths.                                          *)
EXTENDS Naturals, FiniteSets, Sequences, FiniteSetsExt

CONSTANTS
  Predictions,
  TargetChoices,    \* sets of targets a capture may be asked for
  Research,         \* predictions that are research only
  Kickoff,          \* [Predictions -> time]
  Actuals,          \* corner counts of a result
  Markets,          \* no-vig probabilities of the market, in tenths
  Shown,            \* prices shown with an opportunity (12)
  MaxQuotes, MaxResults, MaxTime    \* bounds

(* A later observation has nothing at the line, only the side of the         *)
(* opportunity, or a pair.                                                   *)
Absent == 11
Alone == 12
Prices == {Absent, Alone} \cup Markets

ConstantsAssumption ==
  /\ Kickoff \in [Predictions -> Nat] /\ Research \subseteq Predictions
  /\ Actuals \subseteq Nat /\ Markets \subseteq 0..10
  /\ Shown \in Nat \ {0, 1} /\ {MaxQuotes, MaxResults, MaxTime} \subseteq Nat

VARIABLES
  now,
  targets,         \* [Predictions -> targets, {} before the capture]
  opportunities,   \* qualified quotes of targets, by book
  prices,          \* what each observation of the first opportunity holds
  outcomes         \* the outcome chain of each prediction

vars == <<now, targets, opportunities, prices, outcomes>>

Captured == {p \in Predictions : targets[p] # {}}

----------------------------------------------------------------------------
(* Grading.                                                                  *)

Tip(p) == outcomes[p][Len(outcomes[p])]
Settled(p) == outcomes[p] # <<>>
Status(p) == IF Settled(p) THEN "SETTLED"
             ELSE IF Kickoff[p] > now THEN "UPCOMING" ELSE "EXPIRED_UNSETTLED"

(* A whole line pushes on equality.                                          *)
Grade(t, actual) ==
  IF actual = t.line THEN "PUSH"
  ELSE IF (actual > t.line) = (t.direction = "OVER") THEN "WIN" ELSE "LOSS"
TargetResult(p, t) == IF Settled(p) /\ t.supported THEN Grade(t, Tip(p)) ELSE "NONE"

(* The first record of the chain keeps counting.                             *)
MutantOpportunityResult(o) ==
  IF Settled(o.prediction) THEN Grade(o.target, outcomes[o.prediction][1]) ELSE "NONE"

OpportunityResult(o) == TargetResult(o.prediction, o.target)

----------------------------------------------------------------------------
(* read_performance.                                                         *)

Counted == Captured \ Research
AllTargets == UNION {{<<p, t>> : t \in targets[p]} : p \in Captured}
Supported == {x \in AllTargets : x[2].supported}
(* A pushed target does not count as settled.                                *)
MutantGraded == {x \in Supported : TargetResult(x[1], x[2]) \in {"WIN", "LOSS"}}

Graded == {x \in Supported : TargetResult(x[1], x[2]) # "NONE"}
Scored == {x \in Graded : TargetResult(x[1], x[2]) \in {"WIN", "LOSS"}}

Bounds == <<0, 5, 6, 7, 8, 10>>

(* The last bucket is half open like the others.                             *)
MutantBucket(i) ==
  {x \in Scored : Bounds[i] <= x[2].probability /\ x[2].probability < Bounds[i + 1]}

Bucket(i) ==
  {x \in Scored : /\ Bounds[i] <= x[2].probability
                  /\ x[2].probability < Bounds[i + 1] \/ (i = 5 /\ x[2].probability <= 10)}

ResultsOf(result) == {o \in opportunities : OpportunityResult(o) = result}
Open == {o \in opportunities : OpportunityResult(o) = "NONE"}

(* The fields of the report that count.                                      *)
Performance ==
  [predictions |-> Cardinality(Counted),
   settledPredictions |-> Cardinality({p \in Counted : Settled(p)}),
   supported |-> Cardinality(Supported), graded |-> Cardinality(Graded),
   scored |-> Cardinality(Scored), pushes |-> Cardinality(Graded) - Cardinality(Scored),
   buckets |-> [i \in 1..5 |-> Cardinality(Bucket(i))],
   events |-> Cardinality(opportunities),
   wins |-> Cardinality(ResultsOf("WIN")), losses |-> Cardinality(ResultsOf("LOSS")),
   eventPushes |-> Cardinality(ResultsOf("PUSH")), open |-> Cardinality(Open)]

----------------------------------------------------------------------------
(* The detail of the first opportunity: the prices at its line since, how    *)
(* the market moved, and the prices that are shown.                          *)

Snapshots == SelectSeq(prices, LAMBDA q : q # Absent)
Paired(snapshots) == {i \in DOMAIN snapshots : snapshots[i] # Alone}
LaterPaired(snapshots) == Paired(snapshots) \ {1}

Distance(a, b) == IF a > b THEN a - b ELSE b - a
Movement(snapshots, decisive) ==
  IF LaterPaired(snapshots) = {}
  THEN [status |-> IF Len(snapshots) > 1 THEN "UNAVAILABLE" ELSE "NO_LATER_OBSERVATION",
        latest |-> 0]
  ELSE LET latest == Max(LaterPaired(snapshots))
           before == Distance(decisive, snapshots[1])
           after == Distance(decisive, snapshots[latest])
       IN [status |-> IF after < before THEN "TOWARD_ZENO"
                      ELSE IF after > before THEN "AWAY_FROM_ZENO" ELSE "UNCHANGED",
           latest |-> latest]

(* Only the first and the newest prices are kept.                            *)
MutantRetained(snapshots) ==
  {i \in DOMAIN snapshots : i = 1 \/ i > Len(snapshots) - (Shown - 1)}

Retained(snapshots) ==
  LET n == Len(snapshots)
      newest == {1} \cup (n - Shown + 2)..n
  IN IF n <= Shown THEN DOMAIN snapshots
     ELSE IF LaterPaired(snapshots) = {} \/ Max(LaterPaired(snapshots)) \in newest THEN newest
     ELSE (newest \ {n - Shown + 2}) \cup {Max(LaterPaired(snapshots))}

----------------------------------------------------------------------------
Init ==
  /\ now = 0 /\ targets = [p \in Predictions |-> {}]
  /\ opportunities = {} /\ prices = <<>>
  /\ outcomes = [p \in Predictions |-> <<>>]

(* A capture before the kick-off, its targets and what qualified at once.    *)
CapturePrediction(p) ==
  /\ targets[p] = {} /\ now < Kickoff[p]
  /\ \E chosen \in TargetChoices :
       /\ targets' = [targets EXCEPT ![p] = chosen]
       /\ \E qualified \in SUBSET {t \in chosen : t.supported} :
            opportunities' = opportunities \cup
              {[prediction |-> p, target |-> t, observation |-> 1] : t \in qualified}
  /\ UNCHANGED <<now, prices, outcomes>>

(* An observation qualifies for targets the model does not support.          *)
MutantObserveLater(p) ==
  /\ targets[p] # {} /\ now < Kickoff[p]
  /\ \E t \in targets[p] :
       opportunities' = opportunities \cup
         {[prediction |-> p, target |-> t, observation |-> 2]}
  /\ UNCHANGED <<now, targets, prices, outcomes>>

(* A later observation: another opportunity on the same target, and what it  *)
(* holds at the line of the first.                                           *)
ObserveLater(p) ==
  /\ targets[p] # {} /\ now < Kickoff[p]
  /\ \E t \in {t \in targets[p] : t.supported} :
       opportunities' = opportunities \cup
         {[prediction |-> p, target |-> t, observation |-> 2]}
  /\ UNCHANGED <<now, targets, prices, outcomes>>

(* The qualifying observation of the first opportunity holds a pair.         *)
ObservePrice ==
  /\ opportunities # {} /\ Len(prices) < MaxQuotes
  /\ \E q \in IF prices = <<>> THEN Markets ELSE Prices : prices' = Append(prices, q)
  /\ UNCHANGED <<now, targets, opportunities, outcomes>>

Settle(p) ==
  /\ targets[p] # {} /\ now > Kickoff[p] /\ Len(outcomes[p]) < MaxResults
  /\ \E a \in Actuals : outcomes' = [outcomes EXCEPT ![p] = Append(@, a)]
  /\ UNCHANGED <<now, targets, opportunities, prices>>

Tick == now < MaxTime /\ now' = now + 1 /\ UNCHANGED <<targets, opportunities, prices, outcomes>>

Next ==
  \/ \E p \in Predictions : CapturePrediction(p) \/ ObserveLater(p) \/ Settle(p)
  \/ ObservePrice \/ Tick

Spec == Init /\ [][Next]_vars

----------------------------------------------------------------------------
TypeOK ==
  /\ now \in 0..MaxTime /\ prices \in Seq(Prices)
  /\ \A p \in Predictions : outcomes[p] \in Seq(Actuals)
  /\ \A o \in opportunities : o.target \in targets[o.prediction] /\ o.target.supported

Sum5(f) == f[1] + f[2] + f[3] + f[4] + f[5]

(* The report adds up: every decisive target is in exactly one calibration   *)
(* bucket, graded and open opportunities make up all events, and an          *)
(* opportunity is won exactly when the target it rests on is                 *)
(* (read_performance, _locked_inventory).                                    *)
PerformanceAddsUp ==
  LET r == Performance IN
  /\ Sum5(r.buckets) = r.scored /\ r.scored + r.pushes = r.graded
  /\ r.wins + r.losses + r.eventPushes + r.open = r.events
  /\ \A x \in Supported : \A o \in opportunities :
       <<o.prediction, o.target>> = x =>
         OpportunityResult(o) = (IF x \in Graded THEN Grade(x[2], Tip(x[1])) ELSE "NONE")
  /\ r.graded = Cardinality({x \in Supported : Status(x[1]) = "SETTLED"})

(* A correction moves results, never what was counted.                       *)
CorrectionsKeepPopulation ==
  outcomes' # outcomes =>
       LET before == Performance
           after == Performance'
       IN /\ after.events = before.events /\ after.supported = before.supported
          /\ after.predictions = before.predictions
          /\ after.graded >= before.graded /\ after.open <= before.open

(* The browser can check the market movement against the prices it is shown: *)
(* they include the first, the one the summary compares with, and no more    *)
(* than Shown (_retained_snapshots).                                         *)
SummaryIsShown ==
  prices # <<>> =>
    LET kept == Retained(Snapshots)
        latest == Movement(Snapshots, 5).latest
    IN /\ 1 \in kept /\ latest \in kept \cup {0} /\ Cardinality(kept) <= Shown
       /\ Len(Snapshots) \in kept
       /\ \A i \in Paired(Snapshots) : i <= latest \/ i = 1
=============================================================================
