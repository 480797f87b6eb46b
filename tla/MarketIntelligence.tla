------------------------- MODULE MarketIntelligence -------------------------
(* What a reader makes of the prices stored for one fixture                 *)
(* (corner_market_intelligence.py, recorded_offers.py).  A client retrieves *)
(* prices; the runner stores them as an observation and may have them       *)
(* analysed, an operator has them analysed first; the analysis gives a      *)
(* prediction, and the observation if there is none yet.  All of it happens *)
(* after the retrieval, so observations reach the reader in any order.      *)
(*                                                                          *)
(* A target is a line and a direction; a quote says what an observation     *)
(* holds for one target at one book:                                        *)
(*   "none"              nothing                                            *)
(*   "issue", "unusable" the outcome or the whole family cannot be used     *)
(*   "review"            listed, with decimal and American odds at odds     *)
(*   "lone"              listed without the opposite side                   *)
(*   "low", "high"       listed as a pair, at two prices                    *)
EXTENDS Naturals, FiniteSets

CONSTANTS
  Targets,      \* a set of numbers: the order of the target ids
  Books,        \* a set of numbers: the alphabetical order of the bookmakers
  Answers,      \* what an observation may hold: [Targets \X Books -> Quotes]
  Needs,        \* least odds at which a prediction values a target
  Kickoff, MaxAge,
  Captures,     \* 1..n, bounds the captures; the order of the identifiers
  MaxTime       \* bound on time

Quotes == {"none", "issue", "unusable", "review", "lone", "low", "high"}
Listed == {"review", "lone", "low", "high"}
Odds == [q \in Listed |-> IF q = "low" THEN 1 ELSE 2]

ConstantsAssumption ==
  /\ Targets \subseteq Nat /\ Books \subseteq Nat /\ Captures \subseteq Nat
  /\ Answers \subseteq [Targets \X Books -> Quotes] /\ Needs \subseteq Nat
  /\ Kickoff \in Nat /\ MaxAge \in Nat /\ MaxTime \in Nat

VARIABLES
  now,
  captures,     \* what clients retrieved, with the time of an analysis of it
  observed,     \* those stored as an observation
  predicted     \* those whose analysis is stored as a prediction

vars == <<now, captures, observed, predicted>>

Saved == {c \in DOMAIN captures : captures[c].created # 0}
Capture(c) == captures[c]

----------------------------------------------------------------------------
(* The view of one prediction from a set of observations.                   *)

Before(c, d) ==
  \/ Capture(c).retrieved < Capture(d).retrieved
  \/ Capture(c).retrieved = Capture(d).retrieved /\ c < d
Latest(set) == CHOOSE c \in set : \A d \in set : d = c \/ Before(d, c)

(* prediction_observations: the source of the prediction and what was       *)
(* retrieved after it was made.                                             *)
PredictionObservations(p) ==
  {p} \cup {c \in observed : /\ Before(p, c)
                             /\ Capture(c).retrieved > Capture(p).retrieved
                             /\ Capture(c).retrieved >= Capture(p).created}

(* A stale answer: one that looks at every observation, also later ones.    *)
MutantVisible(p, asOf) == PredictionObservations(p)

Visible(p, asOf) == {c \in PredictionObservations(p) : Capture(c).retrieved <= asOf}

Quote(c, s) == Capture(c).quotes[s]

(* An older listing that agrees with itself is preferred to a newer one     *)
(* under review.                                                            *)
MutantLatestListings(p, s, asOf) ==
  LET listing == {c \in Visible(p, asOf) : Quote(c, s) \in Listed \ {"review"}}
  IN IF Capture(p).created > asOf \/ listing = {} THEN {} ELSE {Latest(listing)}

(* The latest listing of a target at a book, whatever came afterwards.      *)
LatestListings(p, s, asOf) ==
  LET listing == {c \in Visible(p, asOf) : Quote(c, s) \in Listed}
  IN IF Capture(p).created > asOf \/ listing = {} THEN {} ELSE {Latest(listing)}

(* Only negative evidence ends an availability.                             *)
MutantAvailability(p, s, c, asOf) ==
  LET later == {d \in Visible(p, asOf) : d = c \/ Before(c, d)}
  IN IF Quote(Latest(later), s) \in {"issue", "unusable"} THEN "UNAVAILABLE"
     ELSE "AVAILABLE"

(* _availability walks the observations from the one of the offer on and    *)
(* keeps what the last of them says.                                        *)
Availability(p, s, c, asOf) ==
  LET last == Latest({d \in Visible(p, asOf) : d = c \/ Before(c, d)})
  IN CASE Quote(last, s) \in {"issue", "unusable"} -> "UNAVAILABLE"
       [] Quote(last, s) \in Listed -> "AVAILABLE"
       [] OTHER -> "UNKNOWN"

CheckedAt(p, asOf) == Capture(Latest(Visible(p, asOf))).retrieved

Qualified(p, s, c) == Quote(c, s) \in {"low", "high"} /\ Odds[Quote(c, s)] >= Capture(p).need
PositiveValue(p, s, c) == Quote(c, s) # "review" /\ Odds[Quote(c, s)] >= Capture(p).need

(* An offer with the reasons that keep it from being current or from being  *)
(* recommended.                                                             *)
Reasons(p, s, c, asOf) ==
  {r \in {"REVIEW", "NOT_PRE_KICKOFF", "STALE_RETRIEVAL", "UNAVAILABLE"} :
     CASE r = "REVIEW" -> Quote(c, s) = "review"
       [] r = "NOT_PRE_KICKOFF" -> asOf >= Kickoff
       [] r = "STALE_RETRIEVAL" -> asOf > Capture(c).retrieved + MaxAge
       [] OTHER -> Availability(p, s, c, asOf) # "AVAILABLE"}
RecommendationReasons(p, s, c, asOf) ==
  Reasons(p, s, c, asOf)
    \cup {r \in {"NOT_QUALIFIED", "NONPOSITIVE_EV"} :
            IF r = "NOT_QUALIFIED" THEN ~Qualified(p, s, c) ELSE ~PositiveValue(p, s, c)}

Offer(p, s, c, asOf) ==
  [prediction |-> p, target |-> s[1], book |-> s[2], observation |-> c,
   odds |-> Odds[Quote(c, s)], checked |-> CheckedAt(p, asOf),
   supported |-> Quote(c, s) # "review", availability |-> Availability(p, s, c, asOf),
   current |-> Reasons(p, s, c, asOf) = {},
   reasons |-> RecommendationReasons(p, s, c, asOf),
   value |-> Odds[Quote(c, s)] - Capture(p).need]

(* market_intelligence_from_snapshot.                                       *)
View(p, asOf) ==
  UNION {{Offer(p, s, c, asOf) : c \in LatestListings(p, s, asOf)} : s \in Targets \X Books}

----------------------------------------------------------------------------
(* Choosing among offers.                                                   *)

BetterPrice(a, b) == a.odds > b.odds \/ (a.odds = b.odds /\ a.book < b.book)

MutantBestPerTarget(offers) ==
  {a \in offers : \A b \in offers :
     (a.prediction = b.prediction /\ a.target = b.target) => a.odds >= b.odds}

(* The best book of each target among offers that may be acted upon.        *)
BestPerTarget(offers) ==
  {a \in offers : \A b \in offers :
     (a # b /\ a.prediction = b.prediction /\ a.target = b.target) => BetterPrice(a, b)}
Recommended(offers) == {a \in offers : a.reasons = {}}
BestRecommendations(offers) == BestPerTarget(Recommended(offers))

Ranks(a, b) ==    \* a is listed before b
  \/ a.value > b.value
  \/ a.value = b.value /\ a.target < b.target
  \/ a.value = b.value /\ a.target = b.target /\ a.book < b.book

(* recorded_offers.project: a fixture shows its latest capture.  What it    *)
(* shows once a result is known is the same as after the kick-off.          *)
Newest(ps) == CHOOSE p \in ps : \A q \in ps :
  \/ q = p
  \/ Capture(q).created < Capture(p).created
  \/ Capture(q).created = Capture(p).created /\ q < p
MadeBy(asOf) == {p \in predicted : Capture(p).created <= asOf}
Primary(asOf) == IF MadeBy(asOf) = {} THEN {} ELSE {Newest(MadeBy(asOf))}

Status(offer, asOf) ==
  IF asOf >= Kickoff THEN "HISTORICAL"
  ELSE IF offer.availability = "UNAVAILABLE" THEN "QUOTE_UNAVAILABLE"
  ELSE IF ~offer.supported THEN "REVIEW_REQUIRED"
  ELSE IF ~offer.current THEN "PRICE_NEEDS_RECHECKING"
  ELSE IF offer.reasons = {} THEN "RECENT_QUALIFYING" ELSE "NO_QUALIFYING_EDGE"

Board(asOf) ==
  UNION {{[offer |-> o, status |-> Status(o, asOf),
           recommended |-> asOf < Kickoff /\ o \in BestRecommendations(View(p, asOf))] :
            o \in View(p, asOf)} : p \in Primary(asOf)}

(* upcoming_captures chooses the capture before anything else is read; the  *)
(* shortlist then admits a recommendation whose only fault is its age.      *)
UpcomingCaptures(asOf) ==
  IF asOf >= Kickoff \/ MadeBy(asOf) = {} THEN {} ELSE {Newest(MadeBy(asOf))}
(* Unknown availability is relaxed as well.                                 *)
MutantRelaxed(offers) ==
  {o \in offers : o.reasons \ {"STALE_RETRIEVAL"} \subseteq
                    (IF o.availability = "UNKNOWN" THEN {"UNAVAILABLE"} ELSE {})}

Relaxed(offers) == {o \in offers : o.reasons \subseteq {"STALE_RETRIEVAL"}}

Shortlist(asOf) == UNION {BestPerTarget(Relaxed(View(p, asOf))) : p \in UpcomingCaptures(asOf)}

----------------------------------------------------------------------------
Init == now = 1 /\ captures = <<>> /\ observed = {} /\ predicted = {}

(* A client has retrieved the prices of the fixture.                        *)
Retrieve(c) ==
  /\ c = Cardinality(DOMAIN captures) + 1 /\ now < Kickoff
  /\ \E quotes \in Answers, need \in Needs :
       captures' = [d \in DOMAIN captures \cup {c} |->
                      IF d = c THEN [retrieved |-> now, created |-> 0, quotes |-> quotes, need |-> need]
                      ELSE captures[d]]
  /\ UNCHANGED <<now, observed, predicted>>

(* store_market_observation of the response in hand, or                     *)
(* store_observation_from_capture of its analysis.                          *)
Observe(c) ==
  /\ c \in DOMAIN captures \ observed
  /\ observed' = observed \cup {c}
  /\ UNCHANGED <<now, captures, predicted>>

(* The analysis of the response is written, while its quotes are fresh.     *)
Save(c) ==
  /\ c \in DOMAIN captures \ Saved /\ now < Kickoff /\ now <= Capture(c).retrieved + MaxAge
  /\ captures' = [captures EXCEPT ![c].created = now]
  /\ UNCHANGED <<now, observed, predicted>>

(* The prediction is stored and its source observation is not.              *)
MutantPredict(c) ==
  /\ c \in Saved \ predicted
  /\ predicted' = predicted \cup {c}
  /\ UNCHANGED <<now, captures, observed>>

(* store_prediction_from_capture; its source observation comes with it.     *)
Predict(c) ==
  /\ c \in Saved \ predicted
  /\ predicted' = predicted \cup {c} /\ observed' = observed \cup {c}
  /\ UNCHANGED <<now, captures>>

Tick == now < MaxTime /\ now' = now + 1 /\ UNCHANGED <<captures, observed, predicted>>

Next ==
  \/ \E c \in Captures : Retrieve(c)
  \/ \E c \in DOMAIN captures : Observe(c) \/ Save(c) \/ Predict(c)
  \/ Tick

Spec == Init /\ [][Next]_vars

----------------------------------------------------------------------------
Times == 1..now

TypeOK ==
  /\ now \in 1..MaxTime /\ predicted \subseteq observed \cap Saved
  /\ observed \subseteq DOMAIN captures
  /\ \A c \in DOMAIN captures : captures[c] \in
       [retrieved : 1..MaxTime, created : 0..MaxTime, quotes : Answers, need : Needs]

(* A price is current exactly when the newest observation a prediction may  *)
(* see lists it, with prices that agree, before the kick-off and not too    *)
(* long ago: a newer observation without it, an issue or a newer price      *)
(* under review never leaves an older price standing                        *)
(* (corner_market_intelligence.py, get_market_intelligence).                *)
CurrentIsLastWord ==
  \A p \in predicted : \A s \in Targets \X Books :
    LET after(c) == /\ Capture(c).retrieved >= Capture(p).created
                    /\ Capture(c).retrieved > Capture(p).retrieved
        seen == {c \in observed : c = p \/ after(c)}
        last == CHOOSE c \in seen : \A d \in seen \ {c} :
                  <<Capture(d).retrieved, d>> # <<Capture(c).retrieved, c>> /\ ~Before(c, d)
        current == {o \in View(p, now) : o.current /\ <<o.target, o.book>> = s}
    IN IF /\ Quote(last, s) \in {"lone", "low", "high"}
          /\ now < Kickoff /\ now - Capture(last).retrieved <= MaxAge
       THEN \E o \in current : (current = {o} /\ o.observation = last)
       ELSE current = {}

(* What was shown for an earlier moment stays what is shown for it, unless  *)
(* an observation of that time arrives late: later prices and predictions   *)
(* never change it (the reader excludes future observations).               *)
NoLookAhead ==
  \A t \in Times : \A p \in predicted :
       (\A c \in observed' \ observed : Capture(c).retrieved > t)
         => View(p, t)' = View(p, t)

(* The board recommends one book per target, at the best of the prices that *)
(* may be acted on, for the capture the shortlist reads too; and a fresh    *)
(* shortlist is exactly what the board recommends (recorded_offers.project  *)
(* and project_shortlist select separately).                                *)
BoardAndShortlistAgree ==
  LET recommended == {r \in Board(now) : r.recommended}
  IN /\ \A r \in recommended : r.status = "RECENT_QUALIFYING"
     /\ \A r, q \in recommended : r.offer.target = q.offer.target => r = q
     /\ \A r \in Board(now) : r.status = "RECENT_QUALIFYING" =>
          \E q \in recommended : q.offer.target = r.offer.target /\ q.offer.odds >= r.offer.odds
     /\ \A o \in Shortlist(now) : o \in {r.offer : r \in Board(now)}
     /\ {r.offer : r \in recommended} \subseteq Shortlist(now)

(* The shortlist forgives nothing but age: each of its offers was           *)
(* recommended at the moment its own capture had been written.              *)
ShortlistForgivesOnlyAge ==
  \A o \in Shortlist(now) :
    LET then == IF Capture(o.observation).retrieved > Capture(o.prediction).created
                THEN Capture(o.observation).retrieved ELSE Capture(o.prediction).created
    IN \E q \in View(o.prediction, then) :
         /\ q.reasons = {} /\ q.target = o.target /\ q.book = o.book /\ q.odds = o.odds
         /\ o.availability = "AVAILABLE"
=============================================================================
