---------------------- MODULE PublishedRecommendations ----------------------
(* First publications of the independent strategies for one fixture          *)
(* (published_recommendations.py, pick_strategies.py,                        *)
(* settlement_reviews.py).  The prospective runner owns runner.lock for its  *)
(* whole run and publishes under the ledger lock; a manual capture only      *)
(* takes the ledger lock to write its analysis, which the inventory of a     *)
(* later run materialises.  Readers take both locks, so they read between    *)
(* runs, and validate each publication by replaying the prices at its time.  *)
(*                                                                           *)
(* Every target is a line of one team market, so a strategy has one slot.    *)
EXTENDS MarketIntelligence, Sequences

CONSTANTS
  Strategies,
  Likely,        \* targets whose win probability reaches .65
  Actuals,       \* corner counts a result may have
  MaxManual, MaxResults, MaxVoids   \* bounds

VARIABLES
  runner,        \* "idle", "run" or "publish": runner.lock, then ledger lock
  manual,        \* captures of an operator
  inHand,        \* the response the run works on: {} or a singleton
  effective,     \* activation record: 0 or its time
  batch,         \* the picks chosen by the publication under way
  prepared,      \* the record about to be linked: {} or a singleton
  publications,  \* records on disk
  results,       \* the outcome chain: times and corner counts
  calendars,     \* retrieval times of calendars that show the fixture cancelled
  voids,         \* review records
  served         \* history variable: a report once served, by its asOf

pubVars == <<runner, manual, inHand, effective, batch, prepared, publications, results,
             calendars, voids, served>>
allVars == <<vars, pubVars>>

----------------------------------------------------------------------------
(* A revised line gets a slot of its own.                                    *)
MutantSlot(strategy, offer) == <<strategy, offer.target>>

(* Selection: the first of the ranking in each slot, the second strategy     *)
(* among its likely targets.                                                 *)
Slot(strategy, offer) == strategy

Candidates(strategy, asOf) ==
  {o \in Shortlist(asOf) : strategy = "higher_probability" => o.target \in Likely}
First(strategy, asOf) ==
  {o \in Candidates(strategy, asOf) : \A q \in Candidates(strategy, asOf) \ {o} : Ranks(o, q)}
Chosen(asOf) == UNION {{<<s, o>> : o \in First(s, asOf)} : s \in Strategies}
Existing == {Slot(p.strategy, p.offer) : p \in publications}

(* read: the record must agree with the offer its own time shows, whose only *)
(* fault may be its age.                                                     *)
Evidence(o) == [o EXCEPT !.reasons = {}, !.current = FALSE]
Replays(p) ==
  \E o \in View(p.offer.prediction, p.at) :
    /\ Evidence(o) = Evidence(p.offer) /\ o.reasons \subseteq {"STALE_RETRIEVAL"}

Outcome(asOf) ==
  LET known == {i \in DOMAIN results : results[i].at <= asOf}
  IN IF known = {} THEN {} ELSE {results[CHOOSE i \in known : \A j \in known : j <= i].actual}
Settled(p, asOf) ==
  IF Outcome(asOf) = {} THEN "PENDING"
  ELSE CHOOSE r \in {"WIN", "LOSS", "PUSH"} : \A a \in Outcome(asOf) :
         r = CASE a > p.offer.target -> "WIN" [] a < p.offer.target -> "LOSS" [] OTHER -> "PUSH"

(* Voids of the future are shown as soon as they are on disk.                *)
MutantVoided(p, asOf) == \E v \in voids : v.publication = p

Voided(p, asOf) == \E v \in voids : v.publication = p /\ v.at <= asOf

Result(p, asOf) == IF Voided(p, asOf) THEN "SIMULATION_VOID" ELSE Settled(p, asOf)
Report(asOf) ==
  LET members == {p \in publications : p.at <= asOf}
  IN IF \A p \in members : Replays(p) THEN {<<p, Result(p, asOf)>> : p \in members}
     ELSE {"INVALID_PUBLISHED_RECOMMENDATION"}

----------------------------------------------------------------------------
PubInit ==
  /\ Init
  /\ runner = "idle" /\ effective = 0 /\ results = <<>>
  /\ manual = {} /\ inHand = {} /\ batch = {} /\ prepared = {}
  /\ publications = {} /\ calendars = {} /\ voids = {}
  /\ served = <<>>

Keep == UNCHANGED <<runner, manual, inHand, effective, batch, prepared, publications,
                    results, calendars, voids, served>>

(* The inventory of a run materialises every analysis it finds.              *)
BeginRun ==
  /\ runner = "idle" /\ now < Kickoff
  /\ runner' = "run"
  /\ observed' = observed \cup Saved /\ predicted' = predicted \cup Saved
  /\ UNCHANGED <<now, captures, manual, inHand, effective, batch, prepared,
                 publications, results, calendars, voids, served>>

(* No prices are retrieved at the very instant of an earlier publication.    *)
Instant == \A p \in publications \cup prepared : p.at < now

RunnerRetrieve(c) ==
  /\ runner = "run" /\ Instant
  /\ Retrieve(c)
  /\ inHand' = {c}
  /\ UNCHANGED <<runner, manual, effective, batch, prepared, publications,
                 results, calendars, voids, served>>

(* The observation is stored first, then perhaps the analysis and its        *)
(* prediction.                                                               *)
Working(c) == runner = "run" /\ c \in inHand
RunnerObserve(c) == Working(c) /\ Observe(c) /\ Keep
RunnerSave(c) == Working(c) /\ c \in observed /\ Save(c) /\ Keep
RunnerPredict(c) == Working(c) /\ Predict(c) /\ Keep

ManualRetrieve(c) ==
  /\ Cardinality(manual) < MaxManual /\ Instant
  /\ Retrieve(c)
  /\ manual' = manual \cup {c}
  /\ UNCHANGED <<runner, inHand, effective, batch, prepared, publications, results,
                 calendars, voids, served>>
ManualSave(c) == c \in manual /\ runner # "publish" /\ Save(c) /\ Keep

(* Published while the run is still at work on a fixture.                    *)
MutantBeginPublish ==
  /\ runner = "run"
  /\ runner' = "publish"
  /\ effective' = IF effective = 0 THEN now ELSE effective
  /\ batch' = {c \in Chosen(now) : Slot(c[1], c[2]) \notin Existing}
  /\ UNCHANGED <<vars, manual, inHand, prepared, publications, results,
                 calendars, voids, served>>

(* publish_locked: the ledger lock is held from here to the last link.       *)
BeginPublish ==
  /\ runner = "run"
  /\ runner' = "publish" /\ inHand' = {}
  /\ effective' = IF effective = 0 THEN now ELSE effective
  /\ batch' = {c \in Chosen(now) : Slot(c[1], c[2]) \notin Existing}
  /\ UNCHANGED <<vars, manual, prepared, publications, results, calendars, voids, served>>

(* The clock is read for the record and again just before the link.          *)
Prepare(c) ==
  /\ runner = "publish" /\ c \in batch /\ prepared = {}
  /\ batch' = batch \ {c}
  /\ prepared' = IF now < Kickoff THEN {[strategy |-> c[1], offer |-> c[2], at |-> now]} ELSE {}
  /\ UNCHANGED <<vars, runner, manual, inHand, effective, publications, results,
                 calendars, voids, served>>

(* The clock is read only once.                                              *)
MutantLink(p) ==
  /\ runner = "publish" /\ p \in prepared
  /\ prepared' = {} /\ publications' = publications \cup {p}
  /\ UNCHANGED <<vars, runner, manual, inHand, effective, batch, results, calendars, voids, served>>

Link(p) ==
  /\ runner = "publish" /\ p \in prepared
  /\ prepared' = {}
  /\ IF now < Kickoff
     THEN publications' = publications \cup {p} /\ UNCHANGED <<batch, runner>>
     ELSE batch' = {} /\ runner' = "run" /\ UNCHANGED publications
  /\ UNCHANGED <<vars, manual, inHand, effective, results, calendars, voids, served>>

EndPublish ==
  /\ runner = "publish" /\ batch = {} /\ prepared = {}
  /\ runner' = "run"
  /\ UNCHANGED <<vars, manual, inHand, effective, batch, prepared, publications,
                 results, calendars, voids, served>>

(* What was chosen is kept for the next run.                                 *)
MutantEndRun ==
  /\ runner # "idle"
  /\ runner' = "idle" /\ inHand' = {}
  /\ UNCHANGED <<vars, manual, batch, prepared, effective, publications, results,
                 calendars, voids, served>>

(* The run ends, fails or dies; what it was about to link is gone.           *)
EndRun ==
  /\ runner # "idle"
  /\ runner' = "idle" /\ inHand' = {} /\ batch' = {} /\ prepared' = {}
  /\ UNCHANGED <<vars, manual, effective, publications, results, calendars, voids, served>>

(* An outcome or a correction is recorded under the ledger lock.             *)
RecordResult(actual) ==
  /\ runner # "publish" /\ now > Kickoff /\ Len(results) < MaxResults
  /\ results' = Append(results, [at |-> now, actual |-> actual])
  /\ UNCHANGED <<vars, runner, manual, inHand, effective, batch, prepared, publications,
                 calendars, voids, served>>

Cancelled ==
  /\ Cardinality(calendars) < MaxVoids /\ publications # {}
  /\ calendars' = calendars \cup {now}
  /\ UNCHANGED <<vars, runner, manual, inHand, effective, batch, prepared, publications,
                 results, voids, served>>

(* Any cancelled calendar will do, and any number of reviews.                *)
MutantReviewVoid(p, calendar) ==
  /\ runner = "idle" /\ Report(now) # {"INVALID_PUBLISHED_RECOMMENDATION"}
  /\ Cardinality(voids) < 2
  /\ voids' = voids \cup {[publication |-> p, calendar |-> calendar, at |-> now]}
  /\ UNCHANGED <<vars, runner, manual, inHand, effective, batch, prepared, publications, results,
                 calendars, served>>

(* review_void: the feed must be readable, and the calendar retrieved after  *)
(* the publication; a second review must repeat the first.                   *)
ReviewVoid(p, calendar) ==
  /\ runner = "idle" /\ Report(now) # {"INVALID_PUBLISHED_RECOMMENDATION"}
  /\ ~\E v \in voids : v.publication = p
  /\ p.at <= calendar
  /\ voids' = voids \cup {[publication |-> p, calendar |-> calendar, at |-> now]}
  /\ UNCHANGED <<vars, runner, manual, inHand, effective, batch, prepared, publications,
                 results, calendars, served>>

(* A reader asks for an earlier moment; one answer is remembered.            *)
Serve(asOf) ==
  /\ runner = "idle" /\ asOf < now /\ served = <<>>
  /\ served' = [t \in {asOf} |-> Report(asOf)]
  /\ UNCHANGED <<vars, runner, manual, inHand, effective, batch, prepared, publications,
                 results, calendars, voids>>

Pass == Tick /\ Keep

PubNext ==
  \/ BeginRun \/ BeginPublish \/ EndPublish \/ EndRun \/ Pass \/ Cancelled
  \/ \E c \in Captures : RunnerRetrieve(c) \/ ManualRetrieve(c)
  \/ \E c \in DOMAIN captures :
       RunnerObserve(c) \/ RunnerSave(c) \/ RunnerPredict(c) \/ ManualSave(c)
  \/ \E c \in batch : Prepare(c)
  \/ \E p \in prepared : Link(p)
  \/ \E a \in Actuals : RecordResult(a)
  \/ \E p \in publications, k \in calendars : ReviewVoid(p, k)
  \/ \E t \in Times : Serve(t)

PubSpec == PubInit /\ [][PubNext]_allVars

----------------------------------------------------------------------------
PubTypeOK ==
  /\ TypeOK
  /\ runner \in {"idle", "run", "publish"} /\ manual \subseteq DOMAIN captures
  /\ effective \in 0..MaxTime /\ calendars \subseteq 1..MaxTime
  /\ \A p \in publications \cup prepared : p.strategy \in Strategies /\ p.at \in 1..MaxTime
  /\ \A v \in voids : v.publication \in publications /\ v.calendar \in calendars
  /\ (runner # "publish") => batch = {} /\ prepared = {}

(* A strategy publishes once for a team market, whatever line, direction,    *)
(* book or prediction a later run would prefer (published_recommendations    *)
(* _identity).                                                               *)
OnePickPerSlot ==
  \A p, q \in publications : p.strategy = q.strategy => p = q

(* A publication appears before the kick-off, dated after the activation of  *)
(* the policy, its forecast and its prices, and never changes again.         *)
PublishedInTime ==
  /\ publications \subseteq publications'
  /\ \A p \in publications' \ publications :
       /\ now < Kickoff /\ effective <= p.at /\ p.at <= now
       /\ Capture(p.offer.prediction).created <= p.at
       /\ Capture(p.offer.observation).retrieved <= p.offer.checked /\ p.offer.checked <= p.at

(* Every publication can be replayed from the evidence that came to be       *)
(* stored.                                                                   *)
PublicationsReplay == runner = "idle" => \A p \in publications : Replays(p)

(* A report served for an earlier moment is served again: later corrections, *)
(* voids and publications do not reach back.                                 *)
ServedReportsStand ==
  runner = "idle" => \A t \in DOMAIN served : served[t] = Report(t)

(* A void rests on a cancellation learnt after its publication, and a        *)
(* publication has at most one.                                              *)
VoidsJustified ==
  /\ \A v \in voids : v.publication.at <= v.calendar /\ v.calendar <= v.at
  /\ \A v, w \in voids : v.publication = w.publication => v = w
=============================================================================
