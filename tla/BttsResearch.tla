---------------------------- MODULE BttsResearch ----------------------------
(***************************************************************************)
(* The prospective Both Teams To Score research: the collector freezes one *)
(* forecast per fixture before it asks for odds, records what it is then   *)
(* shown, whether or not a price is there, and publishes picks that every  *)
(* later read rebuilds from the records (btts_prospective.py,              *)
(* btts_research.py, published_btts.py and providers/oddspapi_btts.py).    *)
(*                                                                         *)
(* A book's coverage in one observation is Unknown, Unavailable or the     *)
(* decimal price of a complete pair.  The forecast's probability is fixed, *)
(* so a price qualifies exactly when it is at least MinPrice.  Records are *)
(* never removed.  A run may crash between any two of its steps, and an    *)
(* observation in its hands is then lost.                                  *)
(***************************************************************************)
EXTENDS Integers, FiniteSets, FiniteSetsExt

CONSTANTS
    Fixtures,
    Books,      \* bookmakers, in the order of their names
    MinPrice,   \* the least price that qualifies
    MaxPrice,   \* bound: prices
    MaxAge,     \* DEFAULT_MAX_OBSERVATION_AGE_SECONDS
    MaxRecords, \* MAX_RECORDS
    MaxTime,    \* bound: the model's clock
    MaxCrashes, \* bound
    None

ResearchAssumption ==
    /\ Books \subseteq Nat /\ Books /= {} /\ IsFiniteSet(Books)
    /\ MinPrice \in 1 .. MaxPrice /\ MaxRecords \in Nat \ {0}

Unavailable == -1
Unknown == 0
Coverage == [Books -> Unavailable .. MaxPrice]

VARIABLES
    now,
    kickoff,    \* the provider's kick-off of each fixture
    forecasts,  \* forecast-<id>.json: the frozen forecast of each fixture, or None
    records,    \* <id>.json: what was recorded
    retained,   \* when the corner store first kept an observation of the fixture, or None
    run,        \* the collector's run, or None
    picks,      \* the published BTTS picks
    crashes

vars == <<now, kickoff, forecasts, records, retained, run, picks, crashes>>

-----------------------------------------------------------------------------
(* The store.                                                              *)

Frozen == {f \in Fixtures : forecasts[f] /= None}

(* A saved forecast is reused as long as the fixture is the one it names.  *)
Reused(f) == forecasts[f] /= None /\ forecasts[f].kickoff = kickoff[f]

MutantFreezableLate(f) == forecasts[f] = None /\ Cardinality(Frozen) < MaxRecords
MutantFreezableAgain(f) ==
    /\ ~Reused(f)
    /\ Cardinality(Frozen) < MaxRecords
    /\ retained[f] = None
(* The factory is called only when nothing is saved, nothing of the        *)
(* fixture's odds has been kept, and there is room.                        *)
Freezable(f) ==
    /\ forecasts[f] = None
    /\ Cardinality(Frozen) < MaxRecords
    /\ retained[f] = None

(* comparisons_from_snapshot and the writer's checks.                      *)
MutantRecordable(f, o) ==
    /\ forecasts[f].kickoff = o.kickoff
    /\ forecasts[f].at < o.at
    /\ Cardinality(records) <= MaxRecords
Recordable(f, o) ==
    /\ forecasts[f].kickoff = o.kickoff
    /\ forecasts[f].at < o.at
    /\ Cardinality(records) < MaxRecords

-----------------------------------------------------------------------------
(* The views: what the records say as of a time.                           *)

MutantVisible(asOf) == records
Visible(asOf) == {r \in records : r.at <= asOf}

MutantLatestOf(f, asOf) ==
    LET mine == {r \in Visible(asOf) : r.fixture = f}
    IN  CHOOSE r \in mine : \A o \in mine : o.at >= r.at
LatestOf(f, asOf) ==
    LET mine == {r \in Visible(asOf) : r.fixture = f}
    IN  CHOOSE r \in mine : \A o \in mine : o.at <= r.at

current_status(r, b, asOf) ==
    LET current == LatestOf(r.fixture, asOf)
    IN  IF r.at > asOf THEN "FUTURE_OBSERVATION"
        ELSE IF asOf >= r.forecast.kickoff THEN "KICKED_OFF"
        ELSE IF current.books[b] = Unavailable THEN "UNAVAILABLE"
        ELSE IF current.books[b] = Unknown THEN "UNKNOWN"
        ELSE IF r /= current THEN "SUPERSEDED"
        ELSE IF asOf - r.at > MaxAge THEN "STALE" ELSE "AVAILABLE"

(* A comparison exists for a book with a complete pair.                    *)
Comparisons == {<<r, b>> \in records \X Books : r.books[b] > 0}

research_views(asOf) ==
    {[record |-> c[1], book |-> c[2], status |-> current_status(c[1], c[2], asOf)] : c \in Comparisons}

Better(v, w) ==
    \/ v.record.books[v.book] > w.record.books[w.book]
    \/ v.record.books[v.book] = w.record.books[w.book] /\ v.book < w.book
    \/ v.record.books[v.book] = w.record.books[w.book] /\ v.book = w.book /\ v.record.at > w.record.at

Ranked(views, f) ==
    {v \in views : /\ v.record.fixture = f
                   /\ \A w \in views : w.record.fixture = f /\ w /= v => Better(v, w)}

best_yes_price(f, asOf) == Ranked({v \in research_views(asOf) : v.status = "AVAILABLE"}, f)

(* A pick takes an otherwise current pair whatever its age.                *)
eligible(v) == v.record.books[v.book] >= MinPrice
select(f, asOf) ==
    {[fixture |-> f, book |-> v.book, retrieved |-> v.record.at, price |-> v.record.books[v.book]] :
        v \in Ranked({v \in research_views(asOf) : v.status \in {"AVAILABLE", "STALE"} /\ eligible(v)}, f)}

-----------------------------------------------------------------------------
Init ==
    /\ now = 0
    /\ kickoff = [f \in Fixtures |-> MaxTime]
    /\ forecasts = [f \in Fixtures |-> None]
    /\ records = {}
    /\ retained = [f \in Fixtures |-> None]
    /\ run = None
    /\ picks = {}
    /\ crashes = 0

Tick ==
    /\ now < MaxTime
    /\ now' = now + 1
    /\ UNCHANGED <<kickoff, forecasts, records, retained, run, picks, crashes>>

(* The provider brings a kick-off forward.                                 *)
Reschedule(f) ==
    /\ kickoff[f] = MaxTime /\ now < MaxTime - 1
    /\ kickoff' = [kickoff EXCEPT ![f] = MaxTime - 1]
    /\ UNCHANGED <<now, forecasts, records, retained, run, picks, crashes>>

Goto(place) == [run EXCEPT !.pc = place]
MutantReview(place) == [run EXCEPT !.pc = "review", !.review = TRUE]
Review(place) == [run EXCEPT !.pc = place, !.review = TRUE]

Begin ==
    /\ run = None
    /\ run' = [pc |-> "choose", fixture |-> None, forecast |-> FALSE, seen |-> None,
               acquired |-> [f \in Fixtures |-> None], review |-> FALSE]
    /\ UNCHANGED <<now, kickoff, forecasts, records, retained, picks, crashes>>

(* prepare: freeze, durably, before the request.  The history may be       *)
(* unavailable or too short; a saved forecast of another kick-off stays.   *)
Prepare(f) ==
    /\ run /= None /\ run.pc = "choose" /\ now < kickoff[f] /\ run.acquired[f] = None
    /\ \/ /\ Reused(f)
          /\ run' = [run EXCEPT !.pc = "request", !.fixture = f, !.forecast = TRUE]
          /\ UNCHANGED forecasts
       \/ /\ Freezable(f)
          /\ forecasts' = [forecasts EXCEPT ![f] = [at |-> now, kickoff |-> kickoff[f]]]
          /\ run' = [run EXCEPT !.pc = "request", !.fixture = f, !.forecast = TRUE]
       \/ /\ ~Reused(f)
          /\ run' = [run EXCEPT !.pc = "request", !.fixture = f, !.forecast = FALSE, !.review = TRUE]
          /\ UNCHANGED forecasts
    /\ UNCHANGED <<now, kickoff, records, retained, picks, crashes>>

(* The one response, for corners and for BTTS.  Slots are coarse: the clock*)
(* moves between a record or a publication and the next request.           *)
ClockMoved(f) ==
    /\ \A r \in records : r.fixture = f => r.at < now
    /\ \A p \in picks : p.at < now

Request(books) ==
    /\ run /= None /\ run.pc = "request" /\ now < kickoff[run.fixture]
    /\ ClockMoved(run.fixture)
    /\ run' = [run EXCEPT !.pc = "observe", !.acquired[run.fixture] = now,
                          !.seen = [at |-> now, kickoff |-> kickoff[run.fixture], books |-> books]]
    /\ UNCHANGED <<now, kickoff, forecasts, records, retained, picks, crashes>>

(* observe: record what was shown, priced or not; a response that cannot be*)
(* read, or a record the store refuses, is a review.                       *)
Observe ==
    /\ run /= None /\ run.pc = "observe"
    /\ \/ /\ run.forecast /\ Recordable(run.fixture, run.seen)
          /\ records' = records \cup {[fixture |-> run.fixture, forecast |-> forecasts[run.fixture],
                                       at |-> run.seen.at, books |-> run.seen.books]}
          /\ run' = Goto("store")
       \/ run.forecast /\ run' = Review("store") /\ UNCHANGED records
       \/ ~run.forecast /\ run' = Goto("store") /\ UNCHANGED records
    /\ UNCHANGED <<now, kickoff, forecasts, retained, picks, crashes>>

(* The corner store keeps the same response.                               *)
Store ==
    /\ run /= None /\ run.pc = "store"
    /\ retained' = [retained EXCEPT ![run.fixture] = IF @ = None THEN run.seen.at ELSE @]
    /\ run' = [run EXCEPT !.pc = "publish", !.seen = None]
    /\ UNCHANGED <<now, kickoff, forecasts, records, picks, crashes>>

(* The checkpoint after each fixture.  A run under review publishes no     *)
(* BTTS pick; a published pick is never replaced.                          *)
MutantIncludeBtts == TRUE
IncludeBtts == ~run.review
publish_locked ==
    /\ run /= None /\ run.pc = "publish"
    /\ picks' = picks \cup
           UNION {IF /\ IncludeBtts
                     /\ \A p \in picks : p.offer.fixture /= f
                  THEN {[offer |-> o, at |-> now, acquired |-> run.acquired[f]] : o \in select(f, now)}
                  ELSE {} : f \in Fixtures}
    /\ run' = Goto("choose")
    /\ UNCHANGED <<now, kickoff, forecasts, records, retained, crashes>>

(* The run ends, at a failure after any step or because it is done; or it  *)
(* crashes.                                                                *)
End ==
    /\ run /= None /\ run.pc = "choose"
    /\ run' = None
    /\ UNCHANGED <<now, kickoff, forecasts, records, retained, picks, crashes>>

Crash ==
    /\ run /= None /\ run.pc /= "choose" /\ crashes < MaxCrashes
    /\ crashes' = crashes + 1
    /\ run' = None
    /\ UNCHANGED <<now, kickoff, forecasts, records, retained, picks>>

Next ==
    \/ Tick
    \/ \E f \in Fixtures : Reschedule(f) \/ Prepare(f)
    \/ Begin
    \/ \E books \in Coverage : Request(books)
    \/ Observe \/ Store \/ publish_locked \/ End \/ Crash

Spec == Init /\ [][Next]_vars

-----------------------------------------------------------------------------
(* Properties.                                                             *)

(* Every variable keeps its shape.                                         *)
TypeOK ==
    /\ now \in 0 .. MaxTime
    /\ kickoff \in [Fixtures -> {MaxTime - 1, MaxTime}]
    /\ \A f \in Frozen : forecasts[f] \in [at : 0 .. MaxTime, kickoff : {MaxTime - 1, MaxTime}]
    /\ \A r \in records : r.fixture \in Fixtures /\ r.at \in 0 .. MaxTime /\ r.books \in Coverage
    /\ \A f \in Fixtures : retained[f] = None \/ retained[f] \in 0 .. MaxTime
    /\ run /= None => run.pc \in {"choose", "request", "observe", "store", "publish"} /\ run.review \in BOOLEAN
    /\ \A p \in picks : p.at \in 0 .. MaxTime /\ p.offer.price \in MinPrice .. MaxPrice
    /\ crashes \in 0 .. MaxCrashes

(* A forecast is older than every price of its fixture that was ever kept, *)
(* in this store or the corner store: it is never made after looking.      *)
ForecastBeforePrices ==
    /\ \A f \in Frozen : retained[f] /= None => forecasts[f].at <= retained[f]
    /\ \A r \in records : r.forecast.at < r.at

(* The store always reads: each record belongs to the one forecast of its  *)
(* fixture, and the reader's bounds hold whatever the order of writes,     *)
(* crashes and re-timed fixtures.                                          *)
StoreReads ==
    /\ \A r \in records : r.forecast = forecasts[r.fixture]
    /\ Cardinality(records) <= MaxRecords /\ Cardinality(Frozen) <= MaxRecords

(* A fixture's forecast, once frozen, is the one every later run uses.     *)
ForecastNeverChanges ==
    \A f \in Fixtures : forecasts[f] /= None => forecasts'[f] = forecasts[f]

(* Every read rebuilds every pick from the records as they stood when it   *)
(* was published, whatever has been recorded since.                        *)
PublishedReplays == \A p \in picks : select(p.offer.fixture, p.at) = {p.offer}

(* A run never publishes an older price of a fixture it has itself just    *)
(* seen: when the new response could not be recorded it publishes nothing. *)
NoOlderPick == \A p \in picks : p.acquired /= None => p.offer.retrieved = p.acquired

(* Of the prices a reader is shown as current, one per fixture is best; it *)
(* comes from the fixture's latest record, and a pick made now would never *)
(* be at a worse price.                                                    *)
BestIsCurrent ==
    \A f \in Fixtures : \A v \in best_yes_price(f, now) :
        /\ \A r \in records : r.fixture = f => r.at <= v.record.at
        /\ \A o \in select(f, now) : o.price = v.record.books[v.book]
=============================================================================
