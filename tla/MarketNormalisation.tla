------------------------ MODULE MarketNormalisation ------------------------
(* From a provider's odds response to recorded opportunities               *)
(* (providers/oddspapi.py, corner_opportunities.py): one client observes   *)
(* fixtures one after the other, possibly reusing the market dictionary    *)
(* within its run; the response is normalised into selections and an       *)
(* account of what was unusable; a capture is built and published; and     *)
(* the observation is assessed against the frozen prediction.              *)
(*                                                                         *)
(* A market stands for one full-time family at one line.  A price is an    *)
(* abstract quote with an implied probability in percent.                  *)
EXTENDS Naturals, FiniteSets, FiniteSetsExt

CONSTANTS
  Fixtures,        \* fixtures observed in this run
  Markets, Books,
  Prices,          \* usable quotes
  Implied,         \* Implied[p]: 100 / decimal odds
  Playable,        \* those whose American odds are at least the minimum
  Consistent,      \* those whose decimal and American odds agree
  Payloads,        \* odds responses: [Books -> Book]
  Dictionaries,    \* market dictionaries: [Markets -> Families and defects]
  Probabilities,   \* decisive model probabilities of Over, in percent
  Kickoff, MaxAge, \* times, in the unit of Tick; MaxAge is MAX_QUOTE_AGE_SECONDS
  MaxTime          \* bound on time

FAMILIES == {"MATCH", "HOME", "AWAY"}
Directions == {"Over", "Under"}
Defects == {"missing", "other", "malformed"}

ConstantsAssumption ==
  /\ Implied \in [Prices -> 1..99] /\ Playable \subseteq Prices
  /\ Consistent \subseteq Prices /\ Probabilities \subseteq 0..100
  /\ Dictionaries \subseteq [Markets -> FAMILIES \cup Defects]
  /\ Kickoff \in Nat /\ MaxAge \in Nat /\ MaxTime \in Nat

VARIABLES
  client,      \* "one shot", "single": it validates the dictionary, or "run":
               \* it also reuses it
  now,
  phase,       \* progress of each fixture
  metadata,    \* the dictionary in use: {} or a singleton
  payload,     \* the response in hand
  promised,    \* requests announced for the observation under way
  sent,        \* requests sent for it
  retrieved,   \* when the response in hand was retrieved
  quotes,      \* its normalisation
  published,   \* captures published: fixture, retrieval and publication time
  opportunities

vars == <<client, now, phase, metadata, payload, promised, sent, retrieved,
          quotes, published, opportunities>>

----------------------------------------------------------------------------
(* Normalisation of one response.                                          *)

NoQuotes == [selections |-> {}, issues |-> {}, status |-> <<>>, families |-> <<>>]

(* The outcomes of a market that are considered: the two of the dictionary *)
(* and any other the response names.                                       *)
OutcomesOf(market) ==
  Directions \cup {o \in DOMAIN market.prices : market.prices[o] # "absent"}

MutantReason(market, o) ==
  IF o \notin Directions THEN "UNKNOWN_OUTCOME"
  ELSE IF market.prices[o] = "absent" THEN "OUTCOME_UNAVAILABLE"
  ELSE IF market.prices[o] = "inactive" THEN "PRICE_UNUSABLE"
  ELSE IF market.prices[o] = "unusable" THEN "PRICE_OR_TIMESTAMP_UNUSABLE" ELSE "none"

MutantUntimed(market, o) ==
  IF o \notin Directions THEN "UNKNOWN_OUTCOME"
  ELSE IF market.prices[o] = "absent" THEN "OUTCOME_UNAVAILABLE"
  ELSE IF ~market.usable THEN "MARKET_UNUSABLE"
  ELSE IF market.prices[o] = "inactive" THEN "PRICE_UNUSABLE" ELSE "none"

Reason(market, o) ==
  IF o \notin Directions THEN "UNKNOWN_OUTCOME"
  ELSE IF market.prices[o] = "absent" THEN "OUTCOME_UNAVAILABLE"
  ELSE IF ~market.usable THEN "MARKET_UNUSABLE"
  ELSE IF market.prices[o] = "inactive" THEN "PRICE_UNUSABLE"
  ELSE IF market.prices[o] = "unusable" THEN "PRICE_OR_TIMESTAMP_UNUSABLE" ELSE "none"

Corner(dict, m) == dict[m] \in FAMILIES \cup {"malformed"}

Usable(p, b) == p[b].status = "open"

(* One pass over the markets of an open book.                              *)
Selected(p, dict, b, m) ==
  LET market == p[b].markets[m] IN
  {[book |-> b, market |-> m, family |-> dict[m], side |-> o, price |-> market.prices[o]] :
     o \in {x \in OutcomesOf(market) : Reason(market, x) = "none"}}

MutantIssues(p, dict, b, m) ==
  LET market == p[b].markets[m] IN
  IF ~Corner(dict, m) THEN {}
  ELSE {[book |-> b, market |-> m, side |-> o, reason |-> Reason(market, o)] :
          o \in {x \in Directions : Reason(market, x) # "none"}}

Issues(p, dict, b, m) ==
  LET market == p[b].markets[m] IN
  IF dict[m] = "missing"
  THEN {[book |-> b, market |-> m, side |-> "any", reason |-> "MISSING_MARKET_METADATA"]}
  ELSE IF ~Corner(dict, m) THEN {}
  ELSE {[book |-> b, market |-> m, side |-> o, reason |-> Reason(market, o)] :
          o \in {x \in OutcomesOf(market) : Reason(market, x) # "none"}}

BookState(p, dict, b) ==
  LET listed == DOMAIN p[b].markets
      seen == {m \in listed : Corner(dict, m)}
      step(m, acc) ==
        [selections |-> acc.selections \cup
                        IF m \in seen THEN Selected(p, dict, b, m) ELSE {},
         issues |-> acc.issues \cup Issues(p, dict, b, m)]
      all == FoldSet(step, [selections |-> {}, issues |-> {}], listed)
      count(f) == Cardinality({s \in all.selections : s.family = f})
      missing == \E i \in all.issues : i.reason = "MISSING_MARKET_METADATA"
      family(f) ==
        [status |->
           IF count(f) > 0 THEN "RETURNED"
           ELSE IF \E m \in seen : dict[m] = f THEN "NO_USABLE_PRICES"
           ELSE IF missing THEN "METADATA_INCOMPLETE" ELSE "MARKET_UNAVAILABLE",
         count |-> count(f)]
  IN CASE p[b].status = "absent" ->
            [selections |-> {}, issues |-> {}, status |-> "BOOKMAKER_UNAVAILABLE",
             families |-> <<>>]
       [] p[b].status = "closed" ->
            [selections |-> {}, issues |-> {}, status |-> "BOOKMAKER_UNUSABLE",
             families |-> <<>>]
       [] OTHER ->
            [selections |-> all.selections, issues |-> all.issues,
             families |-> [f \in FAMILIES |-> family(f)],
             status |-> IF all.selections # {} THEN "CORNERS_RETURNED"
                        ELSE IF seen # {} THEN "NO_USABLE_CORNERS"
                        ELSE IF all.issues # {} THEN "METADATA_INCOMPLETE"
                        ELSE "CORNER_MARKETS_UNAVAILABLE"]

Malformed(p, dict) ==
  \E b \in Books : Usable(p, b) /\ \E m \in DOMAIN p[b].markets : dict[m] = "malformed"

Normalize(p, dict) ==
  LET state == [b \in Books |-> BookState(p, dict, b)] IN
  [selections |-> UNION {state[b].selections : b \in Books},
   issues |-> UNION {state[b].issues : b \in Books},
   status |-> [b \in Books |-> state[b].status],
   families |-> [b \in Books |-> state[b].families]]

----------------------------------------------------------------------------
(* The client.                                                             *)

Init ==
  /\ client \in {"one shot", "single", "run"} /\ now = 0
  /\ phase = [f \in Fixtures |-> "new"]
  /\ metadata = {} /\ payload = {} /\ promised = 0 /\ sent = 0 /\ retrieved = 0
  /\ quotes = NoQuotes /\ published = {} /\ opportunities = {}

Busy == \E f \in Fixtures : phase[f] \notin {"new", "assessed", "failed"}
PreMatch == now < Kickoff
Dictionary == CHOOSE d \in metadata : TRUE

Becomes(f, p) == phase' = [phase EXCEPT ![f] = p]

MutantObserve(f) ==
  /\ phase[f] = "new" /\ ~Busy
  /\ promised' = IF client = "run" THEN 1 ELSE 2
  /\ sent' = 0
  /\ metadata' = IF client = "run" THEN metadata ELSE {}
  /\ Becomes(f, IF PreMatch THEN "dictionary" ELSE "failed")
  /\ payload' = {} /\ quotes' = NoQuotes /\ retrieved' = 0
  /\ UNCHANGED <<client, now, published, opportunities>>

(* corner_market_request_count, and the check of the fixture itself.       *)
Observe(f) ==
  /\ phase[f] = "new" /\ ~Busy
  /\ promised' = IF client = "run" /\ metadata # {} THEN 1 ELSE 2
  /\ sent' = 0
  /\ metadata' = IF client = "run" THEN metadata ELSE {}
  /\ Becomes(f, IF PreMatch THEN "dictionary" ELSE "failed")
  /\ payload' = {} /\ quotes' = NoQuotes /\ retrieved' = 0
  /\ UNCHANGED <<client, now, published, opportunities>>

ValidMetadata(dict) == \A m \in Markets : dict[m] # "malformed"

MutantGetMetadata(f) ==
  /\ phase[f] = "dictionary"
  /\ IF metadata # {} THEN Becomes(f, "odds") /\ UNCHANGED <<metadata, sent>>
     ELSE /\ sent' = sent + 1
          /\ \/ \E dict \in Dictionaries :
                  /\ metadata' = {dict}
                  /\ Becomes(f, IF client # "one shot" /\ ~ValidMetadata(dict)
                                THEN "failed" ELSE "odds")
             \/ Becomes(f, "failed") /\ UNCHANGED metadata
  /\ UNCHANGED <<client, now, payload, promised, retrieved, quotes, published,
                 opportunities>>

(* The guarded clients validate the whole dictionary before they use it.   *)
GetMetadata(f) ==
  /\ phase[f] = "dictionary"
  /\ IF metadata # {} THEN Becomes(f, "odds") /\ UNCHANGED <<metadata, sent>>
     ELSE /\ sent' = sent + 1
          /\ \/ \E dict \in Dictionaries :
                  IF client # "one shot" /\ ~ValidMetadata(dict)
                  THEN Becomes(f, "failed") /\ UNCHANGED metadata
                  ELSE Becomes(f, "odds") /\ metadata' = {dict}
             \/ Becomes(f, "failed") /\ UNCHANGED metadata
  /\ UNCHANGED <<client, now, payload, promised, retrieved, quotes, published,
                 opportunities>>

(* The response may be an error, or be about a fixture that was moved.     *)
GetOdds(f) ==
  /\ phase[f] = "odds"
  /\ sent' = sent + 1
  /\ \/ \E p \in Payloads : payload' = {p} /\ retrieved' = now /\ Becomes(f, "response")
     \/ Becomes(f, "failed") /\ UNCHANGED <<payload, retrieved>>
  /\ UNCHANGED <<client, now, metadata, promised, quotes, published, opportunities>>

Normalise(f) ==
  /\ phase[f] = "response"
  /\ LET p == CHOOSE x \in payload : TRUE IN
     IF PreMatch /\ now - retrieved <= MaxAge /\ ~Malformed(p, Dictionary)
     THEN Becomes(f, "observed") /\ quotes' = Normalize(p, Dictionary)
     ELSE Becomes(f, "failed") /\ UNCHANGED quotes
  /\ UNCHANGED <<client, now, metadata, payload, promised, sent, retrieved, published,
                 opportunities>>

----------------------------------------------------------------------------
(* The capture: validated before the history lock, when it has been        *)
(* obtained, and again immediately before publication.                     *)

CurrentQuotes == PreMatch /\ now - retrieved <= MaxAge

Capture(f) ==
  /\ phase[f] = "observed"
  /\ Becomes(f, IF quotes.selections # {} /\ CurrentQuotes THEN "building" ELSE "failed")
  /\ UNCHANGED <<client, now, metadata, payload, promised, sent, retrieved, quotes,
                 published, opportunities>>

Build(f) ==
  /\ phase[f] = "building"
  /\ Becomes(f, IF CurrentQuotes THEN "built" ELSE "failed")
  /\ UNCHANGED <<client, now, metadata, payload, promised, sent, retrieved, quotes,
                 published, opportunities>>

MutantPublish(f) ==
  /\ phase[f] = "built"
  /\ published' = published \cup {[fixture |-> f, retrieved |-> retrieved, at |-> now]}
  /\ Becomes(f, "captured")
  /\ UNCHANGED <<client, now, metadata, payload, promised, sent, retrieved, quotes,
                 opportunities>>

Publish(f) ==
  /\ phase[f] = "built"
  /\ IF CurrentQuotes
     THEN published' = published \cup {[fixture |-> f, retrieved |-> retrieved, at |-> now]}
          /\ Becomes(f, "captured")
     ELSE Becomes(f, "failed") /\ UNCHANGED published
  /\ UNCHANGED <<client, now, metadata, payload, promised, sent, retrieved, quotes,
                 opportunities>>

----------------------------------------------------------------------------
(* Assessment: the two sides of a book's market at a line, when there is   *)
(* exactly one quote for each and both are consistent, give a price        *)
(* without the bookmaker's margin; the model must beat it by five points.  *)

Opposite(side) == IF side = "Over" THEN "Under" ELSE "Over"

SameLine(s, t) == s.book = t.book /\ s.family = t.family

MutantPairs(sel) ==
  {<<s, t>> \in sel \X sel :
     /\ s.family = t.family /\ t.side = Opposite(s.side)
     /\ \A u \in sel : SameLine(s, u) => u \in {s, t}
     /\ s.price \in Consistent /\ t.price \in Consistent}

Pairs(sel) ==
  {<<s, t>> \in sel \X sel :
     /\ SameLine(s, t) /\ t.side = Opposite(s.side)
     /\ \A u \in sel : SameLine(s, u) => u \in {s, t}
     /\ s.price \in Consistent /\ t.price \in Consistent}

ModelProbability(s, over) == IF s.side = "Over" THEN over ELSE 100 - over

EvaluatedTarget(s) == s.family # "MATCH"

(* The edge over Implied[s] / (Implied[s] + Implied[t]) is at least 5 %.   *)
Qualified(s, t, over) ==
  LET total == Implied[s.price] + Implied[t.price] IN
  /\ s.price \in Playable
  /\ ModelProbability(s, over) * total >= 100 * Implied[s.price] + 5 * total

Assess(f) ==
  /\ phase[f] = "captured"
  /\ \E over \in Probabilities :
       opportunities' = opportunities \cup
         {[fixture |-> f, offer |-> pair[1], against |-> pair[2], over |-> over] :
            pair \in {q \in Pairs(quotes.selections) :
                        EvaluatedTarget(q[1]) /\ Qualified(q[1], q[2], over)}}
  /\ Becomes(f, "assessed")
  /\ UNCHANGED <<client, now, metadata, payload, promised, sent, retrieved, quotes,
                 published>>

Tick ==
  /\ Busy /\ now < MaxTime /\ now' = now + 1
  /\ UNCHANGED <<client, phase, metadata, payload, promised, sent, retrieved, quotes,
                 published, opportunities>>

Next ==
  \/ \E f \in Fixtures :
       Observe(f) \/ GetMetadata(f) \/ GetOdds(f) \/ Normalise(f) \/ Capture(f)
         \/ Build(f) \/ Publish(f) \/ Assess(f)
  \/ Tick

Spec == Init /\ [][Next]_vars

----------------------------------------------------------------------------
(* The reference: what a response means, said market by market without the *)
(* loop that computes it (observed_corner_contract).                       *)

Offered(p, dict) ==
  {<<b, m, o>> \in Books \X Markets \X Directions :
     /\ p[b].status = "open" /\ m \in DOMAIN p[b].markets /\ dict[m] \in FAMILIES
     /\ p[b].markets[m].usable /\ p[b].markets[m].prices[o] \in Prices}

Observed(f) == phase[f] \in {"observed", "building", "built", "captured"}
Response == CHOOSE p \in payload : TRUE

TypeOK ==
  /\ client \in {"one shot", "single", "run"} /\ now \in 0..MaxTime /\ promised \in 0..2
  /\ phase \in [Fixtures -> {"new", "dictionary", "odds", "response", "observed",
                             "building", "built", "captured", "assessed", "failed"}]
  /\ \A d \in metadata : d \in Dictionaries
  /\ \A s \in quotes.selections : s.price \in Prices /\ s.family \in FAMILIES
  /\ retrieved <= now

(* The selections are exactly the offers the reference finds in the        *)
(* response, and a bookmaker's family is RETURNED just when it has one.    *)
MatchesReference ==
  \A f \in Fixtures : Observed(f) =>
    /\ {<<s.book, s.market, s.side>> : s \in quotes.selections}
         = Offered(Response, Dictionary)
    /\ \A b \in Books : Response[b].status = "open" =>
         \A fam \in FAMILIES :
           quotes.families[b][fam].count
             = Cardinality({x \in Offered(Response, Dictionary) :
                              x[1] = b /\ Dictionary[x[2]] = fam})

(* Nothing disappears: of an open book, each outcome of a corner market,   *)
(* named by the dictionary or by the response, is a selection or is        *)
(* reported with its reason, and never both.                               *)
EveryOutcomeAccounted ==
  \A f \in Fixtures : Observed(f) =>
    \A b \in Books : Response[b].status = "open" =>
      \A m \in DOMAIN Response[b].markets : Corner(Dictionary, m) =>
        \A o \in OutcomesOf(Response[b].markets[m]) :
          (\E s \in quotes.selections : s.book = b /\ s.market = m /\ s.side = o)
            # (\E i \in quotes.issues : i.book = b /\ i.market = m /\ i.side = o)

(* An observation sends no more requests than were announced, hence        *)
(* reserved, for it; a complete one sends exactly those.                   *)
RequestsAsPromised ==
  /\ sent <= promised
  /\ \A f \in Fixtures : Observed(f) => sent = promised

(* A reused dictionary has been validated: one fixture's bad answer does   *)
(* not spoil the fixtures that follow it in the run.                       *)
ReusedMetadataValid == client = "run" => \A d \in metadata : ValidMetadata(d)

(* No capture is published after kick-off or with a quote older than the   *)
(* limit, however long the history lock took.                              *)
FreshWhenPublished ==
  \A c \in published : c.at < Kickoff /\ c.at - c.retrieved <= MaxAge

(* An opportunity rests on both sides of one bookmaker's line, quoted in   *)
(* the same observation, and the model never finds value on both.          *)
OpportunitiesJustified ==
  \A o \in opportunities :
    /\ o.offer.book = o.against.book /\ o.offer.family = o.against.family
    /\ o.offer.family \in {"HOME", "AWAY"} /\ o.offer.side # o.against.side
    /\ \A q \in opportunities :
         q.fixture = o.fixture /\ q.offer.book = o.offer.book
           /\ q.offer.family = o.offer.family => q.offer.side = o.offer.side
============================================================================
