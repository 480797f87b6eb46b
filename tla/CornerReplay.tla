----------------------------- MODULE CornerReplay -----------------------------
(***************************************************************************)
(* The offline Premier League corner replay: pl_corner_capture.py freezes  *)
(* one batch of forecasts per private store from saved calendar and        *)
(* history evidence, at a chosen observation time, and pl_corner_odds.py   *)
(* replays one frozen forecast against one saved quote.  Captures run      *)
(* beside each other, the code may be replaced between them, a write may   *)
(* fail with its outcome unknown, and processes and the machine may stop.  *)
(* Time runs in parts of a day; the readiness gates are those of           *)
(* CalendarHistory, reduced to what the evidence of one league can break.  *)
(***************************************************************************)
EXTENDS Integers, FiniteSets

CONSTANTS
    Clients, Fixtures,
    PerDay, MaxTime,
    KickAt,      \* the kick-offs a calendar retrieved at a time reports
    Requests,    \* captures asked for: when calendar and history were retrieved, the observation
    MinHistory, MaxAge,
    Unfit,       \* fixtures the model rejects, by number of observations
    MaxDeploys,  \* bound
    Payloads,    \* saved quote bodies: [fixture, changed, kick, pair]
    MaxQuoteAge,
    None

Time == 0 .. MaxTime
Payload == [request: Requests, code: 0 .. MaxDeploys, state: {"EMPTY", "CAPTURED", "MODEL_REJECTED", "BLOCKED"},
            forecasts: SUBSET Fixtures, rows: SUBSET Fixtures]
Record == [payload: Payload, recorded_at: Time, before: BOOLEAN]

ReplayConstants ==
    /\ {PerDay, MaxTime, MinHistory, MaxAge, MaxDeploys, MaxQuoteAge} \subseteq Nat
    /\ PerDay > 0
    /\ KickAt \in [Time -> [Fixtures -> Time]]
    /\ Requests \subseteq [calendar: Time, history: Time, as_of: Time, next_day: BOOLEAN]
    /\ Unfit \in [0 .. Cardinality(Fixtures) -> SUBSET Fixtures]
    /\ None \notin Clients \cup Record

VARIABLES
    now, code,  \* the clock; the installed implementation
    store,      \* the store's one record
    durable,    \* its directory entry was synced
    holder,     \* the directory lock
    call,       \* per client: the payload it would record
    cache,      \* the last normalised snapshot (lru_cache of one)
    \* observations, read by no action
    created,    \* records reported as CREATED
    existing,   \* the last one reported as EXISTING, and what was asked
    replay      \* the last result of consume

process == <<holder, call>>
reports == <<created, existing>>
vars == <<now, code, store, durable, process, cache, reports, replay>>

Day(t) == t \div PerDay

Init ==
    /\ now = 0 /\ code = 0
    /\ store = None /\ durable = TRUE
    /\ holder = None /\ call = [c \in Clients |-> None]
    /\ cache = None
    /\ created = {} /\ existing = None /\ replay = None

Tick == now < MaxTime /\ now' = now + 1 /\ UNCHANGED <<code, store, durable, process, cache, reports, replay>>
Deploy == /\ code < MaxDeploys /\ code' = code + 1 /\ cache' = None
          /\ UNCHANGED <<now, store, durable, process, reports, replay>>

-----------------------------------------------------------------------------
(* prepare                                                                 *)

Kicks(r) == KickAt[r.calendar]
FixtureDay(r) == IF r.next_day THEN Day(r.as_of) + 1 ELSE Day(r.as_of)
HistoryBefore(r) == Day(r.as_of)   \* exclusive, the observation's own day

\* the results a file retrieved at t holds, before the cutoff
Rows(r) == {f \in Fixtures : KickAt[r.history][f] < r.history /\ Day(KickAt[r.history][f]) < HistoryBefore(r)}
Finished(r) == {f \in Fixtures : Kicks(r)[f] < r.calendar /\ Day(Kicks(r)[f]) < HistoryBefore(r)}
Prior(r) == {f \in Fixtures : Day(Kicks(r)[f]) < HistoryBefore(r)}
OnDay(r) == {f \in Fixtures : Day(Kicks(r)[f]) = FixtureDay(r)}

\* evidence from after the observation
MutantChronology(r) == r.as_of - r.calendar <= MaxAge
Chronology(r) == r.calendar <= r.as_of /\ r.history <= r.as_of /\ r.as_of - r.calendar <= MaxAge
Ready(r) ==
    /\ Chronology(r)
    /\ Prior(r) = Finished(r) /\ Rows(r) = Finished(r)
    /\ Cardinality(Rows(r)) >= MinHistory
PreMatch(r, f) == Kicks(r)[f] > r.as_of

\* only the fixtures that are before their match
MutantEligible(r) == {f \in OnDay(r) : PreMatch(r, f)}
Eligible(r) == IF \A f \in OnDay(r) : PreMatch(r, f) THEN OnDay(r) ELSE {}
State(r) == CASE Ready(r) /\ OnDay(r) = {} -> "EMPTY"
              [] Ready(r) /\ Eligible(r) # {} -> IF Eligible(r) \cap Unfit[Cardinality(Rows(r))] = {}
                                                 THEN "CAPTURED" ELSE "MODEL_REJECTED"
              [] OTHER -> "BLOCKED"

prepare(r) ==
    [request |-> r, code |-> code, state |-> State(r),
     forecasts |-> IF State(r) = "CAPTURED" THEN Eligible(r) ELSE {}, rows |-> Rows(r)]

-----------------------------------------------------------------------------
(* capture                                                                 *)

Goto(c, step, record) == call' = [call EXCEPT ![c] = [at |-> step, record |-> record]]
Leave(c) == call' = [call EXCEPT ![c] = None] /\ holder' = IF holder = c THEN None ELSE holder
At(c, step) == call[c] # None /\ call[c].at = step

\* the observation may not be in the future, nor the evidence not yet retrieved
Begin(c, r) ==
    /\ call[c] = None /\ r.as_of <= now /\ {r.calendar, r.history} \subseteq 0 .. now
    /\ Goto(c, "lock", [payload |-> prepare(r)])
    /\ UNCHANGED <<now, code, store, durable, holder, cache, reports, replay>>

\* a lock that is held refuses the capture
Lock(c) ==
    /\ At(c, "lock")
    /\ IF holder = None THEN holder' = c /\ Goto(c, "look", call[c].record) ELSE Leave(c)
    /\ UNCHANGED <<now, code, store, durable, cache, reports, replay>>

\* the same evidence, whatever code read it
MutantSame(c) == store.payload.request = call[c].record.payload.request
Same(c) == store.payload = call[c].record.payload

\* a new record without the time of its writing
MutantLook(c) ==
    /\ At(c, "look") /\ store = None
    /\ Goto(c, "put", call[c].record)
    /\ UNCHANGED <<now, code, store, durable, holder, cache, reports, replay>>
\* the repeated request gets the original record, another one conflicts; a new
\* record samples the clock under the lock
Look(c) ==
    /\ At(c, "look")
    /\ IF store # None
       THEN /\ Leave(c)
            /\ existing' = IF Same(c) THEN [asked |-> call[c].record.payload, record |-> store] ELSE existing
       ELSE /\ Goto(c, "put",
                    [payload |-> call[c].record.payload, recorded_at |-> now,
                     before |-> LET p == call[c].record.payload IN
                        p.forecasts # {} /\ \A f \in p.forecasts : now < Kicks(p.request)[f]])
            /\ UNCHANGED <<holder, existing>>
    /\ UNCHANGED <<now, code, store, durable, cache, created, replay>>

\* the record is reported before its directory is synced
MutantPut(c) ==
    /\ At(c, "put") /\ Leave(c)
    /\ store' = call[c].record /\ durable' = FALSE /\ created' = created \cup {call[c].record}
    /\ UNCHANGED <<now, code, cache, existing, replay>>
Put(c) ==
    /\ At(c, "put") /\ Leave(c)
    /\ store' = call[c].record /\ durable' = TRUE /\ created' = created \cup {call[c].record}
    /\ UNCHANGED <<now, code, cache, existing, replay>>

\* WRITE_UNCERTAIN, or the process stops: the record is linked but not synced, or not written
PutFails(c) ==
    /\ At(c, "put") /\ Leave(c)
    /\ \/ store' = call[c].record /\ durable' = FALSE
       \/ UNCHANGED <<store, durable>>
    /\ UNCHANGED <<now, code, cache, reports, replay>>
Kill(c) ==
    /\ call[c] # None /\ Leave(c)
    /\ UNCHANGED <<now, code, store, durable, cache, reports, replay>>

\* the machine stops: an unsynced link is lost or kept
PowerLoss ==
    /\ call' = [c \in Clients |-> None] /\ holder' = None /\ cache' = None
    /\ \/ UNCHANGED store
       \/ ~durable /\ store' = None
    /\ durable' = TRUE
    /\ UNCHANGED <<now, code, reports, replay>>

-----------------------------------------------------------------------------
(* consume                                                                 *)

\* snapshot_from_bytes, kept for one pair of exact bytes and retrieval time
Normalise(payload, retrieved) ==
    [payload |-> payload, retrieved |-> retrieved, dated |-> payload.changed <= retrieved]
MutantHit(payload, retrieved) == cache # None /\ cache.payload = payload
Hit(payload, retrieved) == cache # None /\ cache.payload = payload /\ cache.retrieved = retrieved
Snapshot(payload, retrieved) == IF Hit(payload, retrieved) THEN cache ELSE Normalise(payload, retrieved)

\* a quote from before the forecast was frozen
MutantQuoteChronology(frozen, retrieved, kick, as_of) ==
    retrieved <= as_of /\ as_of < kick /\ as_of - retrieved <= MaxQuoteAge
QuoteChronology(frozen, retrieved, kick, as_of) ==
    frozen < retrieved /\ retrieved <= as_of /\ as_of < kick /\ as_of - retrieved <= MaxQuoteAge
Usable(payload, f, kick, as_of) ==
    /\ payload.fixture = f /\ payload.kick = kick /\ payload.pair
    /\ as_of - payload.changed \in 0 .. MaxQuoteAge

\* the artifact's own chronology, before anything is priced
Artifact(p, f) ==
    /\ f \in p.forecasts /\ p.request.as_of < Kicks(p.request)[f]
    /\ {p.request.calendar, p.request.history} \subseteq 0 .. p.request.as_of
    /\ Day(Kicks(p.request)[f]) = FixtureDay(p.request)

\* a reviewed artifact of the store, a saved quote, and an explicit observation
consume(f, payload, retrieved, as_of) ==
    /\ store # None /\ Artifact(store.payload, f)
    /\ LET r == store.payload.request
           kick == Kicks(r)[f]
           snapshot == Snapshot(payload, retrieved) IN
       /\ QuoteChronology(r.as_of, retrieved, kick, as_of)
       /\ cache' = snapshot
       /\ replay' = IF Usable(snapshot.payload, f, kick, as_of) /\ snapshot.dated
                    THEN [fixture |-> f, artifact |-> store.payload, code |-> code, snapshot |-> snapshot,
                          payload |-> payload, retrieved |-> retrieved, as_of |-> as_of]
                    ELSE None
    /\ UNCHANGED <<now, code, store, durable, process, reports>>

Next ==
    \/ Tick \/ Deploy \/ PowerLoss
    \/ \E c \in Clients : \/ \E r \in Requests : Begin(c, r)
                          \/ Lock(c) \/ Look(c) \/ Put(c) \/ PutFails(c) \/ Kill(c)
    \/ \E f \in Fixtures, payload \in Payloads, retrieved, as_of \in Time : consume(f, payload, retrieved, as_of)

Spec == Init /\ [][Next]_vars

-----------------------------------------------------------------------------
(* Properties                                                              *)

TypeOK ==
    /\ now \in Time /\ code \in 0 .. MaxDeploys /\ durable \in BOOLEAN
    /\ store \in Record \cup {None}
    /\ holder \in Clients \cup {None}
    /\ \A c \in Clients : call[c] # None => call[c].at \in {"lock", "look", "put"}
    /\ created \subseteq Record
    /\ existing # None => existing.record \in Record /\ existing.asked \in Payload

\* A batch reported as CREATED is the store's one record from then on, through
\* uncertain writes, repetitions, new code and power losses.
CreatedStays == \A r \in created : store = r

\* EXISTING is said of the exact request only: its evidence, observation and code.
ExistingIsExact == existing # None => existing.record.payload = existing.asked

\* The day is frozen whole or not at all, before every one of its matches.
WholeDay ==
    store # None =>
        LET p == store.payload IN
        /\ (p.forecasts # {} <=> p.state = "CAPTURED")
        /\ (p.state = "CAPTURED" =>
                /\ p.forecasts = {f \in Fixtures : Day(Kicks(p.request)[f]) = FixtureDay(p.request)}
                /\ \A f \in p.forecasts : p.request.as_of < Kicks(p.request)[f])

\* What was frozen rests on nothing retrieved, or played, on or after the day of
\* the observation.
FrozenIsBlind ==
    store # None /\ store.payload.state = "CAPTURED" =>
        LET p == store.payload IN
        /\ p.request.calendar <= p.request.as_of /\ p.request.history <= p.request.as_of
        /\ p.request.as_of <= store.recorded_at
        /\ \A f \in p.rows : Day(KickAt[p.request.history][f]) < Day(p.request.as_of)

\* A replayed price was retrieved after its forecast was frozen and before its
\* match, and is read from the bytes and retrieval time of this very call.
ReplayIsOrdered ==
    replay # None =>
        /\ replay.artifact.request.as_of < replay.retrieved
        /\ replay.as_of < Kicks(replay.artifact.request)[replay.fixture]
        /\ replay.snapshot = Normalise(replay.payload, replay.retrieved)
        /\ replay.payload.changed <= replay.retrieved
=============================================================================
