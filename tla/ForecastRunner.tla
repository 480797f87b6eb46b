---------------------------- MODULE ForecastRunner ----------------------------
(***************************************************************************)
(* The forecast-only runner (forecast_only_runner.py): under the           *)
(* collector's runner lock it reads the calendar and the history, fetches  *)
(* missing results once per claim (supplemental_history.py), freezes one   *)
(* forecast per fixture and model (offline_forecasts.py) and publishes     *)
(* them one by one (research_predictions.py), with a receipt for every run *)
(* that lives to write it.  The season files are refreshed beside it, and  *)
(* fixtures may be rescheduled.                                            *)
(***************************************************************************)
EXTENDS Naturals, FiniteSets

CONSTANTS
    Runs,
    Past,        \* matches that finish before the matchweek's cutoff
    Values,      \* results a source may state for one of them
    Fixtures,    \* fixtures of the matchweek
    Kickoffs,    \* hours a fixture may be moved to
    Early, Late, \* hours before kickoff between which a fixture is eligible
    Delay,       \* RESULT_RETRY_DELAY in hours
    None,
    Horizon, MaxCrashes   \* bounds

RunnerConstants ==
    /\ Kickoffs \subseteq Nat
    /\ {Early, Late, Delay, Horizon, MaxCrashes} \subseteq Nat /\ Early <= Late /\ Delay > 0
    /\ None \notin Runs \cup Values

VARIABLES
    now,
    kickoff,      \* the calendar: fixtures
    finished,     \* the calendar: matches with status FINISHED
    base,         \* the season files of the data refresh
    supplement,   \* supplemental-history/E1
    attempts,     \* supplemental-history-attempts, by time of the request
    predictions,  \* research-predictions
    receipts,     \* forecast-only-receipts: what the RECORDED ones cover
    holder,       \* prospective/runner.lock
    pc, run,      \* per process
    crashes,
    fetches       \* requests sent to the provider; read by no action

evidence == <<supplement, attempts, predictions, receipts>>
world == <<now, kickoff, finished, base>>
vars == <<world, evidence, holder, pc, run, crashes, fetches>>

Models == {"CORNER", "BTTS"}
KnownResults == [Past -> Values \cup {None}]
Known(results) == {m \in Past : results[m] # None}

\* a prepared forecast: its identity is its whole content
Prediction == [fixture: Fixtures, kickoff: Kickoffs, model: Models, at: 0 .. Horizon,
               base: KnownResults, used: KnownResults, required: SUBSET Past]

Init ==
    /\ now = 0
    /\ kickoff \in [Fixtures -> Kickoffs]
    /\ finished = {} /\ base = [m \in Past |-> None] /\ supplement = [m \in Past |-> None]
    /\ attempts = {} /\ predictions = {} /\ receipts = {}
    /\ holder = None /\ pc = [r \in Runs |-> "idle"] /\ run = [r \in Runs |-> None]
    /\ crashes = 0 /\ fetches = 0

-----------------------------------------------------------------------------
(* The world                                                               *)

Tick == now < Horizon /\ now' = now + 1
        /\ UNCHANGED <<kickoff, finished, base, evidence, holder, pc, run, crashes, fetches>>
\* a fixture is postponed
Reschedule ==
    /\ \E x \in Fixtures, k \in Kickoffs : k > kickoff[x] /\ kickoff' = [kickoff EXCEPT ![x] = k]
    /\ UNCHANGED <<now, finished, base, evidence, holder, pc, run, crashes, fetches>>
FinishMatch ==
    /\ \E m \in Past \ finished : finished' = finished \cup {m}
    /\ UNCHANGED <<now, kickoff, base, evidence, holder, pc, run, crashes, fetches>>
\* the data refresh replaces the season file; a published result is not withdrawn
Refresh ==
    /\ \E m \in finished, v \in Values : base[m] = None /\ base' = [base EXCEPT ![m] = v]
    /\ UNCHANGED <<now, kickoff, finished, evidence, holder, pc, run, crashes, fetches>>

-----------------------------------------------------------------------------
(* One run                                                                 *)

Go(r, place) == pc' = [pc EXCEPT ![r] = place]

\* every branch of run_once ends in _publish_receipt and leaves the lock
End(r, status, covers) ==
    /\ Go(r, "idle") /\ run' = [run EXCEPT ![r] = None]
    /\ receipts' = receipts \cup (IF status = "RECORDED" THEN {covers} ELSE {})
    /\ holder' = IF holder = r THEN None ELSE holder
Ends(r, status) == End(r, status, {}) /\ UNCHANGED <<supplement, attempts, predictions>>

Eligible == {x \in Fixtures : now + Early <= kickoff[x] /\ kickoff[x] <= now + Late}

\* shared_runner refuses a second holder at once
MutantLockFree == TRUE
LockFree == holder = None
Start(r) ==
    /\ pc[r] = "idle"
    /\ IF ~LockFree THEN Ends(r, "REJECTED")
       ELSE \/ /\ Eligible # {} /\ Go(r, "load") /\ holder' = r
               /\ run' = [run EXCEPT ![r] = [fixtures |-> {<<x, kickoff[x]>> : x \in Eligible},
                                            required |-> finished]]
               /\ UNCHANGED evidence
            \/ Eligible = {} /\ Ends(r, "NO_ELIGIBLE_FIXTURES")
            \/ Ends(r, "REJECTED")   \* the calendar request failed, or its accounting or provenance
    /\ UNCHANGED <<world, crashes, fetches>>

\* augment_sources: a result stated twice must agree
Agree(first, second) == \A m \in Known(first) \cap Known(second) : first[m] = second[m]
Missing(r) == run[r].required \ (Known(run[r].base) \cup Known(supplement))

Load(r) ==
    /\ pc[r] = "load"
    /\ IF run[r].required = {} \/ ~Agree(base, supplement) THEN Ends(r, "REJECTED")
       ELSE /\ run' = [run EXCEPT ![r] = [fixtures |-> @.fixtures, required |-> @.required,
                                          base |-> base, answer |-> [m \in Past |-> None]]]
            /\ Go(r, IF run[r].required \subseteq Known(base) \cup Known(supplement) THEN "prepare" ELSE "claim")
            /\ UNCHANGED <<evidence, holder>>
    /\ UNCHANGED <<world, crashes, fetches>>

\* _claim_results_request: durable before the request, one per Delay also after a failure or death
MutantRecent == \E a \in attempts : now = a + Delay
MutantClaim(r) ==
    /\ pc[r] = "claim" /\ Go(r, "fetch") /\ UNCHANGED <<run, evidence, holder>>
    /\ UNCHANGED <<world, crashes, fetches>>
Recent == \E a \in attempts : now < a + Delay
Claim(r) ==
    /\ pc[r] = "claim"
    /\ IF Recent THEN Ends(r, "BLOCKED")
       ELSE /\ attempts' = attempts \cup {now} /\ Go(r, "fetch")
            /\ UNCHANGED <<run, supplement, predictions, receipts, holder>>
    /\ UNCHANGED <<world, crashes, fetches>>

\* the provider is unavailable, refuses, or states any results of finished matches
Fetch(r) ==
    /\ pc[r] = "fetch" /\ fetches' = fetches + 1
    /\ \/ Ends(r, "BLOCKED")
       \/ Ends(r, "REJECTED")
       \/ \E answer \in KnownResults :
            /\ Known(answer) \subseteq run[r].required
            /\ IF Agree(answer, run[r].base) /\ Agree(answer, supplement)
               THEN /\ run' = [run EXCEPT ![r].answer = answer] /\ Go(r, "retain")
                    /\ UNCHANGED <<evidence, holder>>
               ELSE Ends(r, "REJECTED")
    /\ UNCHANGED <<world, crashes>>

\* publish_result, record by record; what is stored or in the season file is left alone
Unretained(r) == Known(run[r].answer) \ (Known(supplement) \cup Known(run[r].base))
MutantRetain(r) ==
    /\ pc[r] = "retain"
    /\ IF Unretained(r) # {}
       THEN /\ \E m \in Unretained(r) : supplement' = [supplement EXCEPT ![m] = run[r].answer[m]]
            /\ UNCHANGED <<pc, run, attempts, predictions, receipts, holder>>
       ELSE Go(r, "prepare") /\ UNCHANGED <<run, evidence, holder>>
    /\ UNCHANGED <<world, crashes, fetches>>
Retain(r) ==
    /\ pc[r] = "retain"
    /\ IF Unretained(r) # {}
       THEN /\ \E m \in Unretained(r) : supplement' = [supplement EXCEPT ![m] = run[r].answer[m]]
            /\ UNCHANGED <<pc, run, attempts, predictions, receipts, holder>>
       ELSE IF Missing(r) = {} THEN Go(r, "prepare") /\ UNCHANGED <<run, evidence, holder>>
       ELSE Ends(r, "BLOCKED")
    /\ UNCHANGED <<world, crashes, fetches>>

Prepared(r, entry, model) ==
    [fixture |-> entry[1], kickoff |-> entry[2], model |-> model, at |-> now,
     base |-> run[r].base, required |-> run[r].required,
     used |-> [m \in Past |-> IF run[r].base[m] = None THEN supplement[m] ELSE None]]
SameSources(p, q) == p.base = q.base /\ p.used = q.used

\* a forecast on file is reused when it was made from these sources, else the market is blocked
MutantExisting(p) == {q \in predictions : q.fixture = p.fixture /\ q.kickoff = p.kickoff /\ q.model = p.model
                                           /\ SameSources(p, q)}
Existing(p) == {q \in predictions : q.fixture = p.fixture /\ q.kickoff = p.kickoff /\ q.model = p.model}

MutantTimely(p) == TRUE
Timely(p) == p.at < p.kickoff
Wanted(r) == {Prepared(r, e, m) : e \in run[r].fixtures, m \in Models}
Reused(r) == {q \in UNION {Existing(p) : p \in Wanted(r)} :
                 \E p \in Wanted(r) : q \in Existing(p) /\ SameSources(p, q)}
Fresh(r) == {p \in Wanted(r) : Existing(p) = {} /\ Timely(p)}
Prepare(r) ==
    /\ pc[r] = "prepare"
    /\ \E todo \in SUBSET Fresh(r) :    \* the others lack an input the model requires
          IF Reused(r) \cup todo = {} THEN Ends(r, "REJECTED")
          ELSE /\ run' = [run EXCEPT ![r] = [todo |-> todo, covers |-> Reused(r) \cup todo]]
               /\ Go(r, "publish") /\ UNCHANGED <<evidence, holder>>
    /\ UNCHANGED <<world, crashes, fetches>>

MutantPublish(r) ==
    /\ pc[r] = "publish"
    /\ \E p \in run[r].covers :
        /\ predictions' = predictions \cup {p}
        /\ End(r, "RECORDED", run[r].covers)
        /\ UNCHANGED <<supplement, attempts>>
    /\ UNCHANGED <<world, crashes, fetches>>
Publish(r) ==
    /\ pc[r] = "publish"
    /\ IF run[r].todo # {}
       THEN \E p \in run[r].todo :
            /\ predictions' = predictions \cup {p}
            /\ run' = [run EXCEPT ![r].todo = @ \ {p}]
            /\ UNCHANGED <<pc, supplement, attempts, receipts, holder>>
       ELSE End(r, "RECORDED", run[r].covers) /\ UNCHANGED <<supplement, attempts, predictions>>
    /\ UNCHANGED <<world, crashes, fetches>>

\* the process dies, without a receipt; or storage fails, and it writes a rejection
Crash(r) ==
    /\ pc[r] # "idle" /\ crashes < MaxCrashes /\ crashes' = crashes + 1
    /\ \/ /\ Go(r, "idle") /\ run' = [run EXCEPT ![r] = None]
          /\ holder' = IF holder = r THEN None ELSE holder
          /\ UNCHANGED evidence
       \/ Ends(r, "REJECTED")
    /\ UNCHANGED <<world, fetches>>

-----------------------------------------------------------------------------

Next ==
    \/ Tick \/ Reschedule \/ FinishMatch \/ Refresh
    \/ \E r \in Runs : \/ Start(r) \/ Load(r) \/ Claim(r) \/ Fetch(r) \/ Retain(r)
                       \/ Prepare(r) \/ Publish(r) \/ Crash(r)

Spec == Init /\ [][Next]_vars

-----------------------------------------------------------------------------
(* Properties                                                              *)

TypeOK ==
    /\ now \in 0 .. Horizon /\ kickoff \in [Fixtures -> Kickoffs] /\ finished \subseteq Past
    /\ base \in KnownResults /\ supplement \in KnownResults
    /\ attempts \subseteq 0 .. Horizon
    /\ \A p \in predictions : p \in Prediction
    /\ \A covers \in receipts : covers # {} /\ \A p \in covers : p \in Prediction
    /\ holder \in Runs \cup {None} /\ \A r \in Runs : pc[r] \notin {"idle"} => holder = r

\* One frozen forecast per fixture, kickoff and model: overlapping runs, deaths between the two models of
\* a fixture and sources that changed in between never freeze a second one.
OneForecast ==
    \A p, q \in predictions :
        p.fixture = q.fixture /\ p.kickoff = q.kickoff /\ p.model = q.model => p = q

\* The provider is asked at most once per claim, and claims are RESULT_RETRY_DELAY apart, whatever
\* became of the request of the earlier one.
RequestsAreSpaced ==
    /\ fetches <= Cardinality(attempts)
    /\ \A a, b \in attempts : a < b => a + Delay <= b

\* A published forecast was frozen before its kickoff, from every result its calendar required, and each
\* supplemental result it names is still on file as it was used.
ForecastsAreReproducible ==
    \A p \in predictions :
        /\ p.at < p.kickoff
        /\ p.required \subseteq Known(p.base) \cup Known(p.used)
        /\ \A m \in Known(p.used) : supplement[m] = p.used[m]

\* A RECORDED receipt names forecasts that are on file; readers take it as the commit of the run.
ReceiptsAreTrue == UNION receipts \subseteq predictions
=============================================================================
