------------------------------ MODULE PLProduct ------------------------------
(***************************************************************************)
(* From a frozen Premier League forecast to a published pick               *)
(* (pl_product_source, pl_acquisition_dispatch, pl_acquisition_handoff,    *)
(* pl_regular_delivery.deliver and the publication writer): cohorts of     *)
(* forecasts are frozen before a response is asked for; a retained response*)
(* is consumed one line at a time, usable or not; publication selects from *)
(* the newest cohort and its newest response only, certifies the choice    *)
(* for the readers and links it inside the original windows.               *)
(*                                                                         *)
(* One fixture, one side of one market.  A response prices each line or    *)
(* not (0).  The locks let one job work at a time; it may stop between any *)
(* two writes.  The clock moves between writes of the same kind.           *)
(***************************************************************************)
EXTENDS Integers, FiniteSets, FiniteSetsExt

CONSTANTS
    Lines,     \* the corner lines, in the order they are ranked
    MaxAge,    \* 15 minutes
    Kickoff,
    Expiry,    \* of the qualification contract
    MaxTime, MaxForecasts, MaxResponses, \* bounds
    None

ProductAssumption ==
    /\ Lines \subseteq Nat /\ Lines /= {} /\ IsFiniteSet(Lines)
    /\ MaxAge \in Nat /\ Kickoff \in Nat /\ Expiry \in Nat /\ MaxTime \in Nat

VARIABLES
    now,
    forecasts,    \* when each cohort was frozen
    responses,    \* retained: the cohort it was asked for, when it came, and its prices
    attempts,     \* epl-saved-operations: the observations of a line that were done
    observations, \* epl-prospective: the response, the line and when recorded
    certificates, \* epl-public-evidence
    picks,        \* the publications
    job           \* the job that holds the locks, or None

vars == <<now, forecasts, responses, attempts, observations, certificates, picks, job>>

Latest(S, time(_)) == {s \in S : \A o \in S : time(o) <= time(s)}

-----------------------------------------------------------------------------
(* What a response offers at a time: _consume and _offers.                 *)

MutantUsable(r, l, at) == r.price[l] > 0 /\ now - r.at <= MaxAge /\ now < Kickoff /\ now < Expiry
Usable(r, l, at) ==
    /\ r.price[l] > 0 /\ at - r.at <= MaxAge
    /\ at < Kickoff /\ at < Expiry

MutantCohort(at) == {f \in forecasts : f <= at}
(* The newest approved cohort, whether or not it has quotes.               *)
Cohort(at) == Latest({f \in forecasts : f <= at}, LAMBDA f : f)

Seen(at) == {o \in observations : o.at <= at /\ o.response.forecast \in Cohort(at)}

MutantNewest(at) == Seen(at)
(* The newest response observed, for all its lines together.               *)
Newest(at) == Latest(Seen(at), LAMBDA o : o.response.at)
Current(at) ==
    UNION {Latest({o \in Seen(at) : o.response \in {n.response : n \in Newest(at)} /\ o.line = l}, LAMBDA o : o.at) : l \in Lines}

Offers(at) == {o \in Current(at) : Usable(o.response, o.line, at)}
Better(o, p) == o.response.price[o.line] > p.response.price[p.line]
                \/ (o.response.price[o.line] = p.response.price[p.line] /\ o.line < p.line)
select(at) == {o \in Offers(at) : \A p \in Offers(at) \ {o} : Better(o, p)}

-----------------------------------------------------------------------------
Init ==
    /\ now = 0
    /\ forecasts = {} /\ responses = {} /\ attempts = {} /\ observations = {}
    /\ certificates = {} /\ picks = {}
    /\ job = None

Tick ==
    /\ now < MaxTime
    /\ now' = now + 1
    /\ UNCHANGED <<forecasts, responses, attempts, observations, certificates, picks, job>>

ClockMoved == \A p \in picks : p.checked < now

(* freeze: actual-clock creation, within the fixture's and the contract's  *)
(* windows.                                                                *)
Freeze ==
    /\ job = None /\ Cardinality(forecasts) < MaxForecasts
    /\ now < Kickoff /\ now < Expiry
    /\ now \notin forecasts /\ ClockMoved
    /\ forecasts' = forecasts \cup {now}
    /\ UNCHANGED <<now, responses, attempts, observations, certificates, picks, job>>

MutantAfterFreeze(f, at) == f <= at
AfterFreeze(f, at) == f < at

(* Approval and windows are checked again just before the reservation.     *)
Dispatched(f) == f \in forecasts /\ now < Kickoff /\ now < Expiry

(* The acquisition asks once its cohort is durable, and retains the        *)
(* response (retain); handoff binds the two.                               *)
Respond(f, price) ==
    /\ job = None /\ Cardinality(responses) < MaxResponses
    /\ Dispatched(f) /\ AfterFreeze(f, now)
    /\ \A r \in responses : r.at < now
    /\ responses' = responses \cup {[forecast |-> f, at |-> now, price |-> price]}
    /\ UNCHANGED <<now, forecasts, attempts, observations, certificates, picks, job>>

(* handoff: the retained response still answers an approved frozen cohort. *)
Handoff(r) ==
    /\ r.forecast \in forecasts /\ AfterFreeze(r.forecast, r.at) /\ r.at <= now
    /\ now < Kickoff /\ now < Expiry

(* deliver: every line of the response, one saved operation each.          *)
Deliver(r) ==
    /\ job = None /\ Handoff(r)
    /\ job' = [pc |-> "observe", response |-> r, lines |-> {l \in Lines : [response |-> r, line |-> l] \notin attempts},
               choice |-> None, checked |-> None, at |-> None]
    /\ UNCHANGED <<now, forecasts, responses, attempts, observations, certificates, picks>>

End == job' = None

MutantKept(r, l) == now < Kickoff /\ Usable(r, l, now)
(* A pair that is unavailable or stale is kept too.                        *)
Kept(r, l) == now < Kickoff

Observe ==
    /\ job /= None /\ job.pc = "observe"
    /\ ClockMoved /\ \A o \in observations : o.response = job.response \/ o.at < now
    /\ IF job.lines = {} \/ now >= Kickoff
       THEN End /\ UNCHANGED <<attempts, observations>>
       ELSE LET l == Min(job.lines)
            IN  /\ attempts' = attempts \cup {[response |-> job.response, line |-> l]}
                /\ observations' = IF Kept(job.response, l)
                                   THEN observations \cup {[response |-> job.response, line |-> l, at |-> now]}
                                   ELSE observations
                /\ job' = [job EXCEPT !.lines = @ \ {l}]
    /\ UNCHANGED <<now, forecasts, responses, certificates, picks>>

MutantSlotFree == TRUE
SlotFree == picks = {}

(* publish: nothing eligible is no work; one slot per fixture.             *)
Select ==
    /\ job = None /\ SlotFree
    /\ \A o \in observations : o.at < now
    /\ now \notin forecasts
    /\ \E o \in select(now) :
        job' = [pc |-> "validate", response |-> o.response, lines |-> {}, choice |-> o, checked |-> now, at |-> None]
    /\ UNCHANGED <<now, forecasts, responses, attempts, observations, certificates, picks>>

(* validate_publication: stamp, then rebuild the choice from the records.  *)
Replays(choice, checked) == choice \in select(checked)
Validate ==
    /\ job /= None /\ job.pc = "validate" /\ \A c \in certificates : c.at < now
    /\ IF now < Kickoff /\ now < Expiry /\ now - job.response.at <= MaxAge /\ Replays(job.choice, job.checked)
       THEN job' = [job EXCEPT !.pc = "certify", !.at = now] ELSE End
    /\ UNCHANGED <<now, forecasts, responses, attempts, observations, certificates, picks>>

MutantWindow(choice) == now < Kickoff
(* publication_window, before and after the certificate.                   *)
Window(choice) == Usable(choice.response, choice.line, now)

Certify ==
    /\ job /= None /\ job.pc = "certify"
    /\ IF Window(job.choice)
       THEN /\ certificates' = certificates \cup
                 {[choice |-> job.choice, at |-> job.at, verified |-> now,
                   until |-> Min({Kickoff, Expiry, job.response.at + MaxAge + 1})]}
            /\ job' = [job EXCEPT !.pc = "link"]
       ELSE End /\ UNCHANGED certificates
    /\ UNCHANGED <<now, forecasts, responses, attempts, observations, picks>>

Link ==
    /\ job /= None /\ job.pc = "link"
    /\ IF Window(job.choice)
       THEN picks' = picks \cup {[choice |-> job.choice, checked |-> job.checked, at |-> job.at, linked |-> now]}
       ELSE UNCHANGED picks
    /\ End
    /\ UNCHANGED <<now, forecasts, responses, attempts, observations, certificates>>

Crash ==
    /\ job /= None
    /\ End
    /\ UNCHANGED <<now, forecasts, responses, attempts, observations, certificates, picks>>

Next ==
    \/ Tick \/ Freeze \/ Observe \/ Select \/ Validate \/ Certify \/ Link \/ Crash
    \/ \E f \in forecasts, price \in [Lines -> 0 .. 1] : Respond(f, price)
    \/ \E r \in responses : Deliver(r)

Spec == Init /\ [][Next]_vars

-----------------------------------------------------------------------------
TypeOK ==
    /\ now \in 0 .. MaxTime
    /\ \A r \in responses : r.forecast \in forecasts
    /\ \A o \in observations : o.response \in responses /\ o.at < Kickoff
    /\ Cardinality(picks) <= 1

(* No forecast is made in sight of the prices it is compared with: every   *)
(* observation's response came after its cohort was frozen.                *)
ForecastFirst == \A o \in observations : o.response.forecast < o.response.at /\ o.response.at <= o.at

(* A pick never uses a price that a newer response was seen to replace,    *)
(* also when the newer one had no usable price, was delivered for another  *)
(* line only, or was delivered before the older.                           *)
NoOlderPrice ==
    \A p \in picks : \A a \in attempts :
        (\E o \in observations : o.response = a.response /\ o.line = a.line /\ o.at > p.checked)
        \/ a.response.forecast < p.choice.response.forecast
        \/ a.response.at <= p.choice.response.at

(* A newer frozen cohort that has no quotes suppresses older prices.       *)
NewestCohort ==
    \A p \in picks : \A f \in forecasts : f <= p.checked => f <= p.choice.response.forecast

(* However long the certificate took to write, the pick is linked while its*)
(* price, the contract and the fixture still stand.                        *)
LinkedInWindow ==
    \A p \in picks : p.linked - p.choice.response.at <= MaxAge /\ p.linked < Kickoff /\ p.linked < Expiry

(* Every later read rebuilds the pick from the records as of its check, and*)
(* finds one certificate for it, whatever was recorded since.              *)
PicksReplay ==
    \A p \in picks :
        /\ Replays(p.choice, p.checked)
        /\ Cardinality({c \in certificates : c.choice = p.choice /\ c.at = p.at /\ c.verified <= p.linked}) = 1
=============================================================================
