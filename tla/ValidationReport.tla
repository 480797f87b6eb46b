------------------------- MODULE ValidationReport -------------------------
(* One validation of a candidate revision: the trusted harness             *)
(* (ops/vps/validate_capture.py) runs the candidate's own client, capture  *)
(* and evidence code inside a container, checks every claim against what   *)
(* it observed, and writes one report; the worker outside                  *)
(* (ops/vps/validate_pr.py) relays the provider requests of a LIVE run,    *)
(* checks the report and adds what only it knows.                          *)
(*                                                                         *)
(* The candidate is arbitrary: it may request in any order and number,     *)
(* answer with anything, raise anything or end the interpreter.  It does   *)
(* not reach into the harness's own objects: the source leaves such        *)
(* introspection outside its claims.                                       *)
EXTENDS Naturals, Sequences, FiniteSets

CONSTANTS
  MaxCalls,    \* bound on the candidate's metered requests
  MaxOpens     \* bound on its transport requests

BoundsAssumption == MaxCalls \in Nat /\ MaxOpens \in Nat

VARIABLES
  mode,        \* "OFFLINE" or "LIVE"
  stage,       \* where run_capture, then the worker, then the parent, is
  calls,       \* metered requests, in order
  answered,    \* endpoints the transport answered
  scenario,    \* the offline opener's requests
  opens,       \* transport requests so far
  upstream,    \* requests the relay sent to the provider
  failure,     \* the relay's sticky failure
  cached,      \* the relay holds a market response
  listed,      \* the relay has seen a fixture
  held,        \* the facts about the candidate's output that hold so far
  report       \* the report as it stands

vars == <<mode, stage, calls, answered, scenario, opens, upstream, failure,
          cached, listed, held, report>>
transport == <<answered, scenario, opens, upstream, failure, cached, listed>>

----------------------------------------------------------------------------
(* Reports.                                                                *)

NoFailure == "none"
Endpoints == {"fixtures", "markets", "odds"}
Exactly == <<"fixtures", "markets", "odds">>
LIVE_BUDGET == 3

Reasons ==
  {"COMPLETE", "NO_ELIGIBLE_FIXTURE", "NO_TEAM_TOTALS", "INSUFFICIENT_HISTORY",
   "PROVIDER_ERROR", "ASSERTION_FAILED", "EXECUTION_ERROR", "SECURITY_ERROR",
   "REQUEST_BUDGET_EXCEEDED", "CLEANUP_FAILED", "INVALID_REPORT", "TIMEOUT",
   "HISTORY_UNAVAILABLE", "CLIENT_INTERFACE_CHANGED", "OFFLINE_SCENARIO_INVALID",
   "MARKET_INTELLIGENCE_FAILED", "STRATEGY_VALIDATION_FAILED"}

MutantBlankReport(m, r) ==
  [result |-> "FAIL", mode |-> "OFFLINE", reason |-> r, cleanup |-> "PENDING",
   leak |-> "unset", strategy |-> "NOT_RUN", core |-> "NOT_RUN",
   market |-> "NOT_RUN", replay |-> "NOT_RUN", compat |-> "NOT_RUN",
   provider |-> 0, scenario |-> 0, supported |-> 0, replayRequests |-> 0,
   predictions |-> 0, targets |-> 0, immutable |-> FALSE, identical |-> FALSE,
   hash |-> FALSE]

BlankReport(m, r) ==
  [result |-> "FAIL", mode |-> m, reason |-> r, cleanup |-> "PENDING",
   leak |-> "unset", strategy |-> "NOT_RUN", core |-> "NOT_RUN",
   market |-> "NOT_RUN", replay |-> "NOT_RUN", compat |-> "NOT_RUN",
   provider |-> 0, scenario |-> 0, supported |-> 0, replayRequests |-> 0,
   predictions |-> 0, targets |-> 0, immutable |-> FALSE, identical |-> FALSE,
   hash |-> FALSE]

Components(r) == {r.strategy, r.core, r.market, r.replay, r.compat}

(* checked_report, run by the worker and again by its parent.              *)
ModeConsistent(r) ==
  IF r.mode = "OFFLINE"
  THEN r.compat = "NOT_RUN" /\ r.provider = 0 /\ r.result # "BLOCKED"
  ELSE r.provider <= LIVE_BUDGET /\ r.scenario = 0
       /\ r.market = "NOT_RUN" /\ r.strategy = "NOT_RUN"

OutcomeConsistent(r) ==
  /\ r.result # "FAIL" =>
       "FAIL" \notin Components(r) /\ r.cleanup # "FAILED" /\ r.leak # "no"
  /\ (r.reason = "COMPLETE") <=> (r.result = "PASS")
  /\ r.compat = "BLOCKED" => r.result # "PASS"
  /\ r.core = "PASS" => r.immutable /\ r.predictions = 1 /\ r.targets >= 1
  /\ (r.replay = "PASS") <=> r.identical
  /\ r.replay = "PASS" => r.replayRequests = 0

BlockedConsistent(r) ==
  r.result = "BLOCKED" =>
    /\ r.reason \in {"NO_ELIGIBLE_FIXTURE", "NO_TEAM_TOTALS",
                     "INSUFFICIENT_HISTORY", "HISTORY_UNAVAILABLE"}
    /\ r.compat \in {"BLOCKED", "NOT_RUN"}
    /\ {r.core, r.replay, r.market} = {"NOT_RUN"}

StagesConsistent(r) ==
  \/ r.strategy \in {"PASS", "FAIL"}
  \/ r.market \in {"PASS", "FAIL", "NOT_APPLICABLE"}
  \/ r.compat = "PASS"
  => r.core = "PASS" /\ r.replay = "PASS"

PassConsistent(r) ==
  r.result = "PASS" =>
    /\ r.core = "PASS" /\ r.replay = "PASS" /\ r.immutable /\ r.identical
    /\ r.supported >= 1 /\ r.replayRequests = 0 /\ r.hash
    /\ IF r.mode = "OFFLINE"
       THEN /\ r.scenario = 3 /\ r.strategy = "PASS"
            /\ r.market \in {"PASS", "NOT_APPLICABLE"}
       ELSE r.compat = "PASS" /\ r.provider = LIVE_BUDGET

CheckedReport(r) ==
  ModeConsistent(r) /\ OutcomeConsistent(r) /\ BlockedConsistent(r)
    /\ StagesConsistent(r) /\ PassConsistent(r)

(* offline_report.validate_report: the independent policy the release      *)
(* evidence and the GitHub side apply to what the parent prints.           *)
OfflinePolicy(r) ==
  /\ r.mode = "OFFLINE" /\ r.result \in {"PASS", "FAIL"} /\ r.reason \in Reasons
  /\ r.compat = "NOT_RUN" /\ r.provider = 0
  /\ (r.reason = "COMPLETE") <=> (r.result = "PASS")
  /\ r.core = "PASS" => r.immutable /\ r.predictions = 1 /\ r.targets >= 1
  /\ (r.replay = "PASS") <=> r.identical
  /\ r.replay = "PASS" => r.replayRequests = 0
  /\ (r.strategy # "NOT_RUN" \/ r.market # "NOT_RUN") =>
       r.core = "PASS" /\ r.replay = "PASS"
  /\ r.result = "PASS" =>
       /\ r.cleanup = "COMPLETE" /\ r.leak = "yes"
       /\ r.core = "PASS" /\ r.replay = "PASS" /\ r.strategy = "PASS"
       /\ r.market \in {"PASS", "NOT_APPLICABLE"}
       /\ r.scenario = 3 /\ r.supported >= 1 /\ r.hash

----------------------------------------------------------------------------
(* What the harness asserts about the candidate's output, by stage.  A     *)
(* fact is the conclusion of a group of its assertions.                    *)

QuoteFacts == {"quotes: fixture", "quotes: identities", "quotes: availability",
               "quotes: terms"}
CaptureFacts == {"capture: hashes", "capture: version", "capture: before kickoff",
                 "capture: selections", "capture: sources", "capture: gated"}
EvidenceFacts == {"evidence: prediction", "evidence: observation",
                  "evidence: targets", "evidence: opportunities"}
ReplayFacts == {"replay: nothing created", "replay: same answer",
                "replay: same files", "replay: no request"}
MarketFacts == {"market: best offer", "market: qualified", "market: stale",
                "market: unavailable", "market: negative", "market: read only"}
StrategyFacts == {"strategy: one per slot", "strategy: refresh", "strategy: kickoff",
                  "strategy: settled", "strategy: conflicts", "strategy: read only"}

Candidate == {"quotes", "capture", "replay", "market", "strategy"}
Facts(s) ==
  CASE s = "quotes" -> QuoteFacts
    [] s = "capture" -> CaptureFacts \cup EvidenceFacts
    [] s = "replay" -> ReplayFacts
    [] s = "market" -> MarketFacts
    [] OTHER -> StrategyFacts

(* The candidate's output of a stage gets at most one fact wrong.          *)
Outputs(s) == {Facts(s)} \cup {Facts(s) \ {f} : f \in Facts(s)}

VerifyQuoteSource(facts) == QuoteFacts \subseteq facts
VerifyCapture(facts) == CaptureFacts \subseteq facts
VerifyMaterializedEvidence(facts) == EvidenceFacts \subseteq facts
ReplayIdentical(facts) == ReplayFacts \subseteq facts
MarketIntelligenceComponent(facts) == MarketFacts \subseteq facts
StrategyComponent(facts) == StrategyFacts \subseteq facts

----------------------------------------------------------------------------
(* Transport: the offline opener, or the relay of a LIVE run.              *)

OfflineOpen(e) ==
  /\ mode = "OFFLINE"
  /\ IF Len(scenario) < Len(Exactly) /\ e = Exactly[Len(scenario) + 1]
     THEN scenario' = Append(scenario, e) /\ answered' = answered \cup {e}
     ELSE UNCHANGED <<scenario, answered>>
  /\ UNCHANGED <<upstream, failure, cached, listed>>

Sticky(reason) ==
  IF reason = "SECURITY_ERROR" \/ failure = NoFailure THEN reason ELSE failure

(* The relay forwards a well formed request, and an odds request only for  *)
(* a fixture the provider has listed.                                      *)
Allowed(e) == e = "odds" => listed

Rejected(e, wellFormed) ==
  /\ failure' =
       IF ~wellFormed \/ ~Allowed(e) THEN "SECURITY_ERROR"
       ELSE IF failure # NoFailure THEN failure
       ELSE "REQUEST_BUDGET_EXCEEDED"
  /\ UNCHANGED <<upstream, answered, cached, listed>>

(* The provider answers with a value, with its "no fixture" answer, with   *)
(* an error status, with something malformed, or with a credential.        *)
Forwarded(e) ==
  /\ upstream' = Append(upstream, e)
  /\ \/ /\ answered' = answered \cup {e}
        /\ cached' = (cached \/ e = "markets")
        /\ \E some \in BOOLEAN : listed' = (listed \/ (e = "fixtures" /\ some))
        /\ UNCHANGED failure
     \/ e = "fixtures" /\ answered' = answered \cup {e}
        /\ UNCHANGED <<failure, cached, listed>>
     \/ \E reason \in {"PROVIDER_ERROR", "SECURITY_ERROR"} :
          failure' = Sticky(reason) /\ UNCHANGED <<answered, cached, listed>>

MutantRelayGet(e, wellFormed) ==
  /\ mode = "LIVE"
  /\ IF ~wellFormed \/ ~Allowed(e)
     THEN Rejected(e, wellFormed)
     ELSE IF e = "markets" /\ cached
     THEN answered' = answered \cup {e} /\ UNCHANGED <<upstream, failure, cached, listed>>
     ELSE IF Len(upstream) >= LIVE_BUDGET THEN Rejected(e, wellFormed)
     ELSE Forwarded(e)
  /\ UNCHANGED scenario

RelayGet(e, wellFormed) ==
  /\ mode = "LIVE"
  /\ IF ~wellFormed \/ ~Allowed(e) \/ failure # NoFailure
     THEN Rejected(e, wellFormed)
     ELSE IF e = "markets" /\ cached
     THEN answered' = answered \cup {e} /\ UNCHANGED <<upstream, failure, cached, listed>>
     ELSE IF Len(upstream) >= LIVE_BUDGET THEN Rejected(e, wellFormed)
     ELSE Forwarded(e)
  /\ UNCHANGED scenario

Running == stage \in {"client"} \cup Candidate

(* A transport request: made inside a metered request or beside it.        *)
Open ==
  /\ Running /\ opens < MaxOpens
  /\ opens' = opens + 1
  /\ \E e \in Endpoints, wellFormed \in BOOLEAN :
       RelayGet(e, wellFormed) \/ (wellFormed /\ OfflineOpen(e))
  /\ UNCHANGED <<mode, stage, calls, held, report>>

----------------------------------------------------------------------------
(* run_capture.                                                            *)

Init ==
  /\ mode \in {"OFFLINE", "LIVE"} /\ stage = "client"
  /\ calls = <<>> /\ answered = {} /\ scenario = <<>> /\ opens = 0
  /\ upstream = <<>> /\ failure = NoFailure /\ cached = FALSE /\ listed = FALSE
  /\ held = {} /\ report = BlankReport(mode, "EXECUTION_ERROR")

(* The finally clause: the counts come from what the harness saw.          *)
Counted(r) ==
  [r EXCEPT !.provider = IF mode = "LIVE" THEN Len(calls) ELSE 0,
            !.scenario = Len(scenario),
            !.replayRequests =
              IF stage = "replay" /\ "replay: no request" \notin held' THEN 1 ELSE 0]

Write(r) == report' = Counted(r) /\ stage' = "written"

(* metered: the request is counted before its value is compared with what  *)
(* the transport delivered, and the candidate may ignore the refusal.      *)
(* During the replay it is refused and counted apart.                      *)
Get(e) ==
  /\ Running /\ stage # "replay" /\ Len(calls) < MaxCalls
  /\ calls' = Append(calls, e)
  /\ UNCHANGED <<mode, stage, held, report, transport>>

Failed(reason) ==
  [report EXCEPT !.result = "FAIL", !.reason = reason, !.core = "FAIL",
                 !.compat = IF mode = "LIVE" THEN "FAIL" ELSE "NOT_RUN"]

(* The candidate's code raises in a stage the outer handlers cover, or an  *)
(* assertion of the harness fails.                                         *)
Raises ==
  /\ stage \in {"client", "quotes", "capture", "replay"}
  /\ \E reason \in {"PROVIDER_ERROR", "ASSERTION_FAILED", "EXECUTION_ERROR",
                    "SECURITY_ERROR", "CLIENT_INTERFACE_CHANGED",
                    "OFFLINE_SCENARIO_INVALID", "HISTORY_UNAVAILABLE"} :
       \E out \in {ReplayFacts, {}} : held' = held \cup out /\ Write(Failed(reason))
  /\ UNCHANGED <<mode, calls, transport>>

(* A reason of "nothing to validate" blocks a LIVE run and fails an        *)
(* OFFLINE one, whose scenario is fixed.                                   *)
Nothing(reason) ==
  Write([report EXCEPT !.result = IF mode = "LIVE" THEN "BLOCKED" ELSE "FAIL",
                       !.reason = reason,
                       !.compat = IF mode = "LIVE" THEN "BLOCKED" ELSE "NOT_RUN"])

Fixtures ==
  /\ stage = "client" /\ "fixtures" \in answered
  /\ \E i \in 1..Len(calls) : calls[i] = "fixtures"
  /\ \/ stage' = "quotes" /\ UNCHANGED <<held, report>>
     \/ held' = held /\ Nothing("NO_ELIGIBLE_FIXTURE")
  /\ UNCHANGED <<mode, calls, transport>>

Quotes ==
  /\ stage = "quotes"
  /\ \E out \in Outputs("quotes") :
       /\ held' = held \cup out
       /\ IF \/ calls # Exactly \/ ~(Endpoints \subseteq answered)
             \/ ~VerifyQuoteSource(held')
             \/ mode = "OFFLINE" /\ scenario # Exactly
          THEN Write(Failed("ASSERTION_FAILED"))
          ELSE \/ stage' = "capture" /\ UNCHANGED report
               \/ Nothing("NO_TEAM_TOTALS")
  /\ UNCHANGED <<mode, calls, transport>>

Capture ==
  /\ stage = "capture"
  /\ \E out \in Outputs("capture") :
       /\ held' = held \cup out
       /\ \/ Nothing("INSUFFICIENT_HISTORY")
          \/ IF VerifyCapture(held') /\ VerifyMaterializedEvidence(held')
             THEN stage' = "replay" /\ UNCHANGED report
             ELSE Write(Failed("ASSERTION_FAILED"))
  /\ UNCHANGED <<mode, calls, transport>>

MutantEstablished ==
  [report EXCEPT !.core = "PASS", !.replay = "PASS",
                 !.compat = IF mode = "LIVE" THEN "PASS" ELSE "NOT_RUN",
                 !.supported = 1, !.targets = 1,
                 !.hash = TRUE, !.immutable = TRUE, !.identical = TRUE]

Established ==
  [report EXCEPT !.core = "PASS", !.replay = "PASS",
                 !.compat = IF mode = "LIVE" THEN "PASS" ELSE "NOT_RUN",
                 !.supported = 1, !.predictions = 1, !.targets = 1,
                 !.hash = TRUE, !.immutable = TRUE, !.identical = TRUE]

Replay ==
  /\ stage = "replay"
  /\ \E out \in Outputs("replay") :
       /\ held' = held \cup out
       /\ IF ~ReplayIdentical(held') THEN Write(Failed("ASSERTION_FAILED"))
          ELSE IF mode = "LIVE"
          THEN Write([Established EXCEPT !.result = "PASS", !.reason = "COMPLETE"])
          ELSE stage' = "market" /\ report' = Established
  /\ UNCHANGED <<mode, calls, transport>>

(* The optional component is absent, holds or fails; a failure ends the    *)
(* run with the report of what had been established.                       *)
Market ==
  /\ stage = "market"
  /\ \/ held' = held /\ stage' = "strategy"
        /\ report' = [report EXCEPT !.market = "NOT_APPLICABLE"]
     \/ \E out \in Outputs("market") :
          /\ held' = held \cup out
          /\ IF MarketIntelligenceComponent(held')
             THEN stage' = "strategy" /\ report' = [report EXCEPT !.market = "PASS"]
             ELSE Write([report EXCEPT !.reason = "MARKET_INTELLIGENCE_FAILED",
                                       !.market = "FAIL"])
  /\ UNCHANGED <<mode, calls, transport>>

Strategy ==
  /\ stage = "strategy"
  /\ \E out \in Outputs("strategy") :
       /\ held' = held \cup out
       /\ IF StrategyComponent(held')
          THEN Write([report EXCEPT !.result = "PASS", !.reason = "COMPLETE",
                                    !.strategy = "PASS"])
          ELSE Write([report EXCEPT !.reason = "STRATEGY_VALIDATION_FAILED",
                                    !.strategy = "FAIL"])
  /\ UNCHANGED <<mode, calls, transport>>

(* The candidate ends the interpreter: the harness's main program writes   *)
(* the report it started with.                                             *)
Exits ==
  /\ Running
  /\ report' = BlankReport(mode, "EXECUTION_ERROR") /\ stage' = "written"
  /\ UNCHANGED <<mode, calls, held, transport>>

----------------------------------------------------------------------------
(* The worker and its parent.                                              *)

Blank(reason) ==
  [BlankReport(mode, reason) EXCEPT
     !.leak = IF reason = "SECURITY_ERROR" THEN "no" ELSE "unset",
     !.provider = Len(upstream)]

MutantRelayVerdict(r) ==
  IF failure # NoFailure THEN Blank(failure)
  ELSE IF ~CheckedReport(r) THEN Blank("INVALID_REPORT")
  ELSE [r EXCEPT !.provider = Len(upstream), !.leak = "yes"]

MutantQuietVerdict(r) ==
  IF ~CheckedReport(r) THEN Blank("INVALID_REPORT")
  ELSE [r EXCEPT !.provider = Len(upstream), !.leak = "yes"]

RelayVerdict(r) ==
  IF failure # NoFailure THEN Blank(failure)
  ELSE IF ~CheckedReport(r) THEN Blank("INVALID_REPORT")
  ELSE IF r.result = "PASS" /\ mode = "LIVE" /\ upstream # Exactly
  THEN Blank("ASSERTION_FAILED")
  ELSE [r EXCEPT !.provider = Len(upstream), !.leak = "yes"]

(* A report that is missing, oversized or late, or that carries a          *)
(* credential, is replaced as well; a relay failure explains it unless it  *)
(* is a matter of security.                                                *)
Replaced(reason) ==
  IF failure # NoFailure /\ reason # "SECURITY_ERROR" THEN Blank(failure) ELSE Blank(reason)

MutantCleaned(r, done) ==
  IF done THEN [r EXCEPT !.cleanup = "COMPLETE"] ELSE [r EXCEPT !.cleanup = "FAILED"]

Cleaned(r, done) ==
  IF done THEN [r EXCEPT !.cleanup = "COMPLETE"]
  ELSE [r EXCEPT !.result = "FAIL", !.reason = "CLEANUP_FAILED", !.cleanup = "FAILED"]

Worker ==
  /\ stage = "written" /\ stage' = "checked"
  /\ \E done \in BOOLEAN :
       report' \in {Cleaned(r, done) :
                      r \in {RelayVerdict(report)} \cup
                            {Replaced(reason) : reason \in
                               {"TIMEOUT", "EXECUTION_ERROR", "INVALID_REPORT",
                                "SECURITY_ERROR"}}}
  /\ UNCHANGED <<mode, calls, held, transport>>

(* The parent checks again what the service printed and cleans up itself.  *)
Parent ==
  /\ stage = "checked" /\ stage' = "final"
  /\ \E done \in BOOLEAN :
       report' \in {Cleaned(r, done) :
                      r \in {IF CheckedReport(report) THEN report
                             ELSE BlankReport(mode, "INVALID_REPORT"),
                             BlankReport(mode, "TIMEOUT")}}
  /\ UNCHANGED <<mode, calls, held, transport>>

Next ==
  \/ Open \/ (\E e \in Endpoints : Get(e)) \/ Raises \/ Fixtures \/ Quotes \/ Capture
  \/ Replay \/ Market \/ Strategy \/ Exits \/ Worker \/ Parent

Spec == Init /\ [][Next]_vars

----------------------------------------------------------------------------
TypeOK ==
  /\ mode \in {"OFFLINE", "LIVE"}
  /\ stage \in {"client", "written", "checked", "final"} \cup Candidate
  /\ calls \in Seq(Endpoints) /\ Len(calls) <= MaxCalls
  /\ answered \subseteq Endpoints /\ opens \in 0..MaxOpens
  /\ scenario \in Seq(Endpoints) /\ upstream \in Seq(Endpoints)
  /\ failure \in {NoFailure, "PROVIDER_ERROR", "SECURITY_ERROR",
                  "REQUEST_BUDGET_EXCEEDED"}
  /\ cached \in BOOLEAN /\ listed \in BOOLEAN
  /\ report.reason \in Reasons /\ report.mode = mode
  /\ report.result \in {"PASS", "FAIL", "BLOCKED"}

(* Whatever the candidate does, the report the harness writes is one the   *)
(* worker's check accepts: the two were written independently, and a       *)
(* failure must not be hidden behind INVALID_REPORT.  The exception is a   *)
(* LIVE candidate that makes more requests than the budget, which the      *)
(* harness counts although they are answered from its cache.               *)
HarnessReportsAccepted ==
  stage = "written" /\ Len(calls) <= LIVE_BUDGET => CheckedReport(report)

(* What the worker prints, its parent accepts: a verdict is not lost       *)
(* between the two.                                                        *)
WorkerReportsAccepted == stage = "checked" => CheckedReport(report)

(* A PASS is earned: every assertion of the harness held, the replay made  *)
(* no request, and the requests were exactly the three expected ones, to   *)
(* the provider in a LIVE run and to nobody in an OFFLINE one.             *)
PassIsEarned ==
  stage = "final" /\ report.result = "PASS" =>
    /\ QuoteFacts \cup CaptureFacts \cup EvidenceFacts \cup ReplayFacts \subseteq held
    /\ failure = NoFailure
    /\ mode = "LIVE" => upstream = Exactly
    /\ mode = "OFFLINE" =>
         /\ upstream = <<>> /\ scenario = Exactly /\ StrategyFacts \subseteq held
         /\ report.market = "PASS" => MarketFacts \subseteq held

(* The final OFFLINE report, whatever happened, satisfies the independent  *)
(* policy applied by the release evidence and by the GitHub side: a        *)
(* failure reaches them as that failure.                                   *)
PoliciesAgree == stage = "final" /\ mode = "OFFLINE" => OfflinePolicy(report)

(* The relay sends at most three requests, none after a failure, and never *)
(* a second markets request once it has an answer.                         *)
RelayFrugal ==
  upstream' # upstream =>
       /\ Len(upstream') <= LIVE_BUDGET /\ failure = NoFailure
       /\ ~(cached /\ upstream'[Len(upstream')] = "markets")

(* A run whose relay failed never ends as anything but a failure, and one  *)
(* whose relay saw a security failure says so, unless the report was lost  *)
(* or the clean-up failed.                                                 *)
RelayFailureTells ==
  /\ stage \in {"checked", "final"} /\ failure # NoFailure => report.result = "FAIL"
  /\ stage = "checked" /\ failure = "SECURITY_ERROR" =>
       report.reason \in {"SECURITY_ERROR", "CLEANUP_FAILED"}
============================================================================
