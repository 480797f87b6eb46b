-------------------------- MODULE ResearchSettlement --------------------------
(***************************************************************************)
(* Settlement of the research forecasts: the automatic run after a refresh *)
(* (research_settlement.py) and an operator's sweep (research_outcomes.py) *)
(* settle corners and BTTS per exact fixture; a reviewer settles or        *)
(* corrects one BTTS outcome (btts_outcomes.py, btts_corrections.py).      *)
(* Forecasts are frozen beside it by the forecast-only runner and by the   *)
(* collector's BTTS branch (btts_research.py), fixtures are rescheduled    *)
(* and the publisher of the results corrects a score.                      *)
(***************************************************************************)
EXTENDS Integers, FiniteSets, Sequences, FiniteSetTheorems, TLAPS

CONSTANTS
    Matches, Kickoffs, Scores,
    Timer,        \* invocations of the automatic run
    Sweeps,       \* invocations of the offline sweep by an operator
    Reviewers,    \* operators at the BTTS command line
    None,
    Horizon, MaxFiles, MaxCrashes   \* bounds

Runs == Timer \cup Sweeps
Actors == Runs \cup Reviewers
Markets == {"CORNER", "BTTS"}
Fixture == Matches \X Kickoffs

VARIABLES
    now,
    kickoff,      \* when each match is to be played now
    files,        \* the season files published so far, the last one current
    forecasts,    \* research-predictions and btts-research, frozen in the order of "at"
    outcomes,     \* research-corner-outcomes and btts-outcomes, per fixture
    corrections,  \* btts-corrections
    locked,       \* research-settlement-runs/.lock
    receipts,     \* what terminal receipts say was settled
    pc, run,      \* per actor
    crashes

books == <<outcomes, corrections>>
world == <<now, kickoff, files, forecasts>>
vars == <<world, books, locked, receipts, pc, run, crashes>>

Forecast == [fixture: Fixture, market: Markets, origin: {"ODDS_FREE", "BOOKMAKER"}, at: Nat]
Outcome == [forecast: Forecast, file: 1 .. MaxFiles, result: Scores]
\* a revision is named by the hash of its content
Revision == [file: 1 .. MaxFiles, by: Reviewers \cup {None}]
Correction == [fixture: Fixture, supersedes: Revision, file: 1 .. MaxFiles, by: Reviewers, result: Scores]

SettlementConstants ==
    /\ Kickoffs \subseteq Nat /\ {Horizon, MaxCrashes} \subseteq Nat /\ MaxFiles \in Nat \ {0}
    /\ Timer \cap Sweeps = {} /\ Runs \cap Reviewers = {} /\ None \notin Outcome

Init ==
    /\ now = 0 /\ kickoff \in [Matches -> Kickoffs]
    /\ files = <<[m \in Matches |-> None]>> /\ forecasts = {}
    /\ outcomes = [s \in Markets \X Fixture |-> None] /\ corrections = {}
    /\ locked = FALSE /\ receipts = {}
    /\ pc = [a \in Actors |-> "idle"] /\ run = [a \in Actors |-> None] /\ crashes = 0

-----------------------------------------------------------------------------
(* The world: time, the schedule, the publisher and the writers of forecasts *)

Tick == now < Horizon /\ now' = now + 1
        /\ UNCHANGED <<kickoff, files, forecasts, books, locked, receipts, pc, run, crashes>>
Reschedule ==
    /\ \E m \in Matches, k \in Kickoffs : now < kickoff[m] /\ k > kickoff[m] /\ kickoff' = [kickoff EXCEPT ![m] = k]
    /\ UNCHANGED <<now, files, forecasts, books, locked, receipts, pc, run, crashes>>

\* the refresh replaces the season file: a match that was played appears, or its score is corrected
Publish ==
    /\ Len(files) < MaxFiles
    /\ \E m \in Matches, s \in Scores :
        /\ kickoff[m] < now
        /\ files' = Append(files, [files[Len(files)] EXCEPT ![m] = [kickoff |-> kickoff[m], score |-> s]])
    /\ UNCHANGED <<now, kickoff, forecasts, books, locked, receipts, pc, run, crashes>>

\* the runner freezes one forecast per fixture and market; the collector one per match, kept when it moves
Unfrozen(m, market, origin) ==
    IF origin = "ODDS_FREE"
    THEN \A f \in forecasts : f.origin = origin /\ f.market = market => f.fixture # <<m, kickoff[m]>>
    ELSE market = "BTTS" /\ \A f \in forecasts : f.origin = origin => f.fixture[1] # m
Freeze ==
    /\ \E m \in Matches, market \in Markets, origin \in {"ODDS_FREE", "BOOKMAKER"} :
        /\ now < kickoff[m] /\ Unfrozen(m, market, origin)
        /\ forecasts' = forecasts \cup {[fixture |-> <<m, kickoff[m]>>, market |-> market, origin |-> origin,
                                         at |-> Cardinality(forecasts)]}
    /\ UNCHANGED <<now, kickoff, files, books, locked, receipts, pc, run, crashes>>

-----------------------------------------------------------------------------
(* Inventories, evidence and chains                                        *)

\* btts_outcomes.inventory and corner_inventory; a provider's match with two identities is refused
Inventory(market) == {f \in forecasts : f.market = market}
Ambiguous(inventory) ==
    \E f, g \in inventory : f.origin = g.origin /\ f.fixture[1] = g.fixture[1] /\ f.fixture # g.fixture

Of(inventory, fixture) == {f \in inventory : f.fixture = fixture}
MutantEarliest(inventory, fixture) ==
    CHOOSE f \in Of(inventory, fixture) : \A g \in Of(inventory, fixture) : g.at <= f.at
Earliest(inventory, fixture) ==
    CHOOSE f \in Of(inventory, fixture) : \A g \in Of(inventory, fixture) : f.at <= g.at

\* csv_bytes_evidence: the row of these teams on the day of the fixture
MutantStated(file, fixture) == files[file][fixture[1]] # None
Stated(file, fixture) ==
    files[file][fixture[1]] # None /\ files[file][fixture[1]].kickoff = fixture[2]
Score(file, fixture) == files[file][fixture[1]].score

\* chain: an outcome and the corrections that supersede each other
Original(fixture) == outcomes[<<"BTTS", fixture>>]
Revisions(fixture) == {c \in corrections : c.fixture = fixture}
Name(c) == [file |-> c.file, by |-> c.by]
First(fixture) == [file |-> Original(fixture).file, by |-> None]
Children(fixture, name) == {c \in Revisions(fixture) : c.supersedes = name}
Tip(fixture) ==
    IF Revisions(fixture) = {} THEN [file |-> Original(fixture).file, by |-> None, result |-> Original(fixture).result]
    ELSE CHOOSE c \in Revisions(fixture) : Children(fixture, Name(c)) = {}
ChainIsValid(fixture) ==
    /\ \A c, d \in Revisions(fixture) : c.supersedes = d.supersedes => c = d
    /\ \A c \in Revisions(fixture) :
        \/ c.supersedes = First(fixture) /\ c.file > Original(fixture).file /\ c.result # Original(fixture).result
        \/ \E d \in Revisions(fixture) : c.supersedes = Name(d) /\ c.file > d.file /\ c.result # d.result

\* the result on file is accepted again: the same evidence, or with reconcile the same result
MutantReplays(market, fixture, file, reconcile) == reconcile \/ Tip(fixture).file = file
Replays(market, fixture, file, reconcile) ==
    LET original == outcomes[<<market, fixture>>]
        tip == IF market = "BTTS" THEN Tip(fixture) ELSE original
    IN \/ original.file = file
       \/ tip.result = Score(file, fixture) /\ (reconcile \/ tip.file = file)

-----------------------------------------------------------------------------
(* The automatic run and the sweep                                         *)

Go(a, place) == pc' = [pc EXCEPT ![a] = place]

\* a second automatic run is BUSY; the lock of a killed one is free again
MutantRunFree == ~locked /\ crashes = 0
RunFree == ~locked
Start(r) ==
    /\ pc[r] = "idle" /\ (r \in Timer => RunFree)
    /\ locked' = (locked \/ r \in Timer) /\ Go(r, "evidence")
    /\ UNCHANGED <<world, books, receipts, run, crashes>>

MutantEnd(r) ==
    /\ Go(r, "idle") /\ run' = [run EXCEPT ![r] = None]
    /\ UNCHANGED locked
End(r) ==
    /\ Go(r, "idle") /\ run' = [run EXCEPT ![r] = None]
    /\ locked' = (locked /\ r \notin Timer)

\* evidence() under the refresh lock, or the file an operator pins: the current season file
Evidence(r) ==
    /\ pc[r] = "evidence"
    /\ run' = [run EXCEPT ![r] = [file |-> Len(files), at |-> now, todo |-> {}, known |-> {},
                                  item |-> None, done |-> {}]]
    /\ Go(r, "inventory") /\ UNCHANGED <<world, books, locked, receipts, crashes>>
\* the refresh was not successful, is stale or of another season
EvidenceUnusable(r) == pc[r] = "evidence" /\ End(r) /\ UNCHANGED <<world, books, receipts, crashes>>

\* the candidates of the sweep; reading the bookmaker inventory may refuse all of them
Candidates(r) == {f \in forecasts : f.origin = "ODDS_FREE" \/ r \in Timer}
Collect(r) ==
    /\ pc[r] = "inventory"
    /\ IF r \in Timer /\ Ambiguous(Inventory("BTTS"))
       THEN End(r) /\ UNCHANGED receipts
       ELSE /\ run' = [run EXCEPT ![r].todo = {<<f.market, f.fixture>> : f \in Candidates(r)}]
            /\ Go(r, "sweep") /\ UNCHANGED <<locked, receipts>>
    /\ UNCHANGED <<world, books, crashes>>

\* the receipt keeps every status; only a settled market says something about the books
Settled(r, item, status) ==
    run' = [run EXCEPT ![r].todo = @ \ {item}, ![r].item = None, ![r].known = {},
                       ![r].done = @ \cup (IF status \in {"RECORDED", "REUSED"}
                                            THEN {[item |-> item, file |-> run[r].file]} ELSE {})]

\* the next market: upcoming, without a result, refused, or read without the lock
Consider(r) ==
    /\ pc[r] = "sweep"
    /\ \E item \in run[r].todo :
        LET market == item[1]  fixture == item[2]
        IN IF fixture[2] >= run[r].at THEN Settled(r, item, "UPCOMING") /\ Go(r, "sweep")
           ELSE IF ~Stated(run[r].file, fixture) THEN Settled(r, item, "UNRESOLVED") /\ Go(r, "sweep")
           ELSE IF Ambiguous(Inventory(market)) THEN Settled(r, item, "CONFLICT") /\ Go(r, "sweep")
           ELSE run' = [run EXCEPT ![r].item = item, ![r].known = Inventory(market)] /\ Go(r, "settle")
    /\ UNCHANGED <<world, books, locked, receipts, crashes>>

Write(market, fixture, forecast, file) ==
    outcomes' = [outcomes EXCEPT ![<<market, fixture>>] =
                    [forecast |-> forecast, file |-> file, result |-> Score(file, fixture)]]

\* settle and settle_corner under the lock of the state directory
Settle(r) ==
    /\ pc[r] = "settle"
    /\ LET item == run[r].item  market == item[1]  fixture == item[2]
       IN /\ IF Inventory(market) # run[r].known THEN Settled(r, item, "REJECTED") /\ UNCHANGED outcomes
             ELSE IF outcomes[item] = None
             THEN Settled(r, item, "RECORDED") /\ Write(market, fixture, Earliest(run[r].known, fixture), run[r].file)
             ELSE /\ Settled(r, item, IF Replays(market, fixture, run[r].file, r \in Timer) THEN "REUSED" ELSE "CONFLICT")
                  /\ UNCHANGED outcomes
          /\ Go(r, "sweep")
    /\ UNCHANGED <<world, corrections, locked, receipts, crashes>>

Finish(r) ==
    /\ pc[r] = "sweep" /\ run[r].todo = {}
    /\ receipts' = receipts \cup run[r].done
    /\ End(r) /\ UNCHANGED <<world, books, crashes>>

\* killed by its time limit, by a signal, or out of storage
Crash(r) ==
    /\ pc[r] # "idle" /\ crashes < MaxCrashes /\ crashes' = crashes + 1
    /\ End(r) /\ UNCHANGED <<world, books, receipts>>

-----------------------------------------------------------------------------
(* One BTTS outcome at the command line                                    *)

\* settle: the operator names a forecast; inventory and evidence are read without a lock
ReadForecast(o) ==
    /\ pc[o] = "idle" /\ ~Ambiguous(Inventory("BTTS"))
    /\ \E f \in Inventory("BTTS"), file \in 1 .. Len(files) :
        /\ Stated(file, f.fixture)
        /\ run' = [run EXCEPT ![o] = [forecast |-> f, file |-> file, known |-> Inventory("BTTS")]]
    /\ Go(o, "settle") /\ UNCHANGED <<world, books, locked, receipts, crashes>>
SettleOne(o) ==
    /\ pc[o] = "settle"
    /\ LET f == run[o].forecast
       IN IF Inventory("BTTS") = run[o].known /\ outcomes[<<"BTTS", f.fixture>>] = None
          THEN Write("BTTS", f.fixture, f, run[o].file) ELSE UNCHANGED outcomes
    /\ Go(o, "idle") /\ run' = [run EXCEPT ![o] = None]
    /\ UNCHANGED <<world, corrections, locked, receipts, crashes>>

\* a correction is reviewed against the tip of the moment and committed later
Review(o) ==
    /\ pc[o] = "idle"
    /\ \E fixture \in Fixture, file \in 1 .. Len(files) :
        /\ Original(fixture) # None /\ Stated(file, fixture)
        /\ run' = [run EXCEPT ![o] = [fixture |-> fixture, file |-> file, tip |-> Name(Tip(fixture))]]
    /\ Go(o, "correct") /\ UNCHANGED <<world, books, locked, receipts, crashes>>

\* correct, under the lock throughout; a replay of the same request changes nothing
MutantAccepted(o) ==
    LET fixture == run[o].fixture  tip == Tip(fixture)
    IN run[o].file > tip.file /\ Score(run[o].file, fixture) # tip.result
Accepted(o) ==
    LET fixture == run[o].fixture  tip == Tip(fixture)
    IN /\ run[o].tip = Name(tip)
       /\ run[o].file > tip.file /\ Score(run[o].file, fixture) # tip.result
Correct(o) ==
    /\ pc[o] = "correct"
    /\ corrections' = corrections \cup
          (IF ~Ambiguous(Inventory("BTTS")) /\ Accepted(o)
           THEN {[fixture |-> run[o].fixture, supersedes |-> run[o].tip, file |-> run[o].file, by |-> o,
                  result |-> Score(run[o].file, run[o].fixture)]} ELSE {})
    /\ Go(o, "idle") /\ run' = [run EXCEPT ![o] = None]
    /\ UNCHANGED <<world, outcomes, locked, receipts, crashes>>

-----------------------------------------------------------------------------

Sweeping(r) == Evidence(r) \/ Collect(r) \/ Consider(r) \/ Settle(r) \/ Finish(r)
Next ==
    \/ Tick \/ Reschedule \/ Publish \/ Freeze
    \/ \E r \in Runs : Start(r) \/ Sweeping(r) \/ EvidenceUnusable(r) \/ Crash(r)
    \/ \E o \in Reviewers : ReadForecast(o) \/ SettleOne(o) \/ Review(o) \/ Correct(o)
Spec == Init /\ [][Next]_vars

\* the timer starts a run after every refresh, and refreshes do succeed again
FairSpec == Spec /\ \A r \in Timer :
    /\ WF_vars(Start(r)) /\ SF_vars(Evidence(r)) /\ WF_vars(Sweeping(r))

-----------------------------------------------------------------------------
(* Properties                                                              *)

TypeOK ==
    /\ now \in 0 .. Horizon /\ kickoff \in [Matches -> Kickoffs] /\ Len(files) \in 1 .. MaxFiles
    /\ forecasts \subseteq Forecast
    /\ \A s \in Markets \X Fixture : outcomes[s] = None \/ outcomes[s] \in [forecast: forecasts, file: 1 .. MaxFiles, result: Scores]
    /\ \A c \in corrections : c \in Correction
    /\ locked = (\E r \in Timer : pc[r] # "idle")

\* The corrections of an outcome form one chain that a reader accepts, whatever reviewers decided
\* on the same tip at the same time and with whichever of the published files.
ChainsStayReadable ==
    \A fixture \in Fixture :
        IF Original(fixture) = None THEN Revisions(fixture) = {} ELSE ChainIsValid(fixture)

\* Where only sweeps settle, an outcome settles the forecast frozen first for its fixture, whichever of
\* the two writers froze it and whatever they freeze while the settlement is in flight.
FirstForecastSettles ==
    \A market \in Markets, fixture \in Fixture :
        outcomes[<<market, fixture>>] # None =>
            \A f \in Of(Inventory(market), fixture) : outcomes[<<market, fixture>>].forecast.at <= f.at

\* A forecast is settled and corrected with a result of the match at the kickoff it was frozen for: the
\* forecast of a fixture that moved is not settled with the result of the later date.
ResultsBelong ==
    /\ \A s \in Markets \X Fixture : outcomes[s] # None =>
        /\ outcomes[s].forecast.fixture = s[2]
        /\ files[outcomes[s].file][s[2][1]] = [kickoff |-> s[2][2], score |-> outcomes[s].result]
    /\ \A c \in corrections : files[c.file][c.fixture[1]] = [kickoff |-> c.fixture[2], score |-> c.result]

OnFile(d) ==
    LET o == outcomes[d.item]
    IN /\ o # None
       /\ Score(d.file, d.item[2]) \in {o.result} \cup
              (IF d.item[1] = "BTTS" THEN {c.result : c \in Revisions(d.item[2])} ELSE {})
\* A market a terminal receipt calls RECORDED or REUSED is on file with the result of the receipt's
\* evidence, as the original or a revision of it.
ReceiptsAreTrue == \A d \in receipts : OnFile(d)

\* sweep: "Each market settles independently; missing sources stay unresolved, conflicts fail."  A run
\* gives up all corners only when there are none or the corner forecasts are ambiguous themselves.
MarketsIndependent ==
    \A r \in Runs : pc[r] = "inventory" /\ pc'[r] = "idle" /\ crashes' = crashes
                     => Ambiguous(Inventory("CORNER")) \/ Inventory("CORNER") = {}

\* A frozen forecast whose match has a result on file is settled in the end, whatever runs were killed.
ForecastsAreSettled ==
    \A market \in Markets, fixture \in Fixture :
        (Of(Inventory(market), fixture) # {} /\ Stated(Len(files), fixture)) ~> (outcomes[<<market, fixture>>] # None)

-----------------------------------------------------------------------------
(* Proved for any matches, runs, reviewers and kills: nothing written is   *)
(* rewritten, results belong to their fixtures, corrections stay one chain,*)
(* receipts stay true, and where only sweeps settle the first forecast is  *)
(* the one settled.                                                        *)

Items == Markets \X Fixture
Result == [kickoff : Kickoffs, score : Scores]
\* what an automatic run or a sweep holds, and what a reviewer does
Sitting == [file : Nat, at : Nat, todo : SUBSET Items, known : SUBSET Forecast, item : Items \cup {None},
            done : SUBSET [item : Items, file : Nat]]
Reading == [forecast : Forecast, file : Nat, known : SUBSET Forecast]
Reviewing == [fixture : Fixture, file : Nat, tip : Revision]

Typed ==
    /\ now \in 0 .. Horizon /\ kickoff \in [Matches -> Kickoffs]
    /\ files \in Seq([Matches -> Result \cup {None}]) /\ Len(files) \in 1 .. MaxFiles
    /\ forecasts \subseteq Forecast
    /\ outcomes \in [Items -> Outcome \cup {None}]
    /\ \A s \in Items : outcomes[s] # None => outcomes[s].forecast \in forecasts /\ outcomes[s].file <= Len(files)
    /\ corrections \subseteq Correction /\ \A c \in corrections : c.file <= Len(files)
    /\ receipts \subseteq [item : Items, file : 1 .. Len(files)]
    /\ DOMAIN pc = Actors /\ DOMAIN run = Actors /\ pc = [a \in Actors |-> pc[a]] /\ run = [a \in Actors |-> run[a]]

\* One automatic run holds the lock.
OneRun ==
    /\ locked = (\E r \in Timer : pc[r] # "idle")
    /\ \A q, r \in Timer : pc[q] # "idle" /\ pc[r] # "idle" => q = r

\* A run's file, its markets still to do and those it says are done.
RunPlace(r) ==
    /\ pc[r] \in {"idle", "evidence", "inventory", "sweep", "settle"}
    /\ pc[r] \in {"inventory", "sweep", "settle"} =>
        /\ run[r] \in Sitting /\ run[r].file \in 1 .. Len(files)
        /\ run[r].todo \subseteq {<<f.market, f.fixture>> : f \in forecasts}
        /\ \A d \in run[r].done : d.file \in 1 .. Len(files) /\ OnFile(d)
    /\ pc[r] = "settle" => run[r].item \in run[r].todo /\ Stated(run[r].file, run[r].item[2])

\* A reviewer has a forecast or an outcome on file, and a result for it.
ReviewPlace(o) ==
    /\ pc[o] \in {"idle", "settle", "correct"}
    /\ pc[o] = "settle" =>
        /\ run[o] \in Reading /\ run[o].file \in 1 .. Len(files) /\ Stated(run[o].file, run[o].forecast.fixture)
        /\ run[o].forecast \in forecasts /\ run[o].forecast.market = "BTTS"
    /\ pc[o] = "correct" =>
        /\ run[o] \in Reviewing /\ run[o].file \in 1 .. Len(files) /\ Stated(run[o].file, run[o].fixture)
        /\ Original(run[o].fixture) # None

Places == (\A r \in Runs : RunPlace(r)) /\ (\A o \in Reviewers : ReviewPlace(o))

SettlementInv == Typed /\ OneRun /\ Places /\ ResultsBelong /\ ChainsStayReadable /\ ReceiptsAreTrue

\* Forecasts are numbered in the order they are frozen.
FirstInv ==
    /\ IsFiniteSet(forecasts) /\ \A f \in forecasts : f.at < Cardinality(forecasts)
    /\ FirstForecastSettles

\* No step rewrites or removes a published file, a frozen forecast, an outcome, a correction or a
\* terminal receipt.
NothingIsRewritten ==
    /\ Len(files) <= Len(files') /\ \A i \in 1 .. Len(files) : files'[i] = files[i]
    /\ forecasts \subseteq forecasts' /\ corrections \subseteq corrections' /\ receipts \subseteq receipts'
    /\ \A s \in Items : outcomes[s] # None => outcomes'[s] = outcomes[s]

-----------------------------------------------------------------------------
(* Numbers, chains and tips                                                 *)

LEMMA LeastMember ==
    ASSUME NEW T \in SUBSET Nat, T # {}
    PROVE  \E x \in T : \A y \in T : x <= y
<1> DEFINE Less == {p \in Nat \X Nat : p[1] < p[2]}
<1>1. IsWellFoundedOn(Less, Nat)
  BY NatLessThanWellFounded, Zenon DEF OpToRel
<1>2. PICK x \in T : \A y \in T : <<y, x>> \notin Less
  BY <1>1, WFMin
<1>3. \A y \in T : <<y, x>> \in Less <=> y < x
  OBVIOUS
<1>4. \A y \in T : ~(y < x) /\ x \in Nat /\ y \in Nat
  BY <1>2, <1>3
<1>. QED BY <1>4

LEMMA GreatestMember ==
    ASSUME NEW T \in SUBSET Nat, T # {}, NEW n \in Nat, \A y \in T : y <= n
    PROVE  \E x \in T : \A y \in T : y <= x
<1> DEFINE U == {n - y : y \in T}
<1>1. U \in SUBSET Nat /\ U # {}
  <2>1. \A y \in T : n - y \in Nat
    OBVIOUS
  <2>. QED BY <2>1
<1>2. PICK d \in U : \A e \in U : d <= e
  BY <1>1, LeastMember
<1>3. PICK x \in T : d = n - x
  BY <1>2
<1>4. ASSUME NEW y \in T PROVE y <= x
  <2>1. n - x <= n - y /\ x \in Nat /\ y \in Nat
    BY <1>2, <1>3
  <2>. QED BY <2>1
<1>. QED BY <1>4

\* The first forecast of a fixture exists.
LEMMA EarliestIs ==
    ASSUME NEW S \in SUBSET Forecast, NEW fixture, Of(S, fixture) # {}
    PROVE  /\ Earliest(S, fixture) \in S /\ Earliest(S, fixture).fixture = fixture
           /\ \A g \in Of(S, fixture) : Earliest(S, fixture).at <= g.at
<1> DEFINE Ats == {f.at : f \in Of(S, fixture)}
<1>1. Ats \in SUBSET Nat /\ Ats # {}
  BY DEF Of, Forecast
<1>2. PICK x \in Ats : \A y \in Ats : x <= y
  BY <1>1, LeastMember
<1>3. \E f \in Of(S, fixture) : \A g \in Of(S, fixture) : f.at <= g.at
  BY <1>2
<1>4. /\ Earliest(S, fixture) \in Of(S, fixture)
      /\ \A g \in Of(S, fixture) : Earliest(S, fixture).at <= g.at
  BY <1>3 DEF Earliest
<1>. QED BY <1>4 DEF Of

\* A corrected outcome has a revision that nothing supersedes: the one of the latest file.
LEMMA TipIs ==
    ASSUME SettlementConstants, Typed, ChainsStayReadable, NEW fixture \in Fixture, Original(fixture) # None
    PROVE  /\ Revisions(fixture) = {} =>
                Tip(fixture) = [file |-> Original(fixture).file, by |-> None, result |-> Original(fixture).result]
           /\ Revisions(fixture) # {} =>
                Tip(fixture) \in Revisions(fixture) /\ Children(fixture, Name(Tip(fixture))) = {}
<1>1. CASE Revisions(fixture) = {}
  BY <1>1 DEF Tip
<1>2. CASE Revisions(fixture) # {}
  <2> DEFINE T == {c.file : c \in Revisions(fixture)}
  <2>1. T \in SUBSET Nat /\ T # {} /\ MaxFiles \in Nat /\ \A y \in T : y <= MaxFiles
    BY <1>2 DEF Revisions, Typed, Correction, SettlementConstants
  <2>2. PICK x \in T : \A y \in T : y <= x
    BY <2>1, GreatestMember
  <2>3. PICK c \in Revisions(fixture) : c.file = x
    OBVIOUS
  <2>4. ASSUME NEW d \in Children(fixture, Name(c)) PROVE FALSE
    <3>1. d \in Revisions(fixture) /\ d.supersedes = Name(c) /\ d.file \in Nat /\ c.file \in Nat
      BY <2>1 DEF Children
    <3>2. \/ d.supersedes = First(fixture) /\ d.file > Original(fixture).file
          \/ \E e \in Revisions(fixture) : d.supersedes = Name(e) /\ d.file > e.file
      BY <3>1 DEF ChainsStayReadable, ChainIsValid
    <3>3. d.supersedes.file = c.file
      BY <3>1 DEF Name
    <3>4. d.file > d.supersedes.file
      <4>1. First(fixture).file = Original(fixture).file /\ \A e : Name(e).file = e.file
        BY DEF First, Name
      <4>. QED BY <3>2, <4>1
    <3>5. d.file <= c.file
      BY <2>2, <2>3, <3>1
    <3>. QED BY <3>1, <3>3, <3>4, <3>5
  <2>5. \E d \in Revisions(fixture) : Children(fixture, Name(d)) = {}
    BY <2>4
  <2>6. Tip(fixture) = CHOOSE d \in Revisions(fixture) : Children(fixture, Name(d)) = {}
    BY <1>2 DEF Tip
  <2>. QED BY <1>2, <2>5, <2>6
<1>. QED BY <1>1, <1>2

\* The tip is named by a revision, and its result is one on file.
LEMMA TipTyped ==
    ASSUME SettlementConstants, Typed, ChainsStayReadable, NEW fixture \in Fixture, Original(fixture) # None
    PROVE  /\ Name(Tip(fixture)) \in Revision /\ Tip(fixture).file \in 1 .. MaxFiles
           /\ Tip(fixture).result \in {Original(fixture).result} \cup {c.result : c \in Revisions(fixture)}
<1>1. Original(fixture) \in Outcome
  BY DEF Original, Typed, Items, Markets
<1>2. CASE Revisions(fixture) = {}
  <2>1. Tip(fixture) = [file |-> Original(fixture).file, by |-> None, result |-> Original(fixture).result]
    BY <1>2, TipIs
  <2>2. Original(fixture).file \in 1 .. MaxFiles
    BY <1>1 DEF Outcome
  <2>. QED BY <2>1, <2>2 DEF Name, Revision
<1>3. CASE Revisions(fixture) # {}
  <2>1. Tip(fixture) \in Revisions(fixture) /\ Tip(fixture) \in Correction
    BY <1>3, TipIs DEF Revisions, Typed
  <2>. QED BY <2>1 DEF Name, Revision, Correction
<1>. QED BY <1>2, <1>3

-----------------------------------------------------------------------------
(* What is on file stays                                                    *)

LEMMA StatedStays ==
    ASSUME Typed, NothingIsRewritten, NEW file \in 1 .. Len(files), NEW fixture \in Fixture
    PROVE  /\ file \in 1 .. Len(files') /\ Score(file, fixture)' = Score(file, fixture)
           /\ Stated(file, fixture)' = Stated(file, fixture)
<1>1. Len(files) \in Nat /\ Len(files') \in Int
  BY DEF Typed, NothingIsRewritten
<1>. QED BY <1>1 DEF NothingIsRewritten, Score, Stated

LEMMA OnFileStays ==
    ASSUME Typed, NothingIsRewritten, NEW d \in [item : Items, file : 1 .. Len(files)], OnFile(d)
    PROVE  d.file \in 1 .. Len(files') /\ OnFile(d)'
<1>1. d.item \in Items /\ d.item[2] \in Fixture /\ d.file \in 1 .. Len(files)
  BY DEF Items
<1>2. outcomes[d.item] # None /\ outcomes'[d.item] = outcomes[d.item]
  BY <1>1 DEF OnFile, NothingIsRewritten
<1>3. Revisions(d.item[2]) \subseteq Revisions(d.item[2])'
  BY DEF Revisions, NothingIsRewritten
<1>4. Score(d.file, d.item[2])' = Score(d.file, d.item[2]) /\ d.file \in 1 .. Len(files')
  BY <1>1, StatedStays
<1>. QED BY <1>2, <1>3, <1>4 DEF OnFile

LEMMA RunPlaceStays ==
    ASSUME Typed, NothingIsRewritten, NEW r \in Runs, RunPlace(r), pc'[r] = pc[r], run'[r] = run[r]
    PROVE  RunPlace(r)'
<1>1. CASE pc[r] \notin {"inventory", "sweep", "settle"}
  BY <1>1 DEF RunPlace
<1>2. CASE pc[r] \in {"inventory", "sweep", "settle"}
  <2>1. run[r] \in Sitting /\ run[r].file \in 1 .. Len(files)
    BY <1>2 DEF RunPlace
  <2>2. run[r].file \in 1 .. Len(files')
    BY <2>1 DEF NothingIsRewritten, Typed
  <2>3. run[r].todo \subseteq {<<f.market, f.fixture>> : f \in forecasts'}
    BY <1>2 DEF RunPlace, NothingIsRewritten
  <2>4. ASSUME NEW d \in run[r].done PROVE d.file \in 1 .. Len(files') /\ OnFile(d)'
    <3>1. d \in [item : Items, file : 1 .. Len(files)] /\ OnFile(d)
      BY <1>2, <2>1 DEF RunPlace, Sitting
    <3>. QED BY <3>1, OnFileStays
  <2>5. pc[r] = "settle" => run[r].item \in run[r].todo /\ Stated(run[r].file, run[r].item[2])'
    <3>1. SUFFICES ASSUME pc[r] = "settle"
                   PROVE  run[r].item \in run[r].todo /\ Stated(run[r].file, run[r].item[2])'
      OBVIOUS
    <3>2. run[r].item \in run[r].todo /\ Stated(run[r].file, run[r].item[2])
      BY <3>1 DEF RunPlace
    <3>3. run[r].item[2] \in Fixture
      BY <2>1, <3>2 DEF Sitting, Items
    <3>. QED BY <2>1, <3>2, <3>3, StatedStays
  <2>. QED BY <1>2, <2>1, <2>2, <2>3, <2>4, <2>5 DEF RunPlace, Stated
<1>. QED BY <1>1, <1>2

LEMMA ReviewPlaceStays ==
    ASSUME Typed, NothingIsRewritten, NEW o \in Reviewers, ReviewPlace(o), pc'[o] = pc[o], run'[o] = run[o]
    PROVE  ReviewPlace(o)'
<1>1. CASE pc[o] = "settle"
  <2>1. /\ run[o] \in Reading /\ run[o].file \in 1 .. Len(files) /\ Stated(run[o].file, run[o].forecast.fixture)
        /\ run[o].forecast \in forecasts /\ run[o].forecast.market = "BTTS"
    BY <1>1 DEF ReviewPlace
  <2>2. run[o].forecast.fixture \in Fixture
    BY <2>1 DEF Reading, Forecast
  <2>3. run[o].file \in 1 .. Len(files') /\ Stated(run[o].file, run[o].forecast.fixture)'
    BY <2>1, <2>2, StatedStays
  <2>. QED BY <1>1, <2>1, <2>3 DEF ReviewPlace, NothingIsRewritten, Stated
<1>2. CASE pc[o] = "correct"
  <2>1. /\ run[o] \in Reviewing /\ run[o].file \in 1 .. Len(files) /\ Stated(run[o].file, run[o].fixture)
        /\ Original(run[o].fixture) # None
    BY <1>2 DEF ReviewPlace
  <2>2. run[o].fixture \in Fixture
    BY <2>1 DEF Reviewing
  <2>3. run[o].file \in 1 .. Len(files') /\ Stated(run[o].file, run[o].fixture)'
    BY <2>1, <2>2, StatedStays
  <2>4. Original(run[o].fixture)' # None
    BY <2>1, <2>2 DEF Original, NothingIsRewritten, Items, Markets
  <2>. QED BY <1>2, <2>1, <2>3, <2>4 DEF ReviewPlace, Stated, Original
<1>3. CASE pc[o] \notin {"settle", "correct"}
  BY <1>3 DEF ReviewPlace
<1>. QED BY <1>1, <1>2, <1>3

\* While no outcome or correction is written, all that is said of them stays.
LEMMA BooksStay ==
    ASSUME Typed, NothingIsRewritten, ResultsBelong, ChainsStayReadable, UNCHANGED <<outcomes, corrections>>
    PROVE  ResultsBelong' /\ ChainsStayReadable'
<1>1. ResultsBelong'
  <2>1. ASSUME NEW s \in Items, outcomes[s] # None
        PROVE  files'[outcomes[s].file] = files[outcomes[s].file]
    BY <2>1 DEF Typed, NothingIsRewritten, Outcome
  <2>2. ASSUME NEW c \in corrections PROVE files'[c.file] = files[c.file]
    BY DEF Typed, NothingIsRewritten, Correction
  <2>. QED BY <2>1, <2>2 DEF ResultsBelong, Items
<1>2. ChainsStayReadable'
  <2>1. \A fixture \in Fixture : /\ Original(fixture)' = Original(fixture) /\ Revisions(fixture)' = Revisions(fixture)
                                /\ First(fixture)' = First(fixture)
    BY DEF Original, Revisions, First
  <2>. QED BY <2>1 DEF ChainsStayReadable, ChainIsValid, Name
<1>. QED BY <1>1, <1>2

LEMMA ReceiptsStay ==
    ASSUME Typed, NothingIsRewritten, ReceiptsAreTrue, receipts' = receipts
    PROVE  ReceiptsAreTrue' /\ receipts' \subseteq [item : Items, file : 1 .. Len(files')]
<1>1. ASSUME NEW d \in receipts PROVE d.file \in 1 .. Len(files') /\ OnFile(d)' /\ d \in [item : Items, file : 1 .. Len(files)]
  <2>1. d \in [item : Items, file : 1 .. Len(files)] /\ OnFile(d)
    BY DEF Typed, ReceiptsAreTrue
  <2>. QED BY <2>1, OnFileStays
<1>. QED BY <1>1 DEF ReceiptsAreTrue

-----------------------------------------------------------------------------
(* The lock and the places                                                  *)

LEMMA Apart ==
    ASSUME SettlementConstants
    PROVE  Timer \subseteq Runs /\ Sweeps \subseteq Runs /\ Runs \subseteq Actors /\ Reviewers \subseteq Actors
           /\ (\A r \in Runs : r \notin Reviewers) /\ \A r \in Sweeps : r \notin Timer
BY DEF SettlementConstants, Runs, Actors

\* An actor that is no automatic run, or stays idle or busy, leaves the lock as it is.
LEMMA LockStays ==
    ASSUME OneRun, locked' = locked, \A r \in Timer : pc'[r] = "idle" <=> pc[r] = "idle"
    PROVE  OneRun'
<1>1. (\E r \in Timer : pc'[r] # "idle") <=> \E r \in Timer : pc[r] # "idle"
  OBVIOUS
<1>2. \A q, r \in Timer : pc'[q] # "idle" /\ pc'[r] # "idle" => q = r
  BY DEF OneRun
<1>3. locked' = (\E r \in Timer : pc'[r] # "idle")
  BY <1>1 DEF OneRun
<1>. QED BY <1>2, <1>3 DEF OneRun

LEMMA StartLocks ==
    ASSUME SettlementConstants, Typed, OneRun, NEW r \in Runs, Start(r)
    PROVE  OneRun'
<1>1. pc' = [pc EXCEPT ![r] = "evidence"] /\ pc[r] = "idle" /\ r \in Actors /\ DOMAIN pc = Actors
      /\ locked' = (locked \/ r \in Timer) /\ (r \in Timer => ~locked)
  BY Apart DEF Start, Go, RunFree, Typed
<1>2. CASE r \in Timer
  <2>1. \A q \in Timer : pc[q] = "idle"
    BY <1>1, <1>2 DEF OneRun
  <2>2. \A q \in Timer : pc'[q] # "idle" <=> q = r
    BY <1>1, <2>1 DEF Actors, Runs
  <2>3. locked' = TRUE /\ \E q \in Timer : pc'[q] # "idle"
    BY <1>1, <1>2, <2>2
  <2>. QED BY <2>2, <2>3 DEF OneRun
<1>3. CASE r \notin Timer
  <2>1. locked' = locked
    BY <1>1, <1>3 DEF OneRun
  <2>2. \A q \in Timer : pc'[q] = pc[q]
    BY <1>1, <1>3 DEF Actors, Runs
  <2>. QED BY <2>1, <2>2, LockStays
<1>. QED BY <1>2, <1>3

LEMMA EndUnlocks ==
    ASSUME SettlementConstants, Typed, OneRun, NEW r \in Runs, pc[r] # "idle", End(r)
    PROVE  /\ OneRun' /\ pc' = [pc EXCEPT ![r] = "idle"] /\ run' = [run EXCEPT ![r] = None]
           /\ pc'[r] = "idle"
<1>1. pc' = [pc EXCEPT ![r] = "idle"] /\ run' = [run EXCEPT ![r] = None] /\ r \in Actors /\ DOMAIN pc = Actors
      /\ locked' = (locked /\ r \notin Timer)
  BY Apart DEF End, Go, Typed
<1>2. CASE r \in Timer
  <2>1. \A q \in Timer : q # r => pc[q] = "idle"
    BY <1>2 DEF OneRun
  <2>2. \A q \in Timer : pc'[q] = "idle"
    BY <1>1, <2>1 DEF Actors, Runs
  <2>3. locked' = FALSE /\ ~\E q \in Timer : pc'[q] # "idle"
    BY <1>1, <1>2, <2>2
  <2>. QED BY <1>1, <2>2, <2>3 DEF OneRun
<1>3. CASE r \notin Timer
  <2>1. locked' = locked
    BY <1>1, <1>3 DEF OneRun
  <2>2. \A q \in Timer : pc'[q] = pc[q]
    BY <1>1, <1>3 DEF Actors, Runs
  <2>. QED BY <1>1, <2>1, <2>2, LockStays
<1>. QED BY <1>2, <1>3

\* A busy actor that goes on leaves the lock as it is.
LEMMA GoingOn ==
    ASSUME Typed, OneRun, NEW a \in Actors, NEW p, pc' = [pc EXCEPT ![a] = p], locked' = locked,
           a \in Timer => p # "idle" /\ pc[a] # "idle"
    PROVE  OneRun'
<1>1. \A r \in Timer : pc'[r] = "idle" <=> pc[r] = "idle"
  BY DEF Actors, Runs, Typed
<1>. QED BY <1>1, LockStays

\* The others stay where they are.
LEMMA PlacesStay ==
    ASSUME SettlementConstants, Typed, Places, NothingIsRewritten, NEW a \in Actors, NEW p, NEW x,
           pc' = [pc EXCEPT ![a] = p], run' = [run EXCEPT ![a] = x],
           a \in Runs => RunPlace(a)', a \in Reviewers => ReviewPlace(a)'
    PROVE  Places' /\ DOMAIN pc' = Actors /\ DOMAIN run' = Actors
           /\ pc' = [b \in Actors |-> pc'[b]] /\ run' = [b \in Actors |-> run'[b]]
<1>1. \A b \in Actors : b # a => pc'[b] = pc[b] /\ run'[b] = run[b]
  BY DEF Typed
<1>2. \A r \in Runs : RunPlace(r)'
  <2>1. ASSUME NEW r \in Runs, r # a PROVE RunPlace(r)'
    BY <1>1, <2>1, RunPlaceStays, Apart DEF Places
  <2>. QED BY <2>1
<1>3. \A o \in Reviewers : ReviewPlace(o)'
  <2>1. ASSUME NEW o \in Reviewers, o # a PROVE ReviewPlace(o)'
    BY <1>1, <2>1, ReviewPlaceStays, Apart DEF Places
  <2>. QED BY <2>1
<1>. QED BY <1>2, <1>3 DEF Places, Typed

LEMMA EveryoneStays ==
    ASSUME SettlementConstants, Typed, Places, NothingIsRewritten, UNCHANGED <<pc, run>>
    PROVE  Places'
<1>1. \A r \in Runs : RunPlace(r)'
  BY RunPlaceStays DEF Places
<1>2. \A o \in Reviewers : ReviewPlace(o)'
  BY ReviewPlaceStays DEF Places
<1>. QED BY <1>1, <1>2 DEF Places

LEMMA SameIsNotRewritten ==
    ASSUME Typed, UNCHANGED <<world, books, receipts>>
    PROVE  NothingIsRewritten
BY DEF Typed, NothingIsRewritten, world, books

\* A step of one actor that writes nothing.
LEMMA ReadingKeeps ==
    ASSUME SettlementConstants, SettlementInv, NEW a \in Actors, NEW p, NEW x, UNCHANGED <<world, books, receipts>>,
           pc' = [pc EXCEPT ![a] = p], run' = [run EXCEPT ![a] = x],
           a \in Runs => RunPlace(a)', a \in Reviewers => ReviewPlace(a)', OneRun'
    PROVE  SettlementInv'
<1>1. NothingIsRewritten
  BY SameIsNotRewritten DEF SettlementInv
<1>2. Places' /\ DOMAIN pc' = Actors /\ DOMAIN run' = Actors
      /\ pc' = [b \in Actors |-> pc'[b]] /\ run' = [b \in Actors |-> run'[b]]
  BY <1>1, PlacesStay DEF SettlementInv
<1>3. Typed'
  BY <1>2 DEF SettlementInv, Typed, world, books
<1>4. ResultsBelong' /\ ChainsStayReadable'
  BY <1>1, BooksStay DEF SettlementInv, books
<1>5. ReceiptsAreTrue'
  BY <1>1, ReceiptsStay DEF SettlementInv
<1>. QED BY <1>2, <1>3, <1>4, <1>5 DEF SettlementInv

-----------------------------------------------------------------------------
(* The world                                                                *)

LEMMA InitSettlement == ASSUME SettlementConstants, Init PROVE SettlementInv /\ FirstInv
<1>1. Typed
  <2>1. files \in Seq([Matches -> Result \cup {None}]) /\ Len(files) = 1
    <3>1. [m \in Matches |-> None] \in [Matches -> Result \cup {None}]
      OBVIOUS
    <3>. QED BY <3>1 DEF Init
  <2>2. MaxFiles \in Nat \ {0} /\ Horizon \in Nat
    BY DEF SettlementConstants
  <2>. QED BY <2>1, <2>2 DEF Init, Typed, Items
<1>2. OneRun
  <2>1. \A r \in Timer : pc[r] = "idle"
    BY DEF Init, Actors, Runs
  <2>2. locked = FALSE /\ ~\E r \in Timer : pc[r] # "idle"
    BY <2>1 DEF Init
  <2>. QED BY <2>1, <2>2 DEF OneRun
<1>3. Places
  BY Apart DEF Init, Places, RunPlace, ReviewPlace
<1>4. ResultsBelong /\ ReceiptsAreTrue
  BY DEF Init, ResultsBelong, ReceiptsAreTrue
<1>5. ChainsStayReadable
  BY DEF Init, ChainsStayReadable, Original, Revisions, Markets
<1>6. FirstInv
  <2>1. \A market \in Markets, fixture \in Fixture : outcomes[<<market, fixture>>] = None
    BY DEF Init
  <2>2. IsFiniteSet(forecasts) /\ forecasts = {}
    BY FS_EmptySet DEF Init
  <2>. QED BY <2>1, <2>2 DEF FirstInv, FirstForecastSettles
<1>. QED BY <1>1, <1>2, <1>3, <1>4, <1>5, <1>6 DEF SettlementInv

\* Where the actors, the outcomes and the corrections stay, files and forecasts may grow.
LEMMA WorldKeeps ==
    ASSUME SettlementConstants, SettlementInv, NothingIsRewritten, Typed',
           UNCHANGED <<books, locked, receipts, pc, run>>
    PROVE  SettlementInv'
<1>1. Places'
  BY EveryoneStays DEF SettlementInv
<1>2. OneRun'
  BY LockStays DEF SettlementInv
<1>3. ResultsBelong' /\ ChainsStayReadable'
  BY BooksStay DEF SettlementInv, books
<1>4. ReceiptsAreTrue'
  BY ReceiptsStay DEF SettlementInv
<1>. QED BY <1>1, <1>2, <1>3, <1>4 DEF SettlementInv

LEMMA TimeKeeps == ASSUME SettlementConstants, SettlementInv, Tick \/ Reschedule PROVE SettlementInv'
<1>1. UNCHANGED <<files, forecasts, outcomes, corrections, receipts, locked, pc, run>>
  BY DEF Tick, Reschedule, books
<1>2. NothingIsRewritten
  BY <1>1 DEF SettlementInv, Typed, NothingIsRewritten
<1>3. now' \in 0 .. Horizon /\ kickoff' \in [Matches -> Kickoffs]
  <2>1. Horizon \in Nat /\ now \in 0 .. Horizon /\ kickoff \in [Matches -> Kickoffs]
    BY DEF SettlementInv, Typed, SettlementConstants
  <2>2. CASE Tick
    BY <2>1, <2>2 DEF Tick
  <2>3. CASE Reschedule
    BY <2>1, <2>3 DEF Reschedule
  <2>. QED BY <2>2, <2>3
<1>4. Typed'
  BY <1>1, <1>3 DEF SettlementInv, Typed
<1>. QED BY <1>1, <1>2, <1>4, WorldKeeps DEF books

LEMMA PublishKeeps == ASSUME SettlementConstants, SettlementInv, Publish PROVE SettlementInv' /\ NothingIsRewritten
<1>1. PICK m \in Matches, s \in Scores :
        files' = Append(files, [files[Len(files)] EXCEPT ![m] = [kickoff |-> kickoff[m], score |-> s]])
  BY DEF Publish
<1>2. /\ files \in Seq([Matches -> Result \cup {None}]) /\ Len(files) \in 1 .. MaxFiles /\ Len(files) < MaxFiles
      /\ kickoff \in [Matches -> Kickoffs] /\ MaxFiles \in Nat
      /\ UNCHANGED <<now, kickoff, forecasts, outcomes, corrections, receipts, locked, pc, run>>
  BY DEF SettlementInv, Typed, Publish, books, SettlementConstants
<1>3. files[Len(files)] \in [Matches -> Result \cup {None}] /\ [kickoff |-> kickoff[m], score |-> s] \in Result
  BY <1>2 DEF Result
<1>4. [files[Len(files)] EXCEPT ![m] = [kickoff |-> kickoff[m], score |-> s]] \in [Matches -> Result \cup {None}]
  BY <1>3
<1>5. /\ files' \in Seq([Matches -> Result \cup {None}]) /\ Len(files') = Len(files) + 1
      /\ \A i \in 1 .. Len(files) : files'[i] = files[i]
  BY <1>1, <1>2, <1>4
<1>6. NothingIsRewritten
  BY <1>2, <1>5 DEF NothingIsRewritten
<1>7. Typed'
  <2>1. \A i \in 1 .. Len(files) : i \in 1 .. Len(files')
    BY <1>2, <1>5
  <2>2. \A s2 \in Items : outcomes[s2] # None => outcomes[s2].forecast \in forecasts /\ outcomes[s2].file <= Len(files')
    <3>1. ASSUME NEW s2 \in Items, outcomes[s2] # None PROVE outcomes[s2].file <= Len(files')
      <4>1. outcomes[s2].file \in Nat /\ outcomes[s2].file <= Len(files)
        BY <3>1 DEF SettlementInv, Typed, Outcome
      <4>. QED BY <4>1, <1>2, <1>5
    <3>. QED BY <3>1 DEF SettlementInv, Typed
  <2>3. \A c \in corrections : c.file <= Len(files')
    <3>1. ASSUME NEW c \in corrections PROVE c.file <= Len(files')
      <4>1. c.file \in Nat /\ c.file <= Len(files)
        BY DEF SettlementInv, Typed, Correction
      <4>. QED BY <4>1, <1>2, <1>5
    <3>. QED BY <3>1
  <2>4. receipts \subseteq [item : Items, file : 1 .. Len(files')]
    BY <2>1 DEF SettlementInv, Typed
  <2>5. Len(files') \in 1 .. MaxFiles
    BY <1>2, <1>5
  <2>. QED BY <1>2, <1>5, <2>2, <2>3, <2>4, <2>5 DEF SettlementInv, Typed
<1>. QED BY <1>2, <1>6, <1>7, WorldKeeps DEF books

\* A frozen forecast is numbered after all others.
LEMMA FreezeAdds ==
    ASSUME SettlementConstants, Freeze, forecasts \subseteq Forecast, kickoff \in [Matches -> Kickoffs],
           IsFiniteSet(forecasts)
    PROVE  \E f \in Forecast : f.at = Cardinality(forecasts) /\ forecasts' = forecasts \cup {f}
<1>1. PICK m \in Matches, market \in Markets, origin \in {"ODDS_FREE", "BOOKMAKER"} :
        forecasts' = forecasts \cup {[fixture |-> <<m, kickoff[m]>>, market |-> market, origin |-> origin,
                                      at |-> Cardinality(forecasts)]}
  BY DEF Freeze
<1>2. Cardinality(forecasts) \in Nat
  BY FS_CardinalityType
<1>3. <<m, kickoff[m]>> \in Fixture
  BY DEF Fixture
<1>. QED BY <1>1, <1>2, <1>3 DEF Forecast

LEMMA FreezeKeeps ==
    ASSUME SettlementConstants, SettlementInv, IsFiniteSet(forecasts), Freeze
    PROVE  SettlementInv' /\ NothingIsRewritten
<1>1. PICK f \in Forecast : forecasts' = forecasts \cup {f}
  BY FreezeAdds DEF SettlementInv, Typed
<1>2. UNCHANGED <<now, kickoff, files, outcomes, corrections, receipts, locked, pc, run>>
  BY DEF Freeze, books
<1>3. NothingIsRewritten
  BY <1>1, <1>2 DEF SettlementInv, Typed, NothingIsRewritten
<1>4. Typed'
  BY <1>1, <1>2 DEF SettlementInv, Typed
<1>. QED BY <1>2, <1>3, <1>4, WorldKeeps DEF books

-----------------------------------------------------------------------------
(* Steps that read                                                          *)

LEMMA StartKeeps == ASSUME SettlementConstants, SettlementInv, NEW r \in Runs, Start(r) PROVE SettlementInv'
<1>1. /\ pc' = [pc EXCEPT ![r] = "evidence"] /\ run' = [run EXCEPT ![r] = run[r]] /\ r \in Actors /\ r \notin Reviewers
      /\ UNCHANGED <<world, books, receipts>>
  BY Apart DEF Start, Go, SettlementInv, Typed
<1>2. RunPlace(r)'
  BY <1>1 DEF RunPlace, SettlementInv, Typed
<1>3. OneRun'
  BY StartLocks DEF SettlementInv
<1>. QED BY <1>1, <1>2, <1>3, ReadingKeeps

LEMMA EvidenceKeeps == ASSUME SettlementConstants, SettlementInv, NEW r \in Runs, Evidence(r) PROVE SettlementInv'
<1> DEFINE x == [file |-> Len(files), at |-> now, todo |-> {}, known |-> {}, item |-> None, done |-> {}]
<1>1. /\ pc' = [pc EXCEPT ![r] = "inventory"] /\ run' = [run EXCEPT ![r] = x] /\ r \in Actors /\ r \notin Reviewers
      /\ pc[r] = "evidence" /\ UNCHANGED <<world, books, locked, receipts>>
  BY Apart DEF Evidence, Go
<1>2. x \in Sitting /\ Len(files') = Len(files) /\ Len(files) \in Nat \ {0}
  BY <1>1 DEF Sitting, SettlementInv, Typed, world, SettlementConstants
<1>3. RunPlace(r)'
  <2>1. pc'[r] = "inventory" /\ run'[r] = x
    BY <1>1 DEF SettlementInv, Typed
  <2>. QED BY <1>2, <2>1 DEF RunPlace
<1>4. OneRun'
  BY <1>1, GoingOn DEF SettlementInv
<1>. QED BY <1>1, <1>3, <1>4, ReadingKeeps

LEMMA EndKeeps ==
    ASSUME SettlementConstants, SettlementInv, NEW r \in Runs, pc[r] # "idle", End(r), UNCHANGED <<world, books, receipts>>
    PROVE  SettlementInv'
<1>1. r \in Actors /\ r \notin Reviewers
  BY Apart
<1>2. OneRun' /\ pc' = [pc EXCEPT ![r] = "idle"] /\ run' = [run EXCEPT ![r] = None] /\ pc'[r] = "idle"
  BY EndUnlocks DEF SettlementInv
<1>3. RunPlace(r)'
  BY <1>2 DEF RunPlace
<1>. QED BY <1>1, <1>2, <1>3, ReadingKeeps

LEMMA CollectKeeps == ASSUME SettlementConstants, SettlementInv, NEW r \in Runs, Collect(r) PROVE SettlementInv'
<1>1. pc[r] = "inventory" /\ UNCHANGED <<world, books, receipts>> /\ r \in Actors /\ r \notin Reviewers
  BY Apart DEF Collect
<1>2. CASE End(r)
  BY <1>1, <1>2, EndKeeps
<1>3. CASE ~End(r)
  <2> DEFINE t == {<<f.market, f.fixture>> : f \in Candidates(r)}
             x == [run[r] EXCEPT !.todo = t]
  <2>1. /\ run' = [run EXCEPT ![r] = x] /\ pc' = [pc EXCEPT ![r] = "sweep"] /\ locked' = locked
    BY <1>3 DEF Collect, Go
  <2>2. /\ run[r] \in Sitting /\ run[r].file \in 1 .. Len(files)
        /\ \A d \in run[r].done : d.file \in 1 .. Len(files) /\ OnFile(d)
    BY <1>1 DEF SettlementInv, Places, RunPlace
  <2>3. t \subseteq {<<f.market, f.fixture>> : f \in forecasts} /\ t \subseteq Items
    BY DEF Candidates, SettlementInv, Typed, Forecast, Items
  <2>4. x \in Sitting /\ x.todo = t /\ x.file = run[r].file /\ x.done = run[r].done
    BY <2>2, <2>3 DEF Sitting
  <2>5. pc'[r] = "sweep" /\ run'[r] = x
    BY <1>1, <2>1 DEF SettlementInv, Typed
  <2>6. RunPlace(r)'
    BY <1>1, <2>2, <2>3, <2>4, <2>5 DEF RunPlace, world, books, OnFile, Score, Revisions
  <2>7. OneRun'
    BY <1>1, <2>1, GoingOn DEF SettlementInv
  <2>. QED BY <1>1, <2>1, <2>6, <2>7, ReadingKeeps
<1>. QED BY <1>2, <1>3

LEMMA ConsiderKeeps == ASSUME SettlementConstants, SettlementInv, NEW r \in Runs, Consider(r) PROVE SettlementInv'
<1>1. pc[r] = "sweep" /\ UNCHANGED <<world, books, locked, receipts>> /\ r \in Actors /\ r \notin Reviewers
  BY Apart DEF Consider
<1>2. /\ run[r] \in Sitting /\ run[r].file \in 1 .. Len(files)
      /\ run[r].todo \subseteq {<<f.market, f.fixture>> : f \in forecasts}
      /\ \A d \in run[r].done : d.file \in 1 .. Len(files) /\ OnFile(d)
  BY <1>1 DEF SettlementInv, Places, RunPlace
<1>3. PICK item \in run[r].todo :
        \/ /\ \E status \in {"UPCOMING", "UNRESOLVED", "CONFLICT"} : Settled(r, item, status)
           /\ Go(r, "sweep")
        \/ /\ Stated(run[r].file, item[2]) /\ Go(r, "settle")
           /\ run' = [run EXCEPT ![r].item = item, ![r].known = Inventory(item[1])]
  BY <1>1 DEF Consider
<1>4. PICK p \in {"sweep", "settle"}, x \in Sitting :
        /\ pc' = [pc EXCEPT ![r] = p] /\ run' = [run EXCEPT ![r] = x]
        /\ x.file = run[r].file /\ x.todo \subseteq run[r].todo /\ x.done = run[r].done
        /\ p = "settle" => x.item \in x.todo /\ Stated(x.file, x.item[2])
  <2>1. CASE (\E status \in {"UPCOMING", "UNRESOLVED", "CONFLICT"} : Settled(r, item, status)) /\ Go(r, "sweep")
    <3> DEFINE x == [run[r] EXCEPT !.todo = @ \ {item}, !.item = None, !.known = {}, !.done = @ \cup {}]
    <3>1. run' = [run EXCEPT ![r] = x] /\ pc' = [pc EXCEPT ![r] = "sweep"]
      BY <2>1 DEF Settled, Go
    <3>2. x \in Sitting /\ x.file = run[r].file /\ x.todo \subseteq run[r].todo /\ x.done = run[r].done
      BY <1>2 DEF Sitting
    <3>. QED BY <3>1, <3>2
  <2>2. CASE /\ Stated(run[r].file, item[2]) /\ Go(r, "settle")
             /\ run' = [run EXCEPT ![r].item = item, ![r].known = Inventory(item[1])]
    <3> DEFINE x == [run[r] EXCEPT !.item = item, !.known = Inventory(item[1])]
    <3>1. run' = [run EXCEPT ![r] = x] /\ pc' = [pc EXCEPT ![r] = "settle"]
      BY <2>2 DEF Go
    <3>2. Inventory(item[1]) \subseteq Forecast
      BY DEF Inventory, SettlementInv, Typed
    <3>3. x \in Sitting /\ x.file = run[r].file /\ x.todo = run[r].todo /\ x.done = run[r].done /\ x.item = item
      BY <1>2, <3>2 DEF Sitting
    <3>. QED BY <2>2, <3>1, <3>3
  <2>. QED BY <1>3, <2>1, <2>2
<1>5. pc'[r] = p /\ run'[r] = x
  BY <1>1, <1>4 DEF SettlementInv, Typed
<1>6. RunPlace(r)'
  <2>1. /\ x.file \in 1 .. Len(files') /\ x.todo \subseteq {<<f.market, f.fixture>> : f \in forecasts'}
        /\ p = "settle" => x.item \in x.todo /\ Stated(x.file, x.item[2])'
    BY <1>1, <1>2, <1>4 DEF world, Stated
  <2>2. \A d \in x.done : d.file \in 1 .. Len(files') /\ OnFile(d)'
    BY <1>1, <1>2, <1>4 DEF world, books, OnFile, Score, Revisions
  <2>. QED BY <1>4, <1>5, <2>1, <2>2 DEF RunPlace, Stated
<1>7. OneRun'
  BY <1>1, <1>4, GoingOn DEF SettlementInv
<1>. QED BY <1>1, <1>4, <1>6, <1>7, ReadingKeeps

LEMMA ReviewerReads ==
    ASSUME SettlementConstants, SettlementInv, NEW o \in Reviewers, ReadForecast(o) \/ Review(o)
    PROVE  SettlementInv'
<1>1. /\ o \in Actors /\ o \notin Runs /\ o \notin Timer
      /\ UNCHANGED <<world, books, locked, receipts>>
  BY Apart DEF ReadForecast, Review
<1>2. CASE ReadForecast(o)
  <2>1. PICK f \in Inventory("BTTS"), file \in 1 .. Len(files) :
          /\ Stated(file, f.fixture)
          /\ run' = [run EXCEPT ![o] = [forecast |-> f, file |-> file, known |-> Inventory("BTTS")]]
    BY <1>2 DEF ReadForecast
  <2> DEFINE x == [forecast |-> f, file |-> file, known |-> Inventory("BTTS")]
  <2>2. pc' = [pc EXCEPT ![o] = "settle"] /\ pc'[o] = "settle" /\ run'[o] = x
    BY <1>1, <1>2, <2>1 DEF ReadForecast, Go, SettlementInv, Typed
  <2>3. x \in Reading /\ f \in forecasts /\ f.market = "BTTS"
    BY DEF Reading, Inventory, SettlementInv, Typed
  <2>4. ReviewPlace(o)'
    BY <1>1, <2>1, <2>2, <2>3 DEF ReviewPlace, world, Stated
  <2>5. OneRun'
    BY <1>1, <2>2, GoingOn DEF SettlementInv
  <2>. QED BY <1>1, <2>1, <2>2, <2>4, <2>5, ReadingKeeps
<1>3. CASE Review(o)
  <2>1. PICK fixture \in Fixture, file \in 1 .. Len(files) :
          /\ Original(fixture) # None /\ Stated(file, fixture)
          /\ run' = [run EXCEPT ![o] = [fixture |-> fixture, file |-> file, tip |-> Name(Tip(fixture))]]
    BY <1>3 DEF Review
  <2> DEFINE x == [fixture |-> fixture, file |-> file, tip |-> Name(Tip(fixture))]
  <2>2. pc' = [pc EXCEPT ![o] = "correct"] /\ pc'[o] = "correct" /\ run'[o] = x
    BY <1>1, <1>3, <2>1 DEF Review, Go, SettlementInv, Typed
  <2>3. x \in Reviewing
    BY <2>1, TipTyped DEF Reviewing, SettlementInv
  <2>4. ReviewPlace(o)'
    BY <1>1, <2>1, <2>2, <2>3 DEF ReviewPlace, world, books, Stated, Original
  <2>5. OneRun'
    BY <1>1, <2>2, GoingOn DEF SettlementInv
  <2>. QED BY <1>1, <2>1, <2>2, <2>4, <2>5, ReadingKeeps
<1>. QED BY <1>2, <1>3

-----------------------------------------------------------------------------
(* Steps that write                                                         *)

\* An outcome is written once, of a forecast of its fixture, with a result of the match on its day.
LEMMA WriteBelongs ==
    ASSUME SettlementConstants, SettlementInv, NEW market \in Markets, NEW fixture \in Fixture, NEW f \in forecasts,
           NEW file \in 1 .. Len(files), outcomes[<<market, fixture>>] = None, f.fixture = fixture,
           Stated(file, fixture), Write(market, fixture, f, file),
           UNCHANGED <<files, forecasts, corrections, receipts>>
    PROVE  /\ NothingIsRewritten /\ ResultsBelong' /\ ChainsStayReadable' /\ ReceiptsAreTrue'
           /\ outcomes' \in [Items -> Outcome \cup {None}]
           /\ \A s \in Items : outcomes'[s] # None => outcomes'[s].forecast \in forecasts /\ outcomes'[s].file <= Len(files)
           /\ outcomes'[<<market, fixture>>] # None
           /\ outcomes'[<<market, fixture>>].result = Score(file, fixture)
           /\ outcomes'[<<market, fixture>>].forecast = f
           /\ \A s \in Items : s # <<market, fixture>> => outcomes'[s] = outcomes[s]
<1> DEFINE o == [forecast |-> f, file |-> file, result |-> Score(file, fixture)]
           i == <<market, fixture>>
<1>1. i \in Items /\ i[1] = market /\ i[2] = fixture /\ fixture[1] \in Matches
      /\ outcomes \in [Items -> Outcome \cup {None}] /\ outcomes' = [outcomes EXCEPT ![i] = o]
  BY DEF Items, Fixture, Write, SettlementInv, Typed
<1>2. files[file] \in [Matches -> Result \cup {None}] /\ files[file][fixture[1]] # None
      /\ files[file][fixture[1]].kickoff = fixture[2] /\ Len(files) \in 1 .. MaxFiles /\ MaxFiles \in Nat
  BY DEF SettlementInv, Typed, Stated, SettlementConstants
<1>3. files[file][fixture[1]] \in Result
  BY <1>1, <1>2
<1>4. Score(file, fixture) \in Scores /\ files[file][fixture[1]] = [kickoff |-> fixture[2], score |-> Score(file, fixture)]
  BY <1>2, <1>3 DEF Score, Result
<1>5. o \in Outcome /\ o # None
  BY <1>2, <1>4 DEF Outcome, SettlementInv, Typed, SettlementConstants
<1>6. outcomes'[i] = o /\ \A s \in Items : s # i => outcomes'[s] = outcomes[s]
  BY <1>1
<1>7. NothingIsRewritten
  BY <1>2, <1>6 DEF NothingIsRewritten
<1>8. outcomes' \in [Items -> Outcome \cup {None}]
  BY <1>1, <1>5
<1>9. \A s \in Items : outcomes'[s] # None => outcomes'[s].forecast \in forecasts /\ outcomes'[s].file <= Len(files)
  <2>1. o.forecast \in forecasts /\ o.file <= Len(files)
    BY <1>2
  <2>. QED BY <1>6, <2>1 DEF SettlementInv, Typed
<1>10. ResultsBelong'
  <2>1. ASSUME NEW s \in Items, outcomes'[s] # None
        PROVE  /\ outcomes'[s].forecast.fixture = s[2]
               /\ files[outcomes'[s].file][s[2][1]] = [kickoff |-> s[2][2], score |-> outcomes'[s].result]
    <3>1. CASE s = i
      BY <1>1, <1>4, <1>6, <3>1
    <3>2. CASE s # i
      BY <1>6, <2>1, <3>2 DEF SettlementInv, ResultsBelong, Items
    <3>. QED BY <3>1, <3>2
  <2>. QED BY <2>1 DEF SettlementInv, ResultsBelong, Items
<1>11. ChainsStayReadable'
  <2>1. SUFFICES ASSUME NEW g \in Fixture
                 PROVE  (IF Original(g) = None THEN Revisions(g) = {} ELSE ChainIsValid(g))'
    BY DEF ChainsStayReadable
  <2>2. Revisions(g)' = Revisions(g)
    BY DEF Revisions
  <2>3. CASE i = <<"BTTS", g>>
    <3>1. Original(g) = None
      BY <2>3 DEF Original
    <3>2. Revisions(g)' = {}
      BY <2>2, <3>1 DEF SettlementInv, ChainsStayReadable
    <3>. QED BY <3>2 DEF ChainIsValid
  <2>4. CASE i # <<"BTTS", g>>
    <3>1. <<"BTTS", g>> \in Items
      BY DEF Items, Markets
    <3>2. Original(g)' = Original(g) /\ First(g)' = First(g)
      BY <1>6, <2>4, <3>1 DEF Original, First
    <3>. QED BY <2>2, <3>2 DEF SettlementInv, ChainsStayReadable, ChainIsValid, Name
  <2>. QED BY <2>3, <2>4
<1>12. ReceiptsAreTrue'
  BY <1>7, ReceiptsStay DEF SettlementInv
<1>. QED BY <1>1, <1>5, <1>6, <1>7, <1>8, <1>9, <1>10, <1>11, <1>12

\* What a run says it recorded or reused is on file.
LEMMA SettledOnFile ==
    ASSUME SettlementConstants, SettlementInv, NEW r \in Runs, Settle(r)
    PROVE  /\ pc[r] = "settle" /\ run[r] \in Sitting /\ run[r].item \in Items /\ r \in Actors /\ r \notin Reviewers
           /\ pc' = [pc EXCEPT ![r] = "sweep"]
           /\ NothingIsRewritten /\ ResultsBelong' /\ ChainsStayReadable' /\ ReceiptsAreTrue' /\ Typed'
           /\ \E x \in Sitting :
                 /\ run' = [run EXCEPT ![r] = x] /\ x.file = run[r].file /\ x.todo \subseteq run[r].todo
                 /\ \A d \in x.done : d \in run[r].done \/ (d = [item |-> run[r].item, file |-> run[r].file] /\ OnFile(d)')
           /\ \/ outcomes' = outcomes
              \/ /\ outcomes[run[r].item] = None
                 /\ outcomes'[run[r].item].forecast = Earliest(Inventory(run[r].item[1]), run[r].item[2])
                 /\ \A s \in Items : s # run[r].item => outcomes'[s] = outcomes[s]
<1>0. PICK item, file : item = run[r].item /\ file = run[r].file
  OBVIOUS
<1> DEFINE market == item[1]  fixture == item[2]  new == [item |-> item, file |-> file]
<1>1. /\ pc[r] = "settle" /\ r \in Actors /\ r \notin Reviewers /\ UNCHANGED <<world, corrections, locked, receipts>>
      /\ pc' = [pc EXCEPT ![r] = "sweep"]
  BY Apart DEF Settle, Go
<1>2. /\ run[r] \in Sitting /\ file \in 1 .. Len(files) /\ item \in run[r].todo /\ Stated(file, fixture)
      /\ run[r].todo \subseteq {<<f.market, f.fixture>> : f \in forecasts}
  BY <1>0, <1>1 DEF SettlementInv, Places, RunPlace
<1>3. item \in Items /\ item = <<market, fixture>> /\ market \in Markets /\ fixture \in Fixture
  BY <1>2 DEF Sitting, Items
<1>4. Typed /\ files' = files /\ forecasts' = forecasts /\ world' = world /\ corrections' = corrections
      /\ receipts' = receipts /\ now' = now /\ kickoff' = kickoff
  BY <1>1 DEF SettlementInv, world
<1>5. ASSUME NEW status, Settled(r, item, status), status \in {"RECORDED", "REUSED"} => OnFile(new)'
      PROVE  \E x \in Sitting :
                 /\ run' = [run EXCEPT ![r] = x] /\ x.file = run[r].file /\ x.todo \subseteq run[r].todo
                 /\ \A d \in x.done : d \in run[r].done \/ (d = new /\ OnFile(d)')
  <2> DEFINE more == IF status \in {"RECORDED", "REUSED"} THEN {new} ELSE {}
             x == [run[r] EXCEPT !.todo = @ \ {item}, !.item = None, !.known = {}, !.done = @ \cup more]
  <2>1. run' = [run EXCEPT ![r] = x]
    BY <1>0, <1>5 DEF Settled
  <2>2. more \subseteq [item : Items, file : Nat] /\ \A d \in more : d = new /\ OnFile(d)'
    BY <1>2, <1>3, <1>5
  <2>10. more \subseteq [item : Items, file : Nat] /\ run[r].todo \ {item} \subseteq Items
    BY <1>2, <2>2 DEF Sitting
  <2>3. /\ x \in Sitting /\ x.file = run[r].file /\ x.todo \subseteq run[r].todo
        /\ x.done = run[r].done \cup more
    BY <1>0, <1>2, <2>10 DEF Sitting
  <2>4. \A d \in x.done : d \in run[r].done \/ (d = new /\ OnFile(d)')
    BY <2>2, <2>3
  <2> HIDE DEF x
  <2>. QED BY <2>1, <2>3, <2>4
<1>6. \A x : run' = [run EXCEPT ![r] = x] => DOMAIN run' = Actors /\ run' = [b \in Actors |-> run'[b]]
  BY <1>4 DEF Typed
<1>7. DOMAIN pc' = Actors /\ pc' = [b \in Actors |-> pc'[b]]
  BY <1>1, <1>4 DEF Typed
<1>8. CASE \E status \in {"REJECTED", "REUSED", "CONFLICT"} :
              /\ Settled(r, item, status) /\ outcomes' = outcomes
              /\ status = "REUSED" => outcomes[item] # None /\ Replays(market, fixture, file, r \in Timer)
  <2>1. PICK status \in {"REJECTED", "REUSED", "CONFLICT"} :
              /\ Settled(r, item, status) /\ outcomes' = outcomes
              /\ status = "REUSED" => outcomes[item] # None /\ Replays(market, fixture, file, r \in Timer)
    BY <1>8
  <2>2. status = "REUSED" => OnFile(new)
    <3>1. SUFFICES ASSUME outcomes[item] # None, Replays(market, fixture, file, r \in Timer) PROVE OnFile(new)
      BY <2>1
    <3>2. outcomes[<<market, fixture>>] = outcomes[item] /\ new.item = item /\ new.file = file
      BY <1>3
    <3>3. CASE outcomes[item].file = file
      <4>1. files[file][fixture[1]] = [kickoff |-> fixture[2], score |-> outcomes[item].result]
        BY <1>3, <3>1, <3>3 DEF SettlementInv, ResultsBelong, Items
      <4>2. Score(file, fixture) = outcomes[item].result
        BY <4>1 DEF Score
      <4>. QED BY <3>1, <3>2, <4>2 DEF OnFile
    <3>4. CASE market = "BTTS" /\ Tip(fixture).result = Score(file, fixture)
      <4>1. Original(fixture) = outcomes[item] /\ Original(fixture) # None
        BY <1>3, <3>1, <3>4 DEF Original
      <4>2. Tip(fixture).result \in {outcomes[item].result} \cup {c.result : c \in Revisions(fixture)}
        BY <1>3, <4>1, TipTyped DEF SettlementInv
      <4>. QED BY <3>1, <3>2, <3>4, <4>2 DEF OnFile
    <3>5. CASE market # "BTTS" /\ outcomes[item].result = Score(file, fixture)
      BY <3>1, <3>2, <3>5 DEF OnFile
    <3>. QED BY <3>1, <3>2, <3>3, <3>4, <3>5 DEF Replays
  <2>3. OnFile(new) => OnFile(new)'
    BY <1>4, <2>1 DEF OnFile, Score, Revisions
  <2>4. status \in {"RECORDED", "REUSED"} => OnFile(new)'
    BY <2>2, <2>3
  <2>5. PICK x \in Sitting :
                 /\ run' = [run EXCEPT ![r] = x] /\ x.file = run[r].file /\ x.todo \subseteq run[r].todo
                 /\ \A d \in x.done : d \in run[r].done \/ (d = new /\ OnFile(d)')
    BY <1>5, <2>1, <2>4
  <2>6. NothingIsRewritten
    BY <1>4, <2>1, SameIsNotRewritten DEF books
  <2>7. ResultsBelong' /\ ChainsStayReadable' /\ ReceiptsAreTrue'
    BY <1>4, <2>1, <2>6, BooksStay, ReceiptsStay DEF SettlementInv
  <2>8. Typed'
    BY <1>4, <1>6, <1>7, <2>1, <2>5 DEF Typed
  <2>. QED BY <1>0, <1>1, <1>2, <1>3, <2>1, <2>5, <2>6, <2>7, <2>8
<1>9. CASE /\ Inventory(market) = run[r].known /\ outcomes[item] = None /\ Settled(r, item, "RECORDED")
           /\ Write(market, fixture, Earliest(run[r].known, fixture), file)
  <2> DEFINE f == Earliest(Inventory(market), fixture)
  <2>1. Of(Inventory(market), fixture) # {} /\ Inventory(market) \subseteq Forecast
    <3>1. PICK g \in forecasts : item = <<g.market, g.fixture>>
      BY <1>2
    <3>2. g \in Of(Inventory(market), fixture)
      BY <1>3, <3>1 DEF Of, Inventory
    <3>. QED BY <1>4, <3>2 DEF Inventory, Typed
  <2>2. f \in forecasts /\ f.fixture = fixture
    BY <2>1, EarliestIs DEF Inventory
  <2>3. Write(market, fixture, f, file) /\ outcomes[<<market, fixture>>] = None
    BY <1>3, <1>9
  <2>4. /\ NothingIsRewritten /\ ResultsBelong' /\ ChainsStayReadable' /\ ReceiptsAreTrue'
        /\ outcomes' \in [Items -> Outcome \cup {None}]
        /\ \A s \in Items : outcomes'[s] # None => outcomes'[s].forecast \in forecasts /\ outcomes'[s].file <= Len(files)
        /\ outcomes'[item] # None /\ outcomes'[item].result = Score(file, fixture) /\ outcomes'[item].forecast = f
        /\ \A s \in Items : s # item => outcomes'[s] = outcomes[s]
    BY <1>2, <1>3, <1>4, <2>2, <2>3, WriteBelongs
  <2>5. OnFile(new)'
    BY <1>3, <1>4, <2>4 DEF OnFile, Score
  <2>6. PICK x \in Sitting :
                 /\ run' = [run EXCEPT ![r] = x] /\ x.file = run[r].file /\ x.todo \subseteq run[r].todo
                 /\ \A d \in x.done : d \in run[r].done \/ (d = new /\ OnFile(d)')
    BY <1>5, <1>9, <2>5
  <2>7. Typed'
    BY <1>4, <1>6, <1>7, <2>4, <2>6 DEF Typed
  <2>. QED BY <1>0, <1>1, <1>2, <1>3, <1>9, <2>4, <2>6, <2>7
<1>. QED BY <1>0, <1>8, <1>9 DEF Settle

LEMMA SettleKeeps ==
    ASSUME SettlementConstants, SettlementInv, NEW r \in Runs, Settle(r)
    PROVE  SettlementInv'
<1>1. /\ pc[r] = "settle" /\ run[r] \in Sitting /\ run[r].item \in Items /\ r \in Actors /\ r \notin Reviewers
      /\ pc' = [pc EXCEPT ![r] = "sweep"]
      /\ NothingIsRewritten /\ ResultsBelong' /\ ChainsStayReadable' /\ ReceiptsAreTrue' /\ Typed'
      /\ UNCHANGED <<files, forecasts, locked>>
  BY SettledOnFile DEF Settle, world
<1>2. PICK x \in Sitting :
        /\ run' = [run EXCEPT ![r] = x] /\ x.file = run[r].file /\ x.todo \subseteq run[r].todo
        /\ \A d \in x.done : d \in run[r].done \/ (d = [item |-> run[r].item, file |-> run[r].file] /\ OnFile(d)')
  BY SettledOnFile
<1>3. /\ run[r].file \in 1 .. Len(files) /\ run[r].todo \subseteq {<<f.market, f.fixture>> : f \in forecasts}
      /\ \A d \in run[r].done : d.file \in 1 .. Len(files) /\ OnFile(d)
  BY <1>1 DEF SettlementInv, Places, RunPlace
<1>4. pc'[r] = "sweep" /\ run'[r] = x
  BY <1>1, <1>2 DEF SettlementInv, Typed
<1>5. \A d \in x.done : d.file \in 1 .. Len(files') /\ OnFile(d)'
  <2>1. ASSUME NEW d \in run[r].done PROVE d.file \in 1 .. Len(files') /\ OnFile(d)'
    <3>1. d \in [item : Items, file : 1 .. Len(files)] /\ OnFile(d)
      BY <1>1, <1>3 DEF Sitting
    <3>. QED BY <1>1, <3>1, OnFileStays DEF SettlementInv
  <2>. QED BY <1>1, <1>2, <1>3, <2>1
<1>6. RunPlace(r)'
  BY <1>1, <1>2, <1>3, <1>4, <1>5 DEF RunPlace
<1>7. Places'
  BY <1>1, <1>2, <1>6, PlacesStay DEF SettlementInv
<1>8. OneRun'
  BY <1>1, GoingOn DEF SettlementInv
<1>. QED BY <1>1, <1>7, <1>8 DEF SettlementInv

LEMMA FinishKeeps ==
    ASSUME SettlementConstants, SettlementInv, NEW r \in Runs, Finish(r)
    PROVE  SettlementInv' /\ NothingIsRewritten
<1>1. /\ pc[r] = "sweep" /\ pc[r] # "idle" /\ End(r) /\ r \in Actors /\ r \notin Reviewers
      /\ receipts' = receipts \cup run[r].done
      /\ UNCHANGED <<now, kickoff, files, forecasts, outcomes, corrections>>
  BY Apart DEF Finish, world, books
<1>2. OneRun' /\ pc' = [pc EXCEPT ![r] = "idle"] /\ run' = [run EXCEPT ![r] = None] /\ pc'[r] = "idle"
  BY <1>1, EndUnlocks DEF SettlementInv
<1>3. run[r] \in Sitting /\ \A d \in run[r].done : d.file \in 1 .. Len(files) /\ OnFile(d)
  BY <1>1 DEF SettlementInv, Places, RunPlace
<1>4. run[r].done \subseteq [item : Items, file : 1 .. Len(files)]
  BY <1>3 DEF Sitting
<1>5. NothingIsRewritten
  BY <1>1 DEF SettlementInv, Typed, NothingIsRewritten
<1>6. RunPlace(r)'
  BY <1>2 DEF RunPlace
<1>7. Places' /\ DOMAIN pc' = Actors /\ DOMAIN run' = Actors
      /\ pc' = [b \in Actors |-> pc'[b]] /\ run' = [b \in Actors |-> run'[b]]
  BY <1>1, <1>2, <1>5, <1>6, PlacesStay DEF SettlementInv
<1>8. Typed'
  BY <1>1, <1>4, <1>7 DEF SettlementInv, Typed
<1>9. ResultsBelong' /\ ChainsStayReadable'
  BY <1>1, <1>5, BooksStay DEF SettlementInv
<1>10. ReceiptsAreTrue'
  <2>1. \A d \in receipts' : OnFile(d)
    BY <1>1, <1>3 DEF SettlementInv, ReceiptsAreTrue
  <2>2. \A d : OnFile(d)' = OnFile(d)
    BY <1>1 DEF OnFile, Score, Revisions
  <2>. QED BY <2>1, <2>2 DEF ReceiptsAreTrue
<1>. QED BY <1>2, <1>5, <1>7, <1>8, <1>9, <1>10 DEF SettlementInv

LEMMA SettleOneKeeps ==
    ASSUME SettlementConstants, SettlementInv, NEW o \in Reviewers, SettleOne(o)
    PROVE  SettlementInv' /\ NothingIsRewritten
<1>1. /\ pc[o] = "settle" /\ o \in Actors /\ o \notin Runs /\ o \notin Timer
      /\ pc' = [pc EXCEPT ![o] = "idle"] /\ run' = [run EXCEPT ![o] = None]
      /\ UNCHANGED <<now, kickoff, files, forecasts, corrections, receipts, locked>>
  BY Apart DEF SettleOne, Go, world
<1>2. PICK f \in forecasts, file \in 1 .. Len(files) :
        /\ f = run[o].forecast /\ file = run[o].file /\ Stated(file, f.fixture) /\ f.market = "BTTS"
  BY <1>1 DEF SettlementInv, Places, ReviewPlace
<1>3. f.fixture \in Fixture /\ "BTTS" \in Markets
  BY DEF SettlementInv, Typed, Forecast, Markets
<1>4. /\ NothingIsRewritten /\ ResultsBelong' /\ ChainsStayReadable' /\ ReceiptsAreTrue'
      /\ outcomes' \in [Items -> Outcome \cup {None}]
      /\ \A s \in Items : outcomes'[s] # None => outcomes'[s].forecast \in forecasts /\ outcomes'[s].file <= Len(files)
  <2>1. CASE outcomes[<<"BTTS", f.fixture>>] = None /\ Write("BTTS", f.fixture, f, file)
    BY <1>1, <1>2, <1>3, <2>1, WriteBelongs
  <2>2. CASE outcomes' = outcomes
    <3>1. NothingIsRewritten
      BY <1>1, <2>2, SameIsNotRewritten DEF world, books, SettlementInv
    <3>. QED BY <1>1, <2>2, <3>1, BooksStay, ReceiptsStay DEF SettlementInv, Typed
  <2>. QED BY <1>2, <2>1, <2>2 DEF SettleOne
<1>5. pc'[o] = "idle"
  BY <1>1 DEF SettlementInv, Typed
<1>6. ReviewPlace(o)'
  BY <1>5 DEF ReviewPlace
<1>7. Places' /\ DOMAIN pc' = Actors /\ DOMAIN run' = Actors
      /\ pc' = [b \in Actors |-> pc'[b]] /\ run' = [b \in Actors |-> run'[b]]
  BY <1>1, <1>4, <1>6, PlacesStay DEF SettlementInv
<1>8. OneRun'
  BY <1>1, GoingOn DEF SettlementInv
<1>9. Typed'
  BY <1>1, <1>4, <1>7 DEF SettlementInv, Typed
<1>. QED BY <1>4, <1>7, <1>8, <1>9 DEF SettlementInv

\* A correction supersedes the tip that its review saw, with a later file and another result.
LEMMA CorrectedChain ==
    ASSUME SettlementConstants, SettlementInv, NEW c \in Correction, Original(c.fixture) # None,
           c.supersedes = Name(Tip(c.fixture)), c.file > Tip(c.fixture).file, c.result # Tip(c.fixture).result,
           corrections' = corrections \cup {c}, outcomes' = outcomes
    PROVE  ChainsStayReadable'
<1>1. SUFFICES ASSUME NEW g \in Fixture
               PROVE  (IF Original(g) = None THEN Revisions(g) = {} ELSE ChainIsValid(g))'
  BY DEF ChainsStayReadable
<1>2. Original(g)' = Original(g) /\ First(g)' = First(g)
  BY DEF Original, First
<1>3. CASE g # c.fixture
  <2>1. Revisions(g)' = Revisions(g)
    BY <1>3 DEF Revisions
  <2>. QED BY <1>2, <2>1 DEF SettlementInv, ChainsStayReadable, ChainIsValid, Name
<1>4. CASE g = c.fixture
  <2>1. Revisions(g)' = Revisions(g) \cup {c} /\ Original(g) # None /\ ChainIsValid(g)
    BY <1>4 DEF Revisions, SettlementInv, ChainsStayReadable
  <2>2. \A d \in Revisions(g) : d.supersedes # c.supersedes
    <3>1. SUFFICES ASSUME NEW d \in Revisions(g) PROVE d.supersedes # Name(Tip(g))
      BY <1>4
    <3>2. Children(g, Name(Tip(g))) = {}
      BY <2>1, TipIs DEF SettlementInv
    <3>. QED BY <3>2 DEF Children
  <2>3. \/ c.supersedes = First(g) /\ c.file > Original(g).file /\ c.result # Original(g).result
        \/ \E d \in Revisions(g) : c.supersedes = Name(d) /\ c.file > d.file /\ c.result # d.result
    <3>1. CASE Revisions(g) = {}
      <4>1. Tip(g) = [file |-> Original(g).file, by |-> None, result |-> Original(g).result]
        BY <2>1, <3>1, TipIs DEF SettlementInv
      <4>. QED BY <1>4, <4>1 DEF First, Name
    <3>2. CASE Revisions(g) # {}
      <4>1. Tip(g) \in Revisions(g)
        BY <2>1, <3>2, TipIs DEF SettlementInv
      <4>. QED BY <1>4, <4>1
    <3>. QED BY <3>1, <3>2
  <2>4. \A d, e \in Revisions(g)' : d.supersedes = e.supersedes => d = e
    BY <2>1, <2>2 DEF ChainIsValid
  <2>5. \A d \in Revisions(g)' :
          \/ d.supersedes = First(g) /\ d.file > Original(g).file /\ d.result # Original(g).result
          \/ \E e \in Revisions(g)' : d.supersedes = Name(e) /\ d.file > e.file /\ d.result # e.result
    BY <2>1, <2>3 DEF ChainIsValid
  <2>. QED BY <1>2, <2>1, <2>4, <2>5 DEF ChainIsValid, Name
<1>. QED BY <1>3, <1>4

LEMMA CorrectKeeps ==
    ASSUME SettlementConstants, SettlementInv, NEW o \in Reviewers, Correct(o)
    PROVE  SettlementInv' /\ NothingIsRewritten
<1>1. /\ pc[o] = "correct" /\ o \in Actors /\ o \notin Runs /\ o \notin Timer
      /\ pc' = [pc EXCEPT ![o] = "idle"] /\ run' = [run EXCEPT ![o] = None]
      /\ UNCHANGED <<now, kickoff, files, forecasts, outcomes, receipts, locked>>
  BY Apart DEF Correct, Go, world
<1>2. /\ run[o] \in Reviewing /\ run[o].file \in 1 .. Len(files) /\ Stated(run[o].file, run[o].fixture)
      /\ Original(run[o].fixture) # None
  BY <1>1 DEF SettlementInv, Places, ReviewPlace
<1> DEFINE c == [fixture |-> run[o].fixture, supersedes |-> run[o].tip, file |-> run[o].file, by |-> o,
                 result |-> Score(run[o].file, run[o].fixture)]
<1>3. Typed /\ files' = files /\ outcomes' = outcomes
  BY <1>1 DEF SettlementInv
<1>4. NothingIsRewritten /\ corrections \subseteq corrections'
  BY <1>1, <1>3 DEF Typed, NothingIsRewritten, Correct
<1>5. /\ ResultsBelong' /\ ChainsStayReadable'
      /\ corrections' \subseteq Correction /\ \A d \in corrections' : d.file <= Len(files)
  <2>1. CASE corrections' = corrections
    BY <1>1, <1>3, <1>4, <2>1, BooksStay DEF SettlementInv, Typed
  <2>2. CASE corrections' = corrections \cup {c} /\ Accepted(o)
    <3>1. run[o].fixture \in Fixture /\ run[o].fixture[1] \in Matches /\ run[o].tip \in Revision
      BY <1>2 DEF Reviewing, Fixture
    <3>2. files[run[o].file] \in [Matches -> Result \cup {None}] /\ Len(files) \in 1 .. MaxFiles /\ MaxFiles \in Nat
      <4>1. files \in Seq([Matches -> Result \cup {None}]) /\ Len(files) \in 1 .. MaxFiles /\ MaxFiles \in Nat
        BY DEF SettlementInv, Typed, SettlementConstants
      <4>. QED BY <1>2, <4>1
    <3>3. files[run[o].file][run[o].fixture[1]] \in Result
          /\ files[run[o].file][run[o].fixture[1]].kickoff = run[o].fixture[2]
      BY <1>2, <3>1, <3>2 DEF Stated
    <3>4. files[c.file][c.fixture[1]] = [kickoff |-> c.fixture[2], score |-> c.result] /\ c.result \in Scores
      BY <3>3 DEF Result, Score
    <3>5. c \in Correction /\ c.file <= Len(files)
      BY <1>2, <3>1, <3>2, <3>4 DEF Correction
    <3>6. /\ c.supersedes = Name(Tip(c.fixture)) /\ c.file > Tip(c.fixture).file /\ c.result # Tip(c.fixture).result
          /\ Original(c.fixture) # None
      BY <1>2, <2>2 DEF Accepted
    <3> HIDE DEF c
    <3>7. ChainsStayReadable'
      BY <1>3, <2>2, <3>5, <3>6, CorrectedChain
    <3>8. ResultsBelong'
      BY <1>3, <2>2, <3>4 DEF SettlementInv, ResultsBelong
    <3>9. corrections' \subseteq Correction /\ \A d \in corrections' : d.file <= Len(files)
      BY <1>3, <2>2, <3>5 DEF Typed
    <3>. QED BY <3>7, <3>8, <3>9
  <2>. QED BY <2>1, <2>2 DEF Correct
<1>6. pc'[o] = "idle"
  BY <1>1 DEF SettlementInv, Typed
<1>7. ReviewPlace(o)'
  BY <1>6 DEF ReviewPlace
<1>8. Places' /\ DOMAIN pc' = Actors /\ DOMAIN run' = Actors
      /\ pc' = [b \in Actors |-> pc'[b]] /\ run' = [b \in Actors |-> run'[b]]
  BY <1>1, <1>4, <1>7, PlacesStay DEF SettlementInv
<1>9. OneRun'
  BY <1>1, GoingOn DEF SettlementInv
<1>10. Typed'
  BY <1>1, <1>5, <1>8 DEF SettlementInv, Typed
<1>11. ReceiptsAreTrue'
  BY <1>1, <1>4, ReceiptsStay DEF SettlementInv
<1>. QED BY <1>4, <1>5, <1>8, <1>9, <1>10, <1>11 DEF SettlementInv

-----------------------------------------------------------------------------
(* Every step                                                               *)

LEMMA NextKeeps ==
    ASSUME SettlementConstants, SettlementInv, IsFiniteSet(forecasts), [Next]_vars
    PROVE  SettlementInv' /\ NothingIsRewritten
<1>2. CASE Tick \/ Reschedule
  <2>1. NothingIsRewritten
    BY <1>2 DEF Tick, Reschedule, books, SettlementInv, Typed, NothingIsRewritten
  <2>. QED BY <1>2, <2>1, TimeKeeps
<1>3. CASE Publish
  BY <1>3, PublishKeeps
<1>4. CASE Freeze
  BY <1>4, FreezeKeeps
<1>5. ASSUME NEW r \in Runs, Start(r) \/ Evidence(r) \/ Collect(r) \/ Consider(r) PROVE SettlementInv' /\ NothingIsRewritten
  <2>1. UNCHANGED <<world, books, receipts>>
    BY <1>5 DEF Start, Evidence, Collect, Consider
  <2>. QED BY <1>5, <2>1, SameIsNotRewritten, StartKeeps, EvidenceKeeps, CollectKeeps, ConsiderKeeps DEF SettlementInv
<1>6. ASSUME NEW r \in Runs, EvidenceUnusable(r) \/ Crash(r) PROVE SettlementInv' /\ NothingIsRewritten
  <2>1. UNCHANGED <<world, books, receipts>> /\ pc[r] # "idle" /\ End(r)
    BY <1>6 DEF EvidenceUnusable, Crash
  <2>. QED BY <2>1, SameIsNotRewritten, EndKeeps DEF SettlementInv
<1>7. ASSUME NEW r \in Runs, Settle(r) PROVE SettlementInv' /\ NothingIsRewritten
  BY <1>7, SettleKeeps, SettledOnFile
<1>8. ASSUME NEW r \in Runs, Finish(r) PROVE SettlementInv' /\ NothingIsRewritten
  BY <1>8, FinishKeeps
<1>9. ASSUME NEW o \in Reviewers, ReadForecast(o) \/ Review(o) PROVE SettlementInv' /\ NothingIsRewritten
  <2>1. UNCHANGED <<world, books, receipts>>
    BY <1>9 DEF ReadForecast, Review
  <2>. QED BY <1>9, <2>1, SameIsNotRewritten, ReviewerReads DEF SettlementInv
<1>10. ASSUME NEW o \in Reviewers, SettleOne(o) \/ Correct(o) PROVE SettlementInv' /\ NothingIsRewritten
  BY <1>10, SettleOneKeeps, CorrectKeeps
<1>11. CASE UNCHANGED vars
  <2>1. UNCHANGED <<world, books, receipts, pc, run, locked, now, kickoff, files, forecasts>>
    BY <1>11 DEF vars, world
  <2>2. NothingIsRewritten
    BY <2>1, SameIsNotRewritten DEF SettlementInv
  <2>3. Typed'
    BY <2>1 DEF SettlementInv, Typed, books
  <2>. QED BY <2>1, <2>2, <2>3, WorldKeeps
<1>. QED BY <1>2, <1>3, <1>4, <1>5, <1>6, <1>7, <1>8, <1>9, <1>10, <1>11 DEF Next, Sweeping

LEMMA FiniteStays ==
    ASSUME SettlementConstants, SettlementInv, IsFiniteSet(forecasts), [Next]_vars
    PROVE  IsFiniteSet(forecasts')
<1>1. CASE Freeze
  <2>1. PICK f \in Forecast : forecasts' = forecasts \cup {f}
    BY <1>1, FreezeAdds DEF SettlementInv, Typed
  <2>. QED BY <2>1, FS_AddElement
<1>2. CASE UNCHANGED forecasts
  BY <1>2
<1>. QED BY <1>1, <1>2
     DEF Next, Tick, Reschedule, Publish, Start, Sweeping, Evidence, Collect, Consider, Settle, Finish,
         EvidenceUnusable, Crash, ReadForecast, SettleOne, Review, Correct, vars, world

\* Where no reviewer settles, forecasts are numbered as they are frozen and the first one is settled.
LEMMA FirstKeeps ==
    ASSUME SettlementConstants, SettlementInv, FirstInv, Reviewers = {}, [Next]_vars
    PROVE  FirstInv'
<1> DEFINE n == Cardinality(forecasts)
<1>1. n \in Nat /\ \A f \in forecasts : f.at \in Nat /\ f.at < n
  BY FS_CardinalityType DEF FirstInv, SettlementInv, Typed, Forecast
<1>2. CASE Freeze
  <2>1. PICK f \in Forecast : f.at = n /\ forecasts' = forecasts \cup {f}
    BY <1>2, FreezeAdds DEF SettlementInv, Typed, FirstInv
  <2>2. f \notin forecasts
    BY <1>1, <2>1
  <2>3. IsFiniteSet(forecasts') /\ Cardinality(forecasts') = n + 1
    BY <2>1, <2>2, FS_AddElement DEF FirstInv
  <2>4. \A g \in forecasts' : g.at < n + 1
    BY <1>1, <2>1
  <2>5. outcomes' = outcomes
    BY <1>2 DEF Freeze, books
  <2>6. ASSUME NEW market \in Markets, NEW fixture \in Fixture, outcomes[<<market, fixture>>] # None,
               NEW g \in Of(Inventory(market), fixture)'
        PROVE  outcomes[<<market, fixture>>].forecast.at <= g.at
    <3>1. outcomes[<<market, fixture>>].forecast \in forecasts
      BY <2>6 DEF SettlementInv, Typed, Items
    <3>2. g = f \/ g \in Of(Inventory(market), fixture)
      BY <2>1 DEF Of, Inventory
    <3>3. CASE g = f
      BY <1>1, <2>1, <3>1, <3>3
    <3>4. CASE g \in Of(Inventory(market), fixture)
      BY <2>6, <3>4 DEF FirstInv, FirstForecastSettles
    <3>. QED BY <3>2, <3>3, <3>4
  <2>. QED BY <2>3, <2>4, <2>5, <2>6 DEF FirstInv, FirstForecastSettles
<1>3. ASSUME NEW r \in Runs, Settle(r) PROVE FirstInv'
  <2>1. /\ run[r].item \in Items /\ forecasts' = forecasts
        /\ \/ outcomes' = outcomes
           \/ /\ outcomes'[run[r].item].forecast = Earliest(Inventory(run[r].item[1]), run[r].item[2])
              /\ \A s \in Items : s # run[r].item => outcomes'[s] = outcomes[s]
    BY <1>3, SettledOnFile DEF Settle, world
  <2>2. ASSUME NEW market \in Markets, NEW fixture \in Fixture, outcomes'[<<market, fixture>>] # None,
               NEW g \in Of(Inventory(market), fixture)
        PROVE  outcomes'[<<market, fixture>>].forecast.at <= g.at
    <3>1. CASE outcomes'[<<market, fixture>>] = outcomes[<<market, fixture>>]
      BY <2>2, <3>1 DEF FirstInv, FirstForecastSettles
    <3>2. CASE outcomes'[<<market, fixture>>] # outcomes[<<market, fixture>>]
      <4>1. run[r].item = <<market, fixture>>
        BY <2>1, <3>2 DEF Items
      <4>2. outcomes'[<<market, fixture>>].forecast = Earliest(Inventory(market), fixture)
        BY <2>1, <3>2, <4>1
      <4>3. Inventory(market) \in SUBSET Forecast
        BY DEF Inventory, SettlementInv, Typed
      <4>. QED BY <4>2, <4>3, EarliestIs
    <3>. QED BY <3>1, <3>2
  <2>3. \A market : Inventory(market)' = Inventory(market)
    BY <2>1 DEF Inventory
  <2>. QED BY <2>1, <2>2, <2>3 DEF FirstInv, FirstForecastSettles, Of
<1>4. CASE UNCHANGED <<forecasts, outcomes>>
  BY <1>4 DEF FirstInv, FirstForecastSettles, Of, Inventory
<1>. QED BY <1>2, <1>3, <1>4
     DEF Next, Tick, Reschedule, Publish, Start, Sweeping, Evidence, Collect, Consider, Finish,
         EvidenceUnusable, Crash, vars, world, books

-----------------------------------------------------------------------------
(* What the code promises                                                   *)

(* The files, the lock, what each run and reviewer has read and what is on  *)
(* file fit together: the inductive invariant.                              *)
THEOREM SettlementInvariant ==
    ASSUME SettlementConstants
    PROVE  Spec => [](SettlementInv /\ IsFiniteSet(forecasts))
<1>1. Init => SettlementInv /\ IsFiniteSet(forecasts)
  BY InitSettlement DEF FirstInv
<1>2. SettlementInv /\ IsFiniteSet(forecasts) /\ [Next]_vars => (SettlementInv /\ IsFiniteSet(forecasts))'
  BY NextKeeps, FiniteStays
<1>. QED BY <1>1, <1>2, PTL DEF Spec

(* The books keep their types and the lock has one automatic run behind it. *)
THEOREM TypeCorrect == ASSUME SettlementConstants PROVE Spec => []TypeOK
<1>1. SettlementInv => TypeOK
  <2>1. SUFFICES ASSUME SettlementInv PROVE TypeOK
    OBVIOUS
  <2>2. ASSUME NEW s \in Items, outcomes[s] # None
        PROVE  outcomes[s] \in [forecast: forecasts, file: 1 .. MaxFiles, result: Scores]
    BY <2>1, <2>2 DEF SettlementInv, Typed, Outcome
  <2>3. locked = (\E r \in Timer : pc[r] # "idle")
    BY <2>1 DEF SettlementInv, OneRun
  <2>. QED BY <2>1, <2>2, <2>3 DEF SettlementInv, Typed, TypeOK, Items
<1>. QED BY <1>1, SettlementInvariant, PTL

(* Results belong to the fixtures they settle, the corrections of an        *)
(* outcome form one chain, and terminal receipts are true, for any runs,    *)
(* sweeps and reviewers at work at once.                                    *)
THEOREM SettlementIsSound ==
    ASSUME SettlementConstants
    PROVE  Spec => [](ResultsBelong /\ ChainsStayReadable /\ ReceiptsAreTrue)
<1>1. SettlementInv => ResultsBelong /\ ChainsStayReadable /\ ReceiptsAreTrue
  BY DEF SettlementInv
<1>. QED BY <1>1, SettlementInvariant, PTL

(* No step rewrites or removes a published file, a frozen forecast, an      *)
(* outcome, a correction or a terminal receipt.                             *)
THEOREM NothingRewritten ==
    ASSUME SettlementConstants
    PROVE  Spec => [][NothingIsRewritten]_vars
<1>1. SettlementInv /\ IsFiniteSet(forecasts) /\ [Next]_vars => NothingIsRewritten
  BY NextKeeps
<1>. QED BY <1>1, SettlementInvariant, PTL DEF Spec

(* Where only sweeps settle, an outcome settles the forecast frozen first,  *)
(* whichever writer froze it and whatever is frozen meanwhile.              *)
THEOREM FirstIsSettled ==
    ASSUME SettlementConstants, Reviewers = {}
    PROVE  Spec => []FirstForecastSettles
<1>1. Init => FirstInv
  BY InitSettlement
<1>2. SettlementInv /\ FirstInv /\ [Next]_vars => FirstInv'
  BY FirstKeeps
<1>3. FirstInv => FirstForecastSettles
  BY DEF FirstInv
<1>. QED BY <1>1, <1>2, <1>3, SettlementInvariant, PTL DEF Spec
=============================================================================
