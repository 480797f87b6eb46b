------------------------------ MODULE PLResults ------------------------------
(***************************************************************************)
(* Premier League results: a reviewed result is recorded by one saved      *)
(* operation (pl_saved_orchestration.run_once), as a link of a private     *)
(* chain (pl_product_source.record_result and resume_result), and shown to *)
(* the readers, who cannot open private evidence, by a public intent and a *)
(* public projection (pl_public_evidence).                                 *)
(*                                                                         *)
(* A record's hash stands for all it binds, so a record is the sequence of *)
(* links up to it: <<>> is "no parent".  The runner and ledger locks let   *)
(* one job write at a time; it may stop between any two writes, and what   *)
(* it has written stays.  A pending operation is cleared only by a person  *)
(* (Inspect, external).  Readers take no lock.                             *)
(***************************************************************************)
EXTENDS Integers, FiniteSets, SequencesExt

CONSTANTS
    Ids,      \* operation identifiers
    Sources,  \* reviewed final receipts of one fixture
    MaxLinks, \* bound: the length of the chain
    MaxTime,  \* bound
    None

ResultsAssumption == MaxLinks \in Nat \ {0} /\ MaxTime \in Nat

Pending == "PENDING"
Rejected == "REJECTED"
Links == [source : Sources, at : 0 .. MaxTime]
Requests == [source : Sources, supersedes : UNION {[1 .. n -> Links] : n \in 0 .. MaxLinks}]

VARIABLES
    now,
    ops,      \* epl-saved-operations: the intent of each operation and whether it is done, or None
    private,  \* epl-prospective: the result records
    intents,  \* epl-public-evidence: result intents
    results,  \* and projections: the record and when it was projected
    job,      \* the job that holds the locks, or None
    said      \* ghost: what readers were told at the end of each slot

vars == <<now, ops, private, intents, results, job, said>>

-----------------------------------------------------------------------------
(* The private chain.                                                      *)

Tip == IF private = {} THEN <<>> ELSE CHOOSE r \in private : \A o \in private : Len(o) <= Len(r)

Projected(r) == \E v \in results : v.record = r
Uncommitted == {r \in intents : ~Projected(r)}

(* A result that is the tip already is only projected again; otherwise it  *)
(* is the first, or corrects exactly the tip.                              *)
MutantRepeats(request) == request.supersedes = <<>> /\ ops /= [i \in Ids |-> None]
Repeats(request) ==
    /\ private /= {} /\ Last(Tip).source = request.source
    /\ request.supersedes \in {<<>>, Front(Tip)}
MutantExtends(request) == request.supersedes \in private \cup {<<>>}
Extends(request) ==
    /\ private = {} \/ Last(Tip).source /= request.source
    /\ request.supersedes = Tip

-----------------------------------------------------------------------------
(* read_result: what a reader says as of a time.                           *)

Shown == {v.record : v \in results}
MutantEffective(at) == {v \in results : Last(v.record).at <= at}
Effective(at) == {v \in results : Last(v.record).at <= at /\ v.projected <= at}

MutantConsistent == TRUE
(* Intents and projections name the same records, these form one chain, and*)
(* were projected in its order.                                            *)
Consistent ==
    /\ intents = Shown /\ Cardinality(results) = Cardinality(Shown)
    /\ \A v, w \in results :
        \/ IsPrefix(v.record, w.record) /\ v.projected <= w.projected
        \/ IsPrefix(w.record, v.record) /\ w.projected <= v.projected

read_result(at) ==
    IF ~Consistent THEN Rejected
    ELSE IF Effective(at) = {} THEN Pending
    ELSE Last((CHOOSE v \in Effective(at) : \A w \in Effective(at) : Len(w.record) <= Len(v.record)).record).source

-----------------------------------------------------------------------------
Init ==
    /\ now = 0
    /\ ops = [i \in Ids |-> None]
    /\ private = {} /\ intents = {} /\ results = {}
    /\ job = None
    /\ said = <<>>

Tick ==
    /\ now < MaxTime
    /\ now' = now + 1
    /\ said' = Append(said, read_result(now))
    /\ UNCHANGED <<ops, private, intents, results, job>>

PendingOps == {i \in Ids : ops[i] /= None /\ ~ops[i].done}

(* run_once: a new operation under no pending one saves its intent first.  *)
(* A done operation replays its result, or conflicts: nothing changes.     *)
MutantNoOther == TRUE
NoOther == PendingOps = {}

Start(i, request) ==
    /\ job = None /\ ops[i] = None /\ NoOther
    /\ ops' = [ops EXCEPT ![i] = [request |-> request, done |-> FALSE]]
    /\ job' = [op |-> i, pc |-> "check", record |-> <<>>]
    /\ UNCHANGED <<now, private, intents, results, said>>

MutantNoIntentPending == TRUE
NoIntentPending == Uncommitted = {}

(* record_result; a refusal leaves the operation pending.                  *)
Check ==
    /\ job /= None /\ job.pc = "check"
    /\ LET request == ops[job.op].request
           record == Append(request.supersedes, [source |-> request.source, at |-> now])
       IN  job' = IF Repeats(request) THEN [job EXCEPT !.pc = "project", !.record = Tip]
                  ELSE IF Extends(request) /\ NoIntentPending /\ Len(record) <= MaxLinks
                  THEN [job EXCEPT !.pc = "intent", !.record = record]
                  ELSE None
    /\ UNCHANGED <<now, ops, private, intents, results, said>>

MutantIntent ==
    /\ job /= None /\ job.pc = "intent"
    /\ private' = private \cup {job.record}
    /\ job' = [job EXCEPT !.pc = "put"]
    /\ UNCHANGED <<now, ops, intents, results, said>>
Intent ==
    /\ job /= None /\ job.pc = "intent"
    /\ intents' = intents \cup {job.record}
    /\ job' = [job EXCEPT !.pc = "put"]
    /\ UNCHANGED <<now, ops, private, results, said>>

MutantPut ==
    /\ job /= None /\ job.pc = "put"
    /\ intents' = intents \cup {job.record}
    /\ private' = private \cup {job.record}
    /\ job' = [job EXCEPT !.pc = "project"]
    /\ UNCHANGED <<now, ops, results, said>>
Put ==
    /\ job /= None /\ job.pc = "put"
    /\ private' = private \cup {job.record}
    /\ job' = [job EXCEPT !.pc = "project"]
    /\ UNCHANGED <<now, ops, intents, results, said>>

MutantProject ==
    /\ job /= None /\ job.pc = "project"
    /\ results' = results \cup {[record |-> job.record, projected |-> now]}
    /\ job' = [job EXCEPT !.pc = "done"]
    /\ UNCHANGED <<now, ops, private, intents, said>>
(* A projection that is there keeps its time.                              *)
Project ==
    /\ job /= None /\ job.pc = "project"
    /\ results' = IF Projected(job.record) THEN results
                  ELSE results \cup {[record |-> job.record, projected |-> now]}
    /\ job' = [job EXCEPT !.pc = "done"]
    /\ UNCHANGED <<now, ops, private, intents, said>>

Done ==
    /\ job /= None /\ job.pc = "done"
    /\ ops' = IF job.op = None THEN ops ELSE [ops EXCEPT ![job.op].done = TRUE]
    /\ job' = None
    /\ UNCHANGED <<now, private, intents, results, said>>

(* resume_result: the exact bytes of one intent, at their original time.   *)
Resume(record) ==
    /\ job = None /\ record \in intents
    /\ Tip \in {record, Front(record)}
    /\ job' = [op |-> None, pc |-> "put", record |-> record]
    /\ UNCHANGED <<now, ops, private, intents, results, said>>

Crash ==
    /\ job /= None
    /\ job' = None
    /\ UNCHANGED <<now, ops, private, intents, results, said>>

(* The separately reviewed recovery of a pending operation.                *)
Inspect(i) ==
    /\ job = None /\ i \in PendingOps
    /\ ops' = [ops EXCEPT ![i] = None]
    /\ UNCHANGED <<now, private, intents, results, job, said>>

Next ==
    \/ Tick
    \/ \E i \in Ids : \/ \E s \in Sources, parent \in private \cup {<<>>} :
                            Start(i, [source |-> s, supersedes |-> parent])
                      \/ Inspect(i)
    \/ \E r \in intents : Resume(r)
    \/ Check \/ Intent \/ Put \/ Project \/ Done \/ Crash

Spec == Init /\ [][Next]_vars

-----------------------------------------------------------------------------
TypeOK ==
    /\ now \in 0 .. MaxTime
    /\ \A i \in Ids : ops[i] = None \/ (ops[i].request \in Requests /\ ops[i].done \in BOOLEAN)
    /\ private \cup intents \cup Shown \subseteq UNION {[1 .. n -> Links] : n \in 1 .. MaxLinks}
    /\ Len(said) = now
    /\ job = None \/ job.op \in Ids \cup {None}

(* However jobs stop and are resumed, the private results are one chain:   *)
(* two corrections of the same result never both exist.                    *)
OneChain == \A r, s \in private : IsPrefix(r, s) \/ IsPrefix(s, r)

(* A reader who cannot see private evidence never shows a result that has  *)
(* been corrected, nor none when there is one: it answers the tip of the   *)
(* private chain or refuses to answer.                                     *)
ReaderSeesTip ==
    read_result(now) \in {Rejected, IF private = {} THEN Pending ELSE Last(Tip).source}

(* What a reader was told of a slot when it ended it is never told        *)
(* otherwise, though a resumed result keeps the time it was observed.      *)
PastIsStable ==
    \A t \in 1 .. now : said[t] /= Rejected => read_result(t - 1) \in {said[t], Rejected}

(* What a stopped job left half written can always be resumed: the one     *)
(* uncommitted intent is the tip of the chain or its next link.            *)
AlwaysResumable ==
    job = None => \A r \in Uncommitted : Tip \in {r, Front(r)} /\ Uncommitted = {r}

(* At most one operation is ever pending, so whatever a stopped operation  *)
(* has done is inspected before another one starts.                        *)
OnePending == Cardinality(PendingOps) <= 1

(* Repeating or resuming a result never projects it a second time.         *)
OneProjection == \A v, w \in results : v.record = w.record => v = w
=============================================================================
