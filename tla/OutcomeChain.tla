----------------------------- MODULE OutcomeChain -----------------------------
(***************************************************************************)
(* The outcome chain of one captured analysis                              *)
(* (corner_analysis_outcomes.py).  A call reads the capture under the      *)
(* ledger lock, leaves the lock to read the result from a source that      *)
(* refreshes meanwhile, and takes the lock again to validate the chain and *)
(* to append one immutable record.  The runner settles an analysis without *)
(* outcome under a fixed key; operators settle and correct under theirs.   *)
(***************************************************************************)
EXTENDS Naturals, Sequences, FiniteSets

CONSTANTS
    Keys,         \* idempotency keys; outcome_id is made from the key
    Results,      \* what a source can say of the match (its evidence hash)
    FirstResult,  \* "prospective:first-result:v1", the key of _inventory
    Runner,       \* the prospective runner
    Operators,    \* settle commands that may overlap with it
    None,
    MaxRefreshes, MaxCrashes  \* bounds

ASSUME OutcomeConstants ==
    /\ FirstResult \in Keys
    /\ Runner \notin Operators
    /\ None \notin Keys \cup Results
    /\ MaxRefreshes \in Nat /\ MaxCrashes \in Nat

Callers == Operators \cup {Runner}

VARIABLES
    row,        \* the result row of the source, None until it is published
    records,    \* analysis-outcomes/<analysis>/*.json
    pc,         \* per caller: where _record_outcome stands
    call,       \* per caller: its idempotency_key and supersedes_outcome_id
    evidence,   \* per caller: the evidence it read
    refreshes, crashes,
    \* observations of the environment, read by no action
    appended,   \* the outcomes in the order of their publication
    answers     \* the calls answered: call, evidence and the record returned

vars == <<row, records, pc, call, evidence, refreshes, crashes, appended, answers>>

NoCall == [key |-> None, corrects |-> None]
Record == [id: Keys, evidence: Results, supersedes: Keys \cup {None}]
Call == [key: Keys \cup {None}, corrects: Keys \cup {None}]

Init ==
    /\ row = None
    /\ records = {}
    /\ pc = [c \in Callers |-> "idle"]
    /\ call = [c \in Callers |-> NoCall]
    /\ evidence = [c \in Callers |-> None]
    /\ refreshes = 0 /\ crashes = 0
    /\ appended = <<>>
    /\ answers = {}

-----------------------------------------------------------------------------
(* Reading a chain                                                         *)

Roots == {r \in records : r.supersedes = None}
Children(id) == {r \in records : r.supersedes = id}

\* the walk of _validated_chain: the outcomes met within n revisions of the root
Walk ==
    LET walk[n \in 0 .. Cardinality(records)] ==
            IF n = 0 THEN Roots
            ELSE walk[n - 1] \cup {r \in records : \E p \in walk[n - 1] : r.supersedes = p.id}
    IN walk[Cardinality(records)]

\* _validated_chain raises INVALID_REVISION_CHAIN otherwise
ChainAccepted ==
    records # {} => /\ Cardinality(Roots) = 1
                    /\ \A r \in records : Cardinality(Children(r.id)) <= 1
                    /\ Walk = records

\* the outcome that no other supersedes
IsTip(r) == r \in records /\ Children(r.id) = {}
Tip == CHOOSE r \in records : IsTip(r)

-----------------------------------------------------------------------------
(* One call of _record_outcome                                             *)

Return(c) ==
    /\ pc' = [pc EXCEPT ![c] = "idle"]
    /\ call' = [call EXCEPT ![c] = NoCall]
    /\ evidence' = [evidence EXCEPT ![c] = None]

\* the capture is read and validated under the ledger lock; it is immutable
Begin(c, key, corrects) ==
    /\ pc[c] = "idle"
    /\ pc' = [pc EXCEPT ![c] = "evidence"]
    /\ call' = [call EXCEPT ![c] = [key |-> key, corrects |-> corrects]]
    /\ UNCHANGED <<row, records, evidence, refreshes, crashes, appended, answers>>

\* _inventory settles what it saw without a tip
SettleFirst == records = {} /\ Begin(Runner, FirstResult, None)

\* the command line: any key, and for a correction any outcome it was told of
Settle(c) == \E key \in Keys, corrects \in Keys \cup {None} : Begin(c, key, corrects)

MutantReadEarly(c) ==
    /\ pc[c] = "evidence"
    /\ evidence' = [evidence EXCEPT ![c] = row]
    /\ pc' = [pc EXCEPT ![c] = "append"]
    /\ UNCHANGED <<row, records, call, refreshes, crashes, appended, answers>>

\* the source is read under its own lock
ReadEvidence(c) ==
    /\ pc[c] = "evidence" /\ row # None
    /\ evidence' = [evidence EXCEPT ![c] = row]
    /\ pc' = [pc EXCEPT ![c] = "append"]
    /\ UNCHANGED <<row, records, call, refreshes, crashes, appended, answers>>

\* RESULT_NOT_AVAILABLE, REVIEW_REQUIRED, NO_SUPPORTED_TEAM_TOTALS
Abstain(c) ==
    /\ pc[c] = "evidence"
    /\ Return(c)
    /\ UNCHANGED <<row, records, refreshes, crashes, appended, answers>>

Existing(c) == {r \in records : r.id = call[c].key}

\* the answer of a call whose key was used before
MutantReplayUnchecked(c, r) == TRUE
SameCall(c, r) == r.evidence = evidence[c] /\ r.supersedes = call[c].corrects

Replay(c) ==
    /\ pc[c] = "append" /\ ChainAccepted
    /\ \E r \in Existing(c) :
          /\ SameCall(c, r)
          /\ answers' = answers \cup {[call |-> call[c], evidence |-> evidence[c], record |-> r]}
    /\ Return(c)
    /\ UNCHANGED <<row, records, refreshes, crashes, appended>>

\* a settlement begins the chain; a correction supersedes its tip and differs
MutantAnyParent(c) ==
    IF records = {} THEN call[c].corrects = None
    ELSE /\ \E r \in records : r.id = call[c].corrects
         /\ evidence[c] # Tip.evidence
MutantSameEvidence(c) ==
    IF records = {} THEN call[c].corrects = None ELSE call[c].corrects = Tip.id
Appendable(c) ==
    IF records = {} THEN call[c].corrects = None
    ELSE /\ call[c].corrects = Tip.id
         /\ evidence[c] # Tip.evidence

NewRecord(c) ==
    [id |-> call[c].key, evidence |-> evidence[c], supersedes |-> call[c].corrects]

MutantReplaceTip(c) ==
    /\ pc[c] = "append" /\ ChainAccepted
    /\ Existing(c) = {} /\ Appendable(c)
    /\ records' = {r \in records : r.id # call[c].corrects}
                      \cup {[NewRecord(c) EXCEPT !.supersedes = None]}
    /\ appended' = Append(appended, NewRecord(c))
    /\ Return(c)
    /\ UNCHANGED <<row, refreshes, crashes, answers>>

Publish(c) ==
    /\ pc[c] = "append" /\ ChainAccepted
    /\ Existing(c) = {} /\ Appendable(c)
    /\ records' = records \cup {NewRecord(c)}
    /\ appended' = Append(appended, NewRecord(c))
    /\ answers' = answers \cup
          {[call |-> call[c], evidence |-> evidence[c], record |-> NewRecord(c)]}
    /\ Return(c)
    /\ UNCHANGED <<row, refreshes, crashes>>

\* IDEMPOTENCY_CONFLICT, RESULT_CONFLICT, OUTCOME_ALREADY_EXISTS, REVISION_CONFLICT,
\* CORRECTION_NOT_REQUIRED, INVALID_REVISION_CHAIN; or the write fails
Reject(c) ==
    /\ pc[c] = "append"
    /\ Return(c)
    /\ UNCHANGED <<row, records, refreshes, crashes, appended, answers>>

\* before or after the record was linked
Crash(c) ==
    /\ pc[c] # "idle" /\ crashes < MaxCrashes
    /\ crashes' = crashes + 1
    /\ \/ UNCHANGED <<records, appended>>
       \/ /\ pc[c] = "append" /\ ChainAccepted
          /\ Existing(c) = {} /\ Appendable(c)
          /\ records' = records \cup {NewRecord(c)}
          /\ appended' = Append(appended, NewRecord(c))
    /\ Return(c)
    /\ UNCHANGED <<row, refreshes, answers>>

\* corner_refresh replaces the season's CSV
Refresh ==
    /\ refreshes < MaxRefreshes
    /\ refreshes' = refreshes + 1
    /\ row' \in Results \ {row}
    /\ UNCHANGED <<records, pc, call, evidence, crashes, appended, answers>>

Next ==
    \/ SettleFirst
    \/ \E c \in Operators : Settle(c)
    \/ \E c \in Callers : \/ ReadEvidence(c) \/ Abstain(c)
                          \/ Replay(c) \/ Publish(c) \/ Reject(c) \/ Crash(c)
    \/ Refresh

Spec == Init /\ [][Next]_vars

-----------------------------------------------------------------------------
(* Properties                                                              *)

\* The files and the calls hold what _record_outcome writes.
TypeOK ==
    /\ row \in Results \cup {None}
    /\ records \subseteq Record
    /\ pc \in [Callers -> {"idle", "evidence", "append"}]
    /\ call \in [Callers -> Call]
    /\ evidence \in [Callers -> Results \cup {None}]
    /\ \A c \in Callers : pc[c] # "idle" => call[c].key # None
    /\ \A c \in Callers : pc[c] = "append" => evidence[c] # None
    /\ appended \in Seq(Record)

\* Whatever the calls in flight, the files always form one chain: one root, no
\* fork, everything reachable; _validated_chain never meets an invalid one.
ChainStaysValid == ChainAccepted

\* The tip a reader computes from the files is the outcome published last.
TipIsLatest == records # {} => appended # <<>> /\ Tip = appended[Len(appended)]

\* An idempotency key stands for one outcome: every call answered under it, by
\* the first publication or by a replay after a crash, got the same record, that
\* record is still on file, and it says what the caller had read.
KeysAreIdempotent ==
    /\ \A a, b \in answers : a.call.key = b.call.key => a.record = b.record
    /\ \A a \in answers : /\ a.record \in records
                          /\ a.record.evidence = a.evidence
                          /\ a.record.supersedes = a.call.corrects

\* The evidence is immutable: no step removes or rewrites a published outcome,
\* and one step publishes at most one.
AppendOnly ==
    [][records \subseteq records' /\ Cardinality(records' \ records) <= 1]_vars

\* the history the chain stands for
Entries == [i \in 1 .. Len(appended) |-> [id |-> appended[i].id,
                                          evidence |-> appended[i].evidence]]
History == INSTANCE OutcomeHistory WITH history <- Entries

\* The chain implements OutcomeHistory: it begins with one settlement and grows
\* by corrections that differ from what they correct.
ImplementsHistory == History!Spec
=============================================================================
