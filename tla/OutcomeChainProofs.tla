-------------------------- MODULE OutcomeChainProofs --------------------------
(***************************************************************************)
(* The outcome chain is linear and implements OutcomeHistory for every set *)
(* of keys, results and operators and any number of refreshes and crashes. *)
(* The argument: the files are exactly the outcomes published so far, each *)
(* superseding the one published before it, so the outcome without a       *)
(* successor, which an appended correction must name, is the latest one.   *)
(* That a reader's walk from the root meets them all is an induction over  *)
(* the walk, made with the least revision at which it would not.           *)
(* Two neighbours of the chain follow, for every value of their constants: *)
(* the forecast runner (F, ForecastRunner), by the one live run under the  *)
(* lock and what it holds at each place (FInv); and the analysis store (A, *)
(* AnalysisStore), by what stays true between the lookup and the link      *)
(* while the lock is held (AInv).  The two manual ledgers come last: the   *)
(* corner ledger (L, CornerLedger) and the forecast ledger (M,             *)
(* ForecastLedger), whose files only grow, so that what a command or a     *)
(* summary has read stays true of them (LedgerInv, ForecastInv).           *)
(***************************************************************************)
EXTENDS OutcomeChain, FiniteSetTheorems, TLAPS

\* one outcome per key, each superseding the one before it
Linear ==
    /\ records = {appended[i] : i \in 1 .. Len(appended)}
    /\ \A i \in 1 .. Len(appended) :
          appended[i].supersedes = IF i = 1 THEN None ELSE appended[i - 1].id
    /\ \A i, j \in 1 .. Len(appended) : appended[i].id = appended[j].id => i = j

\* the types, with the answers'
Typed ==
    /\ TypeOK
    /\ answers \subseteq [call: Call, evidence: Results, record: Record]

ChainInv == Typed /\ Linear

\* a record is among the files only as one of those published
LEMMA PublishedRecords ==
    ASSUME ChainInv
    PROVE  /\ Len(appended) \in Nat
           /\ \A i \in 1 .. Len(appended) : appended[i] \in records /\ appended[i] \in Record
           /\ \A r \in records : \E i \in 1 .. Len(appended) : r = appended[i]
           /\ (records = {}) <=> (appended = <<>>)
           /\ (records # {}) => Len(appended) \in 1 .. Len(appended)
<1>1. appended \in Seq(Record) /\ records = {appended[i] : i \in 1 .. Len(appended)}
  BY DEF ChainInv, Typed, TypeOK, Linear
<1>2. Len(appended) \in Nat /\ (appended = <<>> <=> Len(appended) = 0)
  BY <1>1
<1>3. \A i \in 1 .. Len(appended) : appended[i] \in records /\ appended[i] \in Record
  BY <1>1
<1>4. records = {} <=> Len(appended) = 0
  <2>1. ASSUME Len(appended) # 0 PROVE records # {}
    <3>1. 1 \in 1 .. Len(appended)
      BY <1>2, <2>1
    <3>. QED BY <1>3, <3>1
  <2>2. ASSUME Len(appended) = 0 PROVE records = {}
    BY <1>1, <2>2
  <2>. QED BY <2>1, <2>2
<1>5. records # {} => Len(appended) \in 1 .. Len(appended)
  BY <1>2, <1>4
<1>6. \A r \in records : \E i \in 1 .. Len(appended) : r = appended[i]
  BY <1>1
<1>. QED BY <1>2, <1>3, <1>4, <1>5, <1>6

\* the outcome without a successor is the latest
LEMMA LatestIsTip ==
    ASSUME ChainInv, records # {}
    PROVE  Tip = appended[Len(appended)]
<1> DEFINE n == Len(appended)
<1>1. n \in Nat /\ n >= 1 /\ n \in 1 .. n
  BY PublishedRecords
<1>2. \A i \in 1 .. n : appended[i] \in Record /\ appended[i] \in records
  BY PublishedRecords
<1>3. IsTip(appended[n])
  <2>1. SUFFICES ASSUME NEW r \in records, r.supersedes = appended[n].id PROVE FALSE
    BY <1>1, <1>2 DEF IsTip, Children
  <2>2. PICK j \in 1 .. n : r = appended[j]
    BY PublishedRecords
  <2>3. appended[n].id # None
    BY <1>1, <1>2, OutcomeConstants DEF Record
  <2>4. j # 1
    BY <2>1, <2>2, <2>3 DEF ChainInv, Linear
  <2>5. appended[j].supersedes = appended[j - 1].id
    BY <2>4 DEF ChainInv, Linear
  <2>6. j - 1 \in 1 .. n /\ j - 1 # n
    BY <1>1, <2>4
  <2>7. appended[j - 1].id = appended[n].id
    BY <2>1, <2>2, <2>5
  <2>. QED BY <1>1, <2>6, <2>7 DEF ChainInv, Linear
<1>4. ASSUME NEW r, IsTip(r) PROVE r = appended[n]
  <2>1. PICK i \in 1 .. n : r = appended[i]
    BY <1>4, PublishedRecords DEF IsTip
  <2>2. CASE i = n
    BY <2>1, <2>2
  <2>3. CASE i # n
    <3>1. i + 1 \in 1 .. n /\ i + 1 # 1 /\ (i + 1) - 1 = i
      BY <1>1, <2>3
    <3>2. appended[i + 1].supersedes = appended[i].id
      BY <3>1 DEF ChainInv, Linear
    <3>3. appended[i + 1] \in Children(r.id)
      BY <1>2, <2>1, <3>1, <3>2 DEF Children
    <3>. QED BY <1>4, <3>3 DEF IsTip
  <2>. QED BY <2>2, <2>3
<1>. QED BY <1>3, <1>4 DEF Tip, IsTip

-----------------------------------------------------------------------------
(* The publication of a record                                             *)

\* what Publish and a crash after the link do to the files
Appends(c) ==
    /\ pc[c] = "append"
    /\ Existing(c) = {} /\ Appendable(c)
    /\ records' = records \cup {NewRecord(c)}
    /\ appended' = Append(appended, NewRecord(c))

\* Publishing a record that supersedes the latest one keeps the files one chain.
LEMMA AppendKeepsLinear ==
    ASSUME ChainInv, NEW c \in Callers, Appends(c)
    PROVE  Linear' /\ NewRecord(c) \in Record /\ appended' \in Seq(Record)
<1> DEFINE n == Len(appended)  r == NewRecord(c)
<1>1. /\ call[c].key \in Keys /\ call[c].corrects \in Keys \cup {None}
      /\ evidence[c] \in Results
  BY DEF Appends, ChainInv, Typed, TypeOK, Call
<1>2. r \in Record /\ r.id = call[c].key /\ r.supersedes = call[c].corrects
  BY <1>1 DEF NewRecord, Record
<1>3. appended \in Seq(Record) /\ n \in Nat
  BY DEF ChainInv, Typed, TypeOK
<1>4. /\ appended' \in Seq(Record) /\ Len(appended') = n + 1
      /\ \A i \in 1 .. n : appended'[i] = appended[i]
      /\ appended'[n + 1] = r
  BY <1>2, <1>3 DEF Appends
<1>5. 1 .. n + 1 = (1 .. n) \cup {n + 1}
  BY <1>3
<1>6. records' = {appended'[i] : i \in 1 .. Len(appended')}
  BY <1>4, <1>5 DEF ChainInv, Linear, Appends
<1>7. \A i \in 1 .. n : appended[i].id # r.id
  BY <1>2, PublishedRecords DEF Appends, Existing
<1>8. \A i, j \in 1 .. n + 1 : appended'[i].id = appended'[j].id => i = j
  BY <1>4, <1>5, <1>7 DEF ChainInv, Linear
<1>9. r.supersedes = IF n + 1 = 1 THEN None ELSE appended[n].id
  <2>1. CASE records = {}
    <3>1. n = 0
      BY <1>3, <2>1, PublishedRecords
    <3>. QED BY <1>2, <2>1, <3>1 DEF Appends, Appendable
  <2>2. CASE records # {}
    BY <1>2, <1>3, <2>2, LatestIsTip, PublishedRecords DEF Appends, Appendable
  <2>. QED BY <2>1, <2>2
<1>10. \A i \in 1 .. n + 1 :
          appended'[i].supersedes = IF i = 1 THEN None ELSE appended'[i - 1].id
  <2>1. ASSUME NEW i \in 1 .. n
        PROVE  appended'[i].supersedes = IF i = 1 THEN None ELSE appended'[i - 1].id
    <3>1. appended[i].supersedes = IF i = 1 THEN None ELSE appended[i - 1].id
      BY DEF ChainInv, Linear
    <3>2. i # 1 => i - 1 \in 1 .. n
      BY <1>3
    <3>. QED BY <1>4, <3>1, <3>2
  <2>2. appended'[n + 1].supersedes = IF n + 1 = 1 THEN None ELSE appended'[(n + 1) - 1].id
    BY <1>3, <1>4, <1>9
  <2>. QED BY <1>5, <2>1, <2>2
<1>. QED BY <1>2, <1>4, <1>6, <1>8, <1>10 DEF Linear

-----------------------------------------------------------------------------
(* The invariant                                                           *)

\* what a step leaves alone when it publishes nothing
LEMMA UnpublishedKeepsLinear ==
    ASSUME ChainInv, UNCHANGED <<records, appended>>
    PROVE  Linear'
  BY DEF ChainInv, Linear

\* A call that ends leaves its caller typed.
LEMMA ReturnTyped ==
    ASSUME ChainInv, NEW c \in Callers, Return(c)
    PROVE  /\ pc' \in [Callers -> {"idle", "evidence", "append"}]
           /\ call' \in [Callers -> Call]
           /\ evidence' \in [Callers -> Results \cup {None}]
           /\ \A d \in Callers : pc'[d] # "idle" => call'[d].key # None
           /\ \A d \in Callers : pc'[d] = "append" => evidence'[d] # None
<1>1. NoCall \in Call
  BY DEF NoCall, Call
<1>2. \A d \in Callers : d # c => pc'[d] = pc[d] /\ call'[d] = call[d]
                                /\ evidence'[d] = evidence[d]
  BY DEF Return, ChainInv, Typed, TypeOK
<1>3. pc'[c] = "idle"
  BY DEF Return, ChainInv, Typed, TypeOK
<1>4. \A d \in Callers : pc'[d] # "idle" => call'[d].key # None
  BY <1>2, <1>3 DEF ChainInv, Typed, TypeOK
<1>5. \A d \in Callers : pc'[d] = "append" => evidence'[d] # None
  BY <1>2, <1>3 DEF ChainInv, Typed, TypeOK
<1>. QED BY <1>1, <1>4, <1>5 DEF Return, ChainInv, Typed, TypeOK

\* A call that begins changes no file.
LEMMA BeginKeepsInv ==
    ASSUME ChainInv, NEW c \in Callers, NEW key \in Keys, NEW corrects \in Keys \cup {None},
           Begin(c, key, corrects)
    PROVE  ChainInv'
<1>1. [key |-> key, corrects |-> corrects] \in Call /\ key # None
  BY OutcomeConstants DEF Call
<1>2. \A d \in Callers : d # c => pc'[d] = pc[d] /\ call'[d] = call[d]
  BY DEF Begin, ChainInv, Typed, TypeOK
<1>3. pc'[c] = "evidence" /\ call'[c].key = key
  BY DEF Begin, ChainInv, Typed, TypeOK
<1>4. \A d \in Callers : pc'[d] # "idle" => call'[d].key # None
  BY <1>1, <1>2, <1>3 DEF ChainInv, Typed, TypeOK
<1>5. \A d \in Callers : pc'[d] = "append" => evidence'[d] # None
  BY <1>2, <1>3 DEF Begin, ChainInv, Typed, TypeOK
<1>6. pc' \in [Callers -> {"idle", "evidence", "append"}] /\ call' \in [Callers -> Call]
  BY <1>1 DEF Begin, ChainInv, Typed, TypeOK
<1>7. Linear'
  BY UnpublishedKeepsLinear DEF Begin
<1>. QED BY <1>4, <1>5, <1>6, <1>7 DEF Begin, ChainInv, Typed, TypeOK

\* Without files there is nothing to break.
LEMMA InvInit == Init => ChainInv
  BY OutcomeConstants DEF Init, ChainInv, Typed, TypeOK, Linear, NoCall, Call

\* Every step keeps the chain; only Publish and Crash append to it.
LEMMA InvNext == ChainInv /\ [Next]_vars => ChainInv'
<1>. SUFFICES ASSUME ChainInv, [Next]_vars PROVE ChainInv'
  OBVIOUS
<1>1. CASE SettleFirst
  BY <1>1, BeginKeepsInv, OutcomeConstants DEF SettleFirst, Callers
<1>2. ASSUME NEW c \in Operators, Settle(c) PROVE ChainInv'
  BY <1>2, BeginKeepsInv DEF Settle, Callers
<1>3. ASSUME NEW c \in Callers, ReadEvidence(c) PROVE ChainInv'
  <2>1. row \in Results /\ row # None
    BY <1>3, OutcomeConstants DEF ReadEvidence, ChainInv, Typed, TypeOK
  <2>2. \A d \in Callers : d # c => pc'[d] = pc[d] /\ evidence'[d] = evidence[d]
    BY <1>3 DEF ReadEvidence, ChainInv, Typed, TypeOK
  <2>3. evidence'[c] = row /\ pc[c] = "evidence"
    BY <1>3 DEF ReadEvidence, ChainInv, Typed, TypeOK
  <2>4. \A d \in Callers : pc'[d] # "idle" => call'[d].key # None
    BY <1>3, <2>2, <2>3 DEF ReadEvidence, ChainInv, Typed, TypeOK
  <2>5. \A d \in Callers : pc'[d] = "append" => evidence'[d] # None
    BY <1>3, <2>1, <2>2, <2>3 DEF ReadEvidence, ChainInv, Typed, TypeOK
  <2>6. Linear'
    BY <1>3, UnpublishedKeepsLinear DEF ReadEvidence
  <2>7. /\ pc' \in [Callers -> {"idle", "evidence", "append"}]
        /\ evidence' \in [Callers -> Results \cup {None}]
    BY <1>3, <2>1 DEF ReadEvidence, ChainInv, Typed, TypeOK
  <2>. QED BY <1>3, <2>4, <2>5, <2>6, <2>7 DEF ReadEvidence, ChainInv, Typed, TypeOK
<1>4. ASSUME NEW c \in Callers, Abstain(c) \/ Reject(c) PROVE ChainInv'
  BY <1>4, UnpublishedKeepsLinear, ReturnTyped DEF Abstain, Reject, ChainInv, Typed, TypeOK
<1>5. ASSUME NEW c \in Callers, Replay(c) PROVE ChainInv'
  <2>1. /\ Return(c) /\ UNCHANGED <<row, records, appended>>
    BY <1>5 DEF Replay
  <2>2. call[c] \in Call /\ evidence[c] \in Results
    BY <1>5 DEF Replay, ChainInv, Typed, TypeOK
  <2>3. PICK r \in records : answers' = answers \cup
               {[call |-> call[c], evidence |-> evidence[c], record |-> r]}
    BY <1>5 DEF Replay, Existing
  <2>4. r \in Record
    BY DEF ChainInv, Typed, TypeOK
  <2>5. answers' \subseteq [call: Call, evidence: Results, record: Record]
    BY <2>2, <2>3, <2>4 DEF ChainInv, Typed
  <2>6. Linear'
    BY <2>1, UnpublishedKeepsLinear
  <2>. QED BY <2>1, <2>5, <2>6, ReturnTyped DEF ChainInv, Typed, TypeOK
<1>6. ASSUME NEW c \in Callers, Publish(c) PROVE ChainInv'
  <2>1. Return(c) /\ Appends(c) /\ UNCHANGED row
    BY <1>6 DEF Publish, Appends
  <2>2. call[c] \in Call /\ evidence[c] \in Results
    BY <1>6 DEF Publish, ChainInv, Typed, TypeOK
  <2>3. Linear' /\ NewRecord(c) \in Record /\ appended' \in Seq(Record)
    BY <2>1, AppendKeepsLinear
  <2>4. answers' \subseteq [call: Call, evidence: Results, record: Record]
    BY <1>6, <2>2, <2>3 DEF Publish, ChainInv, Typed
  <2>5. records' \subseteq Record
    BY <2>1, <2>3 DEF Appends, ChainInv, Typed, TypeOK
  <2>. QED BY <2>1, <2>3, <2>4, <2>5, ReturnTyped DEF ChainInv, Typed, TypeOK
<1>7. ASSUME NEW c \in Callers, Crash(c) PROVE ChainInv'
  <2>1. Return(c) /\ UNCHANGED <<row, answers>>
    BY <1>7 DEF Crash
  <2>2. CASE UNCHANGED <<records, appended>>
    <3>1. Linear'
      BY <2>2, UnpublishedKeepsLinear
    <3>. QED BY <2>1, <2>2, <3>1, ReturnTyped DEF ChainInv, Typed, TypeOK
  <2>3. CASE Appends(c)
    BY <2>1, <2>3, AppendKeepsLinear, ReturnTyped DEF Appends, ChainInv, Typed, TypeOK
  <2>. QED BY <1>7, <2>2, <2>3 DEF Crash, Appends
<1>8. CASE Refresh
  BY <1>8, UnpublishedKeepsLinear DEF Refresh, ChainInv, Typed, TypeOK
<1>9. CASE UNCHANGED vars
  BY <1>9, UnpublishedKeepsLinear DEF vars, ChainInv, Typed, TypeOK
<1>. QED BY <1>1, <1>2, <1>3, <1>4, <1>5, <1>6, <1>7, <1>8, <1>9 DEF Next

\* Everything the calls leave behind is typed, and the files are one chain in the
\* order of publication, whatever overlaps, crashes or is refreshed.
THEOREM ChainInvariant == Spec => []ChainInv
  BY InvInit, InvNext, PTL DEF Spec

\* The tip a reader computes from the files is the outcome published last.
THEOREM TipCorrect == Spec => []TipIsLatest
<1>1. ChainInv => TipIsLatest
  BY LatestIsTip, PublishedRecords DEF TipIsLatest
<1>. QED BY <1>1, ChainInvariant, PTL

\* The callers, calls and files hold what _record_outcome writes.
THEOREM TypesCorrect == Spec => []TypeOK
<1>1. ChainInv => TypeOK
  BY DEF ChainInv, Typed
<1>. QED BY <1>1, ChainInvariant, PTL

-----------------------------------------------------------------------------
(* The walk of _validated_chain                                             *)

\* A set of naturals has a least member: what stands for an induction over the walk.
LEMMA LeastMember ==
    ASSUME NEW T \in SUBSET Nat, T # {}
    PROVE  \E x \in T : \A y \in T : x <= y
<1> DEFINE Less == {p \in Nat \X Nat : p[1] < p[2]}
<1>1. IsWellFoundedOn(Less, Nat)
  BY NatLessThanWellFounded, Zenon DEF OpToRel
<1>2. PICK x \in T : \A y \in T : <<y, x>> \notin Less
  BY <1>1, WFMin
<1>3. \A y \in T : <<y, x>> \in Less <=> y < x
  OBVIOUS
<1>4. \A y \in T : ~(y < x) /\ x \in Nat /\ y \in Nat
  BY <1>2, <1>3
<1>. QED BY <1>4

\* The outcomes without a predecessor are the first one published.
LEMMA RootIsFirst ==
    ASSUME ChainInv
    PROVE  /\ Roots = {appended[i] : i \in {i \in 1 .. Len(appended) : i <= 0 + 1}}
           /\ records # {} => Roots = {appended[1]}
<1> DEFINE n == Len(appended)
<1>1. n \in Nat /\ (records # {} <=> n >= 1)
  BY PublishedRecords
<1>2. \A i \in 1 .. n : appended[i] \in records /\ appended[i].id # None
  BY PublishedRecords, OutcomeConstants DEF Record
<1>3. \A i \in 1 .. n : appended[i].supersedes = None <=> i = 1
  <2>1. SUFFICES ASSUME NEW i \in 1 .. n PROVE appended[i].supersedes = None <=> i = 1
    OBVIOUS
  <2>2. appended[i].supersedes = IF i = 1 THEN None ELSE appended[i - 1].id
    BY DEF ChainInv, Linear
  <2>3. i # 1 => i - 1 \in 1 .. n
    BY <1>1
  <2>. QED BY <1>2, <2>2, <2>3
<1>4. Roots = {appended[i] : i \in {i \in 1 .. n : i = 1}}
  BY <1>2, <1>3, PublishedRecords DEF Roots
<1>5. {i \in 1 .. n : i = 1} = {i \in 1 .. n : i <= 0 + 1}
  BY <1>1
<1>6. records # {} => {i \in 1 .. n : i = 1} = {1}
  BY <1>1
<1>. QED BY <1>4, <1>5, <1>6

\* The outcomes superseding one are the one published after it.
LEMMA ChildIsNext ==
    ASSUME ChainInv, NEW i \in 1 .. Len(appended), NEW j \in 1 .. Len(appended)
    PROVE  appended[j].supersedes = appended[i].id <=> j = i + 1
<1> DEFINE n == Len(appended)
<1>1. n \in Nat /\ appended[i].id # None
  BY PublishedRecords, OutcomeConstants DEF Record
<1>2. appended[j].supersedes = IF j = 1 THEN None ELSE appended[j - 1].id
  BY DEF ChainInv, Linear
<1>3. CASE j = 1
  BY <1>1, <1>2, <1>3
<1>4. CASE j # 1
  BY <1>1, <1>2, <1>4 DEF ChainInv, Linear
<1>. QED BY <1>3, <1>4

\* Beyond the first k outcomes, one revision more meets the one published after them.
LEMMA NextIsMet ==
    ASSUME ChainInv, NEW k \in Nat, k # 0
    PROVE  LET First(m) == {appended[i] : i \in {i \in 1 .. Len(appended) : i <= m + 1}}
           IN  First(k) = First(k - 1) \cup {r \in records : \E p \in First(k - 1) : r.supersedes = p.id}
<1> DEFINE n == Len(appended)
           First(m) == {appended[i] : i \in {i \in 1 .. n : i <= m + 1}}
           met == {r \in records : \E p \in First(k - 1) : r.supersedes = p.id}
<1>1. n \in Nat
  BY PublishedRecords
<1>2. \A i \in 1 .. n : i <= (k - 1) + 1 <=> i <= k
  OBVIOUS
<1>3. First(k - 1) = {appended[i] : i \in {i \in 1 .. n : i <= k}}
  BY <1>2
<1>4. \A j \in 1 .. n : appended[j] \in met <=> \E i \in 1 .. n : i <= k /\ j = i + 1
  BY <1>3, PublishedRecords, ChildIsNext
<1>5. \A j \in 1 .. n : j <= k + 1 <=> j <= k \/ \E i \in 1 .. n : i <= k /\ j = i + 1
  BY <1>1
<1>6. First(k) \subseteq First(k - 1) \cup met
  BY <1>3, <1>4, <1>5
<1>7. met \subseteq First(k)
  BY <1>4, <1>5, PublishedRecords
<1>8. First(k - 1) \subseteq First(k)
  BY <1>3, <1>5
<1>. QED BY <1>6, <1>7, <1>8

\* what is met at revision n, given what was met before
Revision(walk, n) ==
    IF n = 0 THEN Roots
    ELSE walk[n - 1] \cup {r \in records : \E p \in walk[n - 1] : r.supersedes = p.id}

\* The walk is what its recursion says: it has one solution, of which the outcomes
\* published first are the value at each revision.
LEMMA WalkMeets ==
    ASSUME ChainInv, NEW C \in Nat,
           NEW g, g = [n \in 0 .. C |-> Revision(g, n)]
    PROVE  \A n \in 0 .. C : g[n] = {appended[i] : i \in {i \in 1 .. Len(appended) : i <= n + 1}}
<1> DEFINE First(n) == {appended[i] : i \in {i \in 1 .. Len(appended) : i <= n + 1}}
           T == {n \in 0 .. C : g[n] # First(n)}
<1>1. SUFFICES ASSUME T # {} PROVE FALSE
  OBVIOUS
<1>2. PICK n \in T : \A m \in T : n <= m
  BY <1>1, LeastMember
<1>3. n \in 0 .. C /\ g[n] = Revision(g, n) /\ g[n] # First(n)
  BY <1>2
<1>4. CASE n = 0
  BY <1>3, <1>4, RootIsFirst DEF Revision
<1>5. CASE n # 0
  <2>1. n - 1 \in 0 .. C /\ n - 1 \notin T
    BY <1>2, <1>3, <1>5
  <2>2. g[n - 1] = First(n - 1)
    BY <2>1
  <2>3. First(n) = First(n - 1) \cup {r \in records : \E p \in First(n - 1) : r.supersedes = p.id}
    <3>1. n \in Nat /\ n # 0
      BY <1>3, <1>5
    <3>. QED BY <3>1, NextIsMet
  <2>. QED BY <1>3, <1>5, <2>2, <2>3 DEF Revision
<1>. QED BY <1>3, <1>4, <1>5

\* As many files as outcomes were published.
LEMMA FilesCounted ==
    ASSUME ChainInv
    PROVE  Cardinality(records) = Len(appended)
<1> DEFINE n == Len(appended)
           f == [i \in 1 .. n |-> appended[i]]
<1>1. n \in Nat /\ \A i \in 1 .. n : appended[i] \in records
  BY PublishedRecords
<1>2. f \in [1 .. n -> records] /\ \A r \in records : \E i \in 1 .. n : f[i] = r
  BY <1>1, PublishedRecords
<1>3. \A i, j \in 1 .. n : f[i] = f[j] => i = j
  BY DEF ChainInv, Linear
<1>4. ExistsBijection(1 .. n, records)
  BY <1>2, <1>3 DEF ExistsBijection, Bijection, Injection, Surjection, IsInjective
<1>. QED BY <1>1, <1>4, FS_Interval, FS_Bijection

\* The walk reaches every file.
LEMMA WalkReachesAll ==
    ASSUME ChainInv
    PROVE  Walk = records
<1> DEFINE n == Len(appended)
           C == Cardinality(records)
           First(m) == {appended[i] : i \in {i \in 1 .. n : i <= m + 1}}
           g == [m \in 0 .. C |-> First(m)]
           walk == CHOOSE w : w = [m \in 0 .. C |-> Revision(w, m)]
<1>1. C = n /\ n \in Nat
  BY FilesCounted, PublishedRecords
<1>2. Walk = walk[C]
  BY Zenon DEF Walk, Revision
<1>3. g = [m \in 0 .. C |-> Revision(g, m)]
  <2>1. SUFFICES ASSUME NEW m \in 0 .. C PROVE First(m) = Revision(g, m)
    OBVIOUS
  <2>2. CASE m = 0
    BY <2>2, RootIsFirst DEF Revision
  <2>3. CASE m # 0
    <3>1. m - 1 \in 0 .. C /\ m \in Nat
      BY <1>1, <2>3
    <3>2. g[m - 1] = First(m - 1)
      BY <3>1
    <3>3. First(m) = First(m - 1) \cup {r \in records : \E p \in First(m - 1) : r.supersedes = p.id}
      BY <2>3, <3>1, NextIsMet
    <3>. QED BY <2>3, <3>2, <3>3 DEF Revision
  <2>. QED BY <2>2, <2>3
<1>4. walk = [m \in 0 .. C |-> Revision(walk, m)]
  BY <1>3
<1>. HIDE DEF walk, g
<1>5. walk[C] = First(C)
  BY <1>1, <1>4, WalkMeets
<1>6. {i \in 1 .. n : i <= C + 1} = 1 .. n
  BY <1>1
<1>7. First(C) = records
  BY <1>6, PublishedRecords
<1>. QED BY <1>2, <1>5, <1>7

\* Whatever the calls in flight, _validated_chain accepts the files: one root, no fork,
\* and every file reachable from the root.
THEOREM ChainValid == Spec => []ChainStaysValid
<1>1. ChainInv => ChainStaysValid
  <2>1. SUFFICES ASSUME ChainInv, records # {} PROVE ChainAccepted
    BY DEF ChainStaysValid, ChainAccepted
  <2>2. Cardinality(Roots) = 1
    BY <2>1, RootIsFirst, FS_Singleton
  <2>3. ASSUME NEW r \in records PROVE Cardinality(Children(r.id)) <= 1
    <3>1. PICK i \in 1 .. Len(appended) : r = appended[i]
      BY <2>1, PublishedRecords
    <3>2. \A q \in Children(r.id) : q = appended[i + 1]
      BY <2>1, <3>1, PublishedRecords, ChildIsNext DEF Children
    <3>3. Children(r.id) = {} \/ Children(r.id) = {appended[i + 1]}
      BY <3>2
    <3>4. Cardinality(Children(r.id)) = 0 \/ Cardinality(Children(r.id)) = 1
      BY <3>3, FS_EmptySet, FS_Singleton
    <3>. QED BY <3>4
  <2>4. Walk = records
    BY <2>1, WalkReachesAll
  <2>. QED BY <2>2, <2>3, <2>4 DEF ChainAccepted
<1>. QED BY <1>1, ChainInvariant, PTL

-----------------------------------------------------------------------------
(* Steps and answers                                                       *)

\* a step publishes nothing, or one record
LEMMA StepPublishes ==
    ASSUME ChainInv, [Next]_vars
    PROVE  \/ UNCHANGED <<records, appended>>
           \/ \E c \in Callers : Appends(c)
  BY DEF Next, SettleFirst, Settle, Begin, ReadEvidence, Abstain, Replay, Publish, Reject,
         Crash, Refresh, vars, Appends

\* The evidence is immutable: no step removes or rewrites a published outcome, and
\* one step publishes at most one.
THEOREM Immutable == Spec => AppendOnly
<1>1. ASSUME ChainInv, [Next]_vars
      PROVE  [records \subseteq records' /\ Cardinality(records' \ records) <= 1]_vars
  <2>1. CASE UNCHANGED <<records, appended>>
    BY <2>1, FS_EmptySet
  <2>2. ASSUME NEW c \in Callers, Appends(c)
        PROVE  records \subseteq records' /\ Cardinality(records' \ records) <= 1
    <3>1. NewRecord(c) \notin records
      BY <2>2 DEF Appends, Existing, NewRecord
    <3>2. records' \ records = {NewRecord(c)}
      BY <2>2, <3>1 DEF Appends
    <3>3. Cardinality({NewRecord(c)}) = 1
      BY FS_Singleton
    <3>. QED BY SMTT(30), <2>2, <3>2, <3>3 DEF Appends
  <2>. QED BY <1>1, <2>1, <2>2, StepPublishes
<1>. QED BY <1>1, ChainInvariant, PTL DEF Spec, AppendOnly

\* what a call was answered
Answered ==
    \A a \in answers : /\ a.record \in records
                       /\ a.record.id = a.call.key
                       /\ a.record.evidence = a.evidence
                       /\ a.record.supersedes = a.call.corrects

\* Every answer given stays an answer about a record that is on file.
LEMMA AnsweredNext == ChainInv /\ Answered /\ [Next]_vars => Answered'
<1>. SUFFICES ASSUME ChainInv, Answered, [Next]_vars PROVE Answered'
  OBVIOUS
<1>1. records \subseteq records'
  BY StepPublishes DEF Appends
<1>2. CASE UNCHANGED answers
  BY <1>1, <1>2 DEF Answered
<1>3. ASSUME NEW c \in Callers, Publish(c) PROVE Answered'
  BY <1>1, <1>3 DEF Publish, Answered, NewRecord
<1>4. ASSUME NEW c \in Callers, Replay(c) PROVE Answered'
  BY <1>1, <1>4 DEF Replay, Answered, Existing, SameCall
<1>. QED BY <1>2, <1>3, <1>4 DEF Next, SettleFirst, Settle, Begin, ReadEvidence, Abstain,
             Reject, Crash, Refresh, vars

\* An idempotency key stands for one outcome, the same for every call answered
\* under it, still on file and saying what the caller had read.
THEOREM KeysIdempotent == Spec => []KeysAreIdempotent
<1>1. Init => Answered
  BY DEF Init, Answered
<1>2. Spec => []Answered
  BY <1>1, AnsweredNext, ChainInvariant, PTL DEF Spec
<1>3. ChainInv /\ Answered => KeysAreIdempotent
  <2>. SUFFICES ASSUME ChainInv, Answered PROVE KeysAreIdempotent
    OBVIOUS
  <2>1. ASSUME NEW a \in answers, NEW b \in answers, a.call.key = b.call.key
        PROVE  a.record = b.record
    <3>1. /\ a.record \in records /\ b.record \in records
          /\ a.record.id = b.record.id
      BY <2>1 DEF Answered
    <3>2. PICK i \in 1 .. Len(appended) : a.record = appended[i]
      BY <3>1, PublishedRecords
    <3>3. PICK j \in 1 .. Len(appended) : b.record = appended[j]
      BY <3>1, PublishedRecords
    <3>. QED BY <3>1, <3>2, <3>3 DEF ChainInv, Linear
  <2>. QED BY <2>1 DEF KeysAreIdempotent, Answered
<1>. QED BY <1>2, <1>3, ChainInvariant, PTL

-----------------------------------------------------------------------------
(* The refinement                                                          *)

\* An append to the publications is an append to the abstract history.
LEMMA EntriesGrow ==
    ASSUME ChainInv, NEW c \in Callers, Appends(c)
    PROVE  LET e == [id |-> call[c].key, evidence |-> evidence[c]] IN
           /\ e \in History!Entry
           /\ Entries' = Append(Entries, e)
           /\ Len(Entries) = Len(appended) /\ Len(appended) \in Nat
<1> DEFINE n == Len(appended)  e == [id |-> call[c].key, evidence |-> evidence[c]]
<1>1. e \in History!Entry
  BY DEF Appends, ChainInv, Typed, TypeOK, Call, History!Entry
<1>2. appended \in Seq(Record) /\ n \in Nat /\ NewRecord(c) \in Record
  BY AppendKeepsLinear DEF ChainInv, Typed, TypeOK
<1>3. /\ Len(appended') = n + 1
      /\ \A i \in 1 .. n : appended'[i] = appended[i]
      /\ appended'[n + 1].id = e.id /\ appended'[n + 1].evidence = e.evidence
  BY <1>2 DEF Appends, NewRecord
<1>4. Entries \in Seq(History!Entry) /\ Len(Entries) = n
  <2>1. \A i \in 1 .. n : [id |-> appended[i].id, evidence |-> appended[i].evidence]
                          \in History!Entry
    <3>1. ASSUME NEW i \in 1 .. n PROVE appended[i] \in Record
      BY <1>2
    <3>. QED BY <3>1 DEF Record, History!Entry
  <2>2. Entries \in [1 .. n -> History!Entry]
    BY <2>1 DEF Entries
  <2>3. Entries \in Seq(History!Entry)
    BY <1>2, <2>2
  <2>4. DOMAIN Entries = 1 .. n
    BY <2>2
  <2>. QED BY <1>2, <2>3, <2>4
<1>5. Entries' = [i \in 1 .. n + 1 |-> [id |-> appended'[i].id,
                                        evidence |-> appended'[i].evidence]]
  BY <1>3 DEF Entries
<1>6. Append(Entries, e) = [i \in 1 .. n + 1 |-> IF i = n + 1 THEN e ELSE Entries[i]]
  BY <1>1, <1>2, <1>4
<1>7. \A i \in 1 .. n + 1 : [id |-> appended'[i].id, evidence |-> appended'[i].evidence]
                               = IF i = n + 1 THEN e ELSE Entries[i]
  BY <1>2, <1>3 DEF Entries
<1>8. Entries' = Append(Entries, e)
  BY <1>5, <1>6, <1>7
<1>. QED BY <1>1, <1>2, <1>4, <1>8

\* Every step is a step of OutcomeHistory or leaves the history alone.
LEMMA StepImplements == ChainInv /\ [Next]_vars => [History!Next]_Entries
<1>. SUFFICES ASSUME ChainInv, [Next]_vars PROVE [History!Next]_Entries
  OBVIOUS
<1>1. CASE UNCHANGED <<records, appended>>
  BY <1>1 DEF Entries
<1>2. ASSUME NEW c \in Callers, Appends(c) PROVE History!Next
  <2> DEFINE n == Len(appended)  e == [id |-> call[c].key, evidence |-> evidence[c]]
  <2>1. /\ e \in History!Entry /\ Entries' = Append(Entries, e)
        /\ Len(Entries) = n /\ n \in Nat
    BY <1>2, EntriesGrow
  <2>2. CASE records = {}
    <3>1. Entries = <<>>
      BY <2>1, <2>2, PublishedRecords DEF Entries
    <3>2. History!Settle(e)
      BY <2>1, <3>1 DEF History!Settle
    <3>. QED BY <2>1, <3>2 DEF History!Next
  <2>3. CASE records # {}
    <3>1. n \in 1 .. n /\ Tip = appended[n]
      BY <2>3, LatestIsTip, PublishedRecords
    <3>2. e.evidence # Entries[Len(Entries)].evidence
      BY <1>2, <2>1, <2>3, <3>1 DEF Appends, Appendable, Entries
    <3>3. e.id \notin History!Used
      BY <1>2, <2>1, PublishedRecords DEF Entries, History!Used, Appends, Existing
    <3>4. Entries # <<>>
      BY <2>1, <3>1
    <3>5. History!Correct(e)
      BY <2>1, <3>2, <3>3, <3>4 DEF History!Correct
    <3>. QED BY <2>1, <3>5 DEF History!Next
  <2>. QED BY <2>2, <2>3
<1>. QED BY <1>1, <1>2, StepPublishes

\* The chain implements OutcomeHistory: one settlement, then corrections, each of
\* which differs from what it corrects.
THEOREM Refinement == Spec => ImplementsHistory
<1>1. Init => History!Init
  BY DEF Init, Entries, History!Init
<1>. QED BY <1>1, StepImplements, ChainInvariant, PTL
         DEF Spec, ImplementsHistory, History!Spec

-----------------------------------------------------------------------------
(* The runner and the store beside the chain.  A theorem speaks of one of     *)
(* the three specifications; names they have in common are declared once.     *)

CONSTANTS
    Runs, Past, Values, Fixtures, Kickoffs, Early, Late, Delay, Horizon,
    Clients, Requests, Readers, Evidence, MaxBuilds, MaxReads

VARIABLES
    now, kickoff, finished, base, supplement, attempts, predictions,
    receipts, holder, run, fetches, saved, granted, lockGrant, leftover,
    built, builds, seen, reads, refused

F == INSTANCE ForecastRunner
A == INSTANCE AnalysisStore

\* They count their sets as the library does.
LEMMA CountsAgree ==
    \A S : /\ F!IsFiniteSet(S) <=> IsFiniteSet(S)
           /\ F!Cardinality(S) = Cardinality(S)
           /\ A!IsFiniteSet(S) <=> IsFiniteSet(S)
           /\ A!Cardinality(S) = Cardinality(S)
BY Zenon DEF F!IsFiniteSet, A!IsFiniteSet, IsFiniteSet, F!Cardinality, A!Cardinality, Cardinality

-----------------------------------------------------------------------------
(* The forecast runner.                                                    *)

\* Where a run stands while it holds the lock.
Places == {"idle", "load", "claim", "fetch", "retain", "prepare", "publish"}
Schedule == SUBSET (Fixtures \X Kickoffs)
Loaded == [fixtures : Schedule, required : SUBSET Past]
Working == [fixtures : Schedule, required : SUBSET Past,
            base : F!KnownResults, answer : F!KnownResults]
Publishing == [todo : SUBSET F!Prediction, covers : (SUBSET F!Prediction) \ {{}}]

\* Every variable of the runner keeps its type; no attempt is of the future.
StoreTyped ==
    /\ now \in 0 .. Horizon /\ kickoff \in [Fixtures -> Kickoffs] /\ finished \subseteq Past
    /\ base \in F!KnownResults /\ supplement \in F!KnownResults
    /\ attempts \subseteq 0 .. now
    /\ predictions \subseteq F!Prediction
    /\ receipts \subseteq (SUBSET F!Prediction) \ {{}}
    /\ fetches \in Nat
RunsTyped ==
    /\ holder \in Runs \cup {None}
    /\ pc \in [Runs -> Places]
    /\ run \in [Runs -> {None} \cup Loaded \cup Working \cup Publishing]
    /\ \A r \in Runs : /\ pc[r] # "idle" => holder = r
                       /\ pc[r] = "load" => run[r] \in Loaded
                       /\ pc[r] \in {"claim", "fetch", "retain", "prepare"} => run[r] \in Working
                       /\ pc[r] = "publish" => run[r] \in Publishing

\* What a forecast on file, or one about to be, promises.
Reproducible(p) ==
    /\ p.at < p.kickoff
    /\ p.required \subseteq F!Known(p.base) \cup F!Known(p.used)
    /\ \A m \in F!Known(p.used) : supplement[m] = p.used[m]
SameSubject(p, q) == p.fixture = q.fixture /\ p.kickoff = q.kickoff /\ p.model = q.model

\* The results a run prepares from are on file.
Prepares ==
    \A r \in Runs : pc[r] = "prepare" =>
        run[r].required \subseteq F!Known(run[r].base) \cup F!Known(supplement)

\* What a run has still to publish is sound, its own, and not on file under another content;
\* the rest of what its receipt will cover is on file.
Publishes ==
    \A r \in Runs : pc[r] = "publish" =>
        /\ run[r].covers \subseteq run[r].todo \cup predictions
        /\ \A p \in run[r].todo : Reproducible(p)
        /\ \A p \in run[r].todo : \A q \in run[r].todo \cup predictions : SameSubject(p, q) => p = q

\* A request about to be sent has a claim of its own.
Claimed ==
    /\ fetches <= F!Cardinality(attempts)
    /\ \A r \in Runs : pc[r] = "fetch" => fetches < F!Cardinality(attempts)
    /\ \A a, b \in attempts : a < b => a + Delay <= b

\* The inductive invariant of the runner.
FInv ==
    /\ StoreTyped /\ RunsTyped /\ Prepares /\ Publishes /\ Claimed
    /\ F!OneForecast /\ F!ReceiptsAreTrue /\ \A p \in predictions : Reproducible(p)

\* The one run that is past its start is the one that holds the lock.
LEMMA OthersIdle ==
    ASSUME RunsTyped, NEW r \in Runs, pc[r] # "idle", NEW s \in Runs, s # r
    PROVE  pc[s] = "idle"
BY DEF RunsTyped

\* The claims are finitely many.
LEMMA AttemptsFinite ==
    ASSUME F!RunnerConstants, StoreTyped
    PROVE  F!IsFiniteSet(attempts) /\ F!Cardinality(attempts) \in Nat
<1>1. now \in Int /\ attempts \subseteq 0 .. now
  BY DEF F!RunnerConstants, StoreTyped
<1>2. F!IsFiniteSet(0 .. now)
  BY <1>1, FS_Interval, CountsAgree
<1>3. F!IsFiniteSet(attempts)
  BY <1>1, <1>2, FS_Subset, CountsAgree
<1> QED
  BY <1>3, FS_CardinalityType, CountsAgree

\* The world moves: nothing a run relies on is withdrawn.
LEMMA WorldPreserves ==
    ASSUME F!RunnerConstants, FInv, F!Tick \/ F!Reschedule \/ F!FinishMatch \/ F!Refresh
    PROVE  FInv'
<1>1. UNCHANGED <<F!evidence, holder, pc, run, fetches>>
  BY DEF F!Tick, F!Reschedule, F!FinishMatch, F!Refresh
<1>2. now' \in 0 .. Horizon /\ now <= now' /\ attempts \subseteq 0 .. now'
  BY DEF FInv, StoreTyped, F!RunnerConstants, F!Tick, F!Reschedule, F!FinishMatch, F!Refresh
<1>3. kickoff' \in [Fixtures -> Kickoffs]
  BY DEF FInv, StoreTyped, F!Tick, F!Reschedule, F!FinishMatch, F!Refresh
<1>4. finished' \subseteq Past
  BY DEF FInv, StoreTyped, F!Tick, F!Reschedule, F!FinishMatch, F!Refresh
<1>5. base' \in F!KnownResults
  BY DEF FInv, StoreTyped, F!Tick, F!Reschedule, F!FinishMatch, F!Refresh, F!KnownResults
<1>6. StoreTyped'
  BY <1>1, <1>2, <1>3, <1>4, <1>5 DEF FInv, StoreTyped, F!evidence
<1>7. RunsTyped' /\ Prepares' /\ Publishes' /\ Claimed'
  BY <1>1 DEF FInv, RunsTyped, Prepares, Publishes, Claimed, F!evidence, Reproducible, F!Known
<1>8. F!OneForecast' /\ F!ReceiptsAreTrue' /\ (\A p \in predictions : Reproducible(p))'
  BY <1>1 DEF FInv, F!OneForecast, F!ReceiptsAreTrue, F!evidence, Reproducible, F!Known
<1> QED
  BY <1>6, <1>7, <1>8 DEF FInv

\* A run ends: it leaves the lock, and its receipt, if any, covers forecasts on file.
LEMMA EndPreserves ==
    ASSUME F!RunnerConstants, FInv, NEW r \in Runs, NEW status, NEW covers, F!End(r, status, covers),
           status = "RECORDED" => covers \in (SUBSET F!Prediction) \ {{}} /\ covers \subseteq predictions,
           UNCHANGED <<F!world, supplement, attempts, predictions>>,
           fetches' = fetches \/ (pc[r] = "fetch" /\ fetches' = fetches + 1)
    PROVE  FInv'
<1>1. /\ pc' = [pc EXCEPT ![r] = "idle"] /\ run' = [run EXCEPT ![r] = None]
      /\ holder' = IF holder = r THEN None ELSE holder
  BY DEF F!End, F!Go
<1>2. receipts' = receipts \/ (receipts' = receipts \cup {covers} /\ status = "RECORDED")
  BY DEF F!End
<1>3. StoreTyped'
  BY <1>2 DEF FInv, StoreTyped, F!world
<1>4. RunsTyped'
  BY <1>1 DEF FInv, RunsTyped, Places
<1>5. Prepares'
  BY <1>1 DEF FInv, RunsTyped, Prepares
<1>6. Publishes'
  <2> SUFFICES ASSUME NEW s \in Runs, pc'[s] = "publish"
               PROVE /\ run'[s].covers \subseteq run'[s].todo \cup predictions'
                     /\ \A p \in run'[s].todo : Reproducible(p)'
                     /\ \A p \in run'[s].todo : \A q \in run'[s].todo \cup predictions' :
                           SameSubject(p, q) => p = q
    BY DEF Publishes, SameSubject
  <2>1. pc[s] = "publish" /\ run'[s] = run[s]
    BY <1>1 DEF FInv, RunsTyped
  <2>2. predictions' = predictions /\ supplement' = supplement
    OBVIOUS
  <2>3. \A p : Reproducible(p) => Reproducible(p)'
    BY <2>2 DEF Reproducible, F!Known
  <2> QED
    BY <2>1, <2>2, <2>3 DEF FInv, Publishes
<1>7. Claimed'
  BY <1>1, AttemptsFinite, OthersIdle DEF FInv, Claimed, StoreTyped, RunsTyped
<1>8. F!OneForecast' /\ (\A p \in predictions : Reproducible(p))'
  BY DEF FInv, F!OneForecast, Reproducible, F!Known
<1>9. F!ReceiptsAreTrue'
  BY <1>2 DEF FInv, F!ReceiptsAreTrue
<1> QED
  BY <1>3, <1>4, <1>5, <1>6, <1>7, <1>8, <1>9 DEF FInv

\* A run that stays under the lock and changes no evidence: where it goes next.
LEMMA GoesOn ==
    ASSUME F!RunnerConstants, FInv, NEW r \in Runs, holder' = r, pc[r] = "idle" => holder = None,
           NEW place \in Places \ {"idle"}, F!Go(r, place),
           UNCHANGED <<F!world, F!evidence>>,
           fetches' = fetches \/ (pc[r] = "fetch" /\ fetches' = fetches + 1),
           NEW record, run' = [run EXCEPT ![r] = record],
           place = "load" => record \in Loaded,
           place \in {"claim", "fetch", "retain", "prepare"} => record \in Working,
           place = "publish" => record \in Publishing,
           place # "fetch",
           place = "prepare" => record.required \subseteq F!Known(record.base) \cup F!Known(supplement),
           place = "publish" =>
              /\ record.covers \subseteq record.todo \cup predictions
              /\ \A p \in record.todo : Reproducible(p)
              /\ \A p \in record.todo : \A q \in record.todo \cup predictions :
                    SameSubject(p, q) => p = q
    PROVE  FInv'
<1>1. \A s \in Runs : s # r => pc'[s] = "idle"
  BY DEF FInv, RunsTyped, F!Go, F!RunnerConstants
<1>2. pc'[r] = place /\ run'[r] = record
  BY DEF FInv, RunsTyped, F!Go
<1>3. StoreTyped'
  BY DEF FInv, StoreTyped, F!world, F!evidence
<1>4. RunsTyped'
  BY <1>1, <1>2 DEF Places, FInv, RunsTyped, F!Go
<1>5. \A p : Reproducible(p) => Reproducible(p)'
  BY DEF Reproducible, F!Known, F!evidence
<1>6. Prepares'
  BY <1>1, <1>2 DEF Prepares, F!evidence, F!Known
<1>7. Publishes'
  BY <1>1, <1>2, <1>5 DEF Publishes, SameSubject, F!evidence
<1>8. Claimed'
  BY <1>1, <1>2, AttemptsFinite DEF FInv, StoreTyped, F!evidence, Claimed
<1>9. F!OneForecast' /\ F!ReceiptsAreTrue' /\ (\A p \in predictions : Reproducible(p))'
  BY <1>5 DEF FInv, F!OneForecast, F!ReceiptsAreTrue, F!evidence
<1> QED
  BY <1>3, <1>4, <1>6, <1>7, <1>8, <1>9 DEF FInv

\* A run starts with the eligible fixtures and what the calendar says is finished, or ends at once.
LEMMA StartPreserves ==
    ASSUME F!RunnerConstants, FInv, NEW r \in Runs, F!Start(r)
    PROVE  FInv'
<1>1. CASE \E status \in {"REJECTED", "NO_ELIGIBLE_FIXTURES"} : F!Ends(r, status)
  BY <1>1, EndPreserves DEF F!Start, F!Ends
<1>2. CASE /\ holder = None /\ F!Go(r, "load") /\ holder' = r
           /\ run' = [run EXCEPT ![r] = [fixtures |-> {<<x, kickoff[x]>> : x \in F!Eligible},
                                        required |-> finished]]
           /\ UNCHANGED F!evidence
  <2>1. [fixtures |-> {<<x, kickoff[x]>> : x \in F!Eligible}, required |-> finished] \in Loaded
    BY DEF Loaded, Schedule, F!Eligible, FInv, StoreTyped
  <2> QED
    BY <1>2, <2>1, GoesOn DEF F!Start, Places
<1> QED
  BY <1>1, <1>2 DEF F!Start, F!LockFree

\* The season files are read; a result stated twice that differs stops the run.
LEMMA LoadPreserves ==
    ASSUME F!RunnerConstants, FInv, NEW r \in Runs, F!Load(r)
    PROVE  FInv'
<1> DEFINE record == [fixtures |-> run[r].fixtures, required |-> run[r].required,
                      base |-> base, answer |-> [m \in Past |-> None]]
           place == IF run[r].required \subseteq F!Known(base) \cup F!Known(supplement)
                    THEN "prepare" ELSE "claim"
<1>1. CASE F!Ends(r, "REJECTED")
  BY <1>1, EndPreserves DEF F!Load, F!Ends
<1>2. CASE run' = [run EXCEPT ![r] = record] /\ F!Go(r, place) /\ UNCHANGED <<F!evidence, holder>>
  <2>1. run[r] \in Loaded /\ holder' = r /\ pc[r] # "idle"
    BY <1>2 DEF F!Load, FInv, RunsTyped
  <2>2. record \in Working
    BY <2>1 DEF Working, Loaded, FInv, StoreTyped, F!KnownResults
  <2>3. place \in {"prepare", "claim"}
    OBVIOUS
  <2>4. place = "prepare" => record.required \subseteq F!Known(record.base) \cup F!Known(supplement)
    OBVIOUS
  <2> HIDE DEF record, place
  <2> QED
    BY <1>2, <2>1, <2>2, <2>3, <2>4, GoesOn DEF F!Load, Places
<1>3. run[r] \in Loaded => [run EXCEPT ![r] = [fixtures |-> @.fixtures, required |-> @.required,
                                   base |-> base, answer |-> [m \in Past |-> None]]]
         = [run EXCEPT ![r] = record]
  OBVIOUS
<1> QED
  BY <1>1, <1>2, <1>3 DEF F!Load, FInv, RunsTyped

\* The claim is on file before the request leaves, and no earlier one is within the delay.
LEMMA ClaimPreserves ==
    ASSUME F!RunnerConstants, FInv, NEW r \in Runs, F!Claim(r)
    PROVE  FInv'
<1>1. CASE F!Ends(r, "BLOCKED")
  BY <1>1, EndPreserves DEF F!Claim, F!Ends
<1>2. CASE /\ ~F!Recent /\ attempts' = attempts \cup {now} /\ F!Go(r, "fetch")
           /\ UNCHANGED <<run, supplement, predictions, receipts, holder>>
  <2>1. pc[r] = "claim" /\ run[r] \in Working /\ UNCHANGED <<F!world, fetches>>
    BY DEF F!Claim, FInv, RunsTyped
  <2>2. now \in Nat /\ Delay \in Nat \ {0} /\ attempts \subseteq 0 .. now
    BY DEF FInv, StoreTyped, F!RunnerConstants
  <2>3. \A a \in attempts : a + Delay <= now
    BY <1>2, <2>2 DEF F!Recent
  <2>4. now \notin attempts
    BY <2>2, <2>3
  <2>5. attempts' \subseteq 0 .. now
    BY <1>2, <2>2
  <2>6. StoreTyped'
    BY <1>2, <2>1, <2>5 DEF FInv, StoreTyped, F!world
  <2>7. \A s \in Runs : pc'[s] = IF s = r THEN "fetch" ELSE "idle"
    BY <1>2, <2>1, OthersIdle DEF FInv, RunsTyped, F!Go
  <2>8. RunsTyped'
    BY <1>2, <2>1, <2>7 DEF FInv, RunsTyped, F!Go, Places
  <2>9. Prepares' /\ Publishes'
    BY <2>7 DEF Prepares, Publishes
  <2>10. F!Cardinality(attempts') = F!Cardinality(attempts) + 1 /\ F!Cardinality(attempts) \in Nat
    BY <1>2, <2>4, AttemptsFinite, FS_AddElement, CountsAgree DEF FInv
  <2>11. \A a, b \in attempts' : a < b => a + Delay <= b
    BY <1>2, <2>2, <2>3 DEF FInv, Claimed
  <2>12. fetches \in Nat /\ fetches' = fetches /\ fetches <= F!Cardinality(attempts)
    BY <2>1 DEF FInv, StoreTyped, Claimed
  <2>13. Claimed'
    BY <2>10, <2>11, <2>12 DEF Claimed
  <2>14. F!OneForecast' /\ F!ReceiptsAreTrue' /\ (\A p \in predictions : Reproducible(p))'
    BY <1>2 DEF FInv, F!OneForecast, F!ReceiptsAreTrue, Reproducible, F!Known
  <2> QED
    BY <2>6, <2>8, <2>9, <2>13, <2>14 DEF FInv
<1> QED
  BY <1>1, <1>2 DEF F!Claim

\* The provider answers, or does not; its answer is kept when it contradicts nothing.
LEMMA FetchPreserves ==
    ASSUME F!RunnerConstants, FInv, NEW r \in Runs, F!Fetch(r)
    PROVE  FInv'
<1>1. CASE \E status \in {"BLOCKED", "REJECTED"} : F!Ends(r, status)
  BY <1>1, EndPreserves DEF F!Fetch, F!Ends
<1>2. CASE \E answer \in F!KnownResults :
              /\ run' = [run EXCEPT ![r].answer = answer] /\ F!Go(r, "retain")
              /\ UNCHANGED <<F!evidence, holder>>
  <2>1. PICK answer \in F!KnownResults :
              /\ run' = [run EXCEPT ![r].answer = answer] /\ F!Go(r, "retain")
              /\ UNCHANGED <<F!evidence, holder>>
    BY <1>2
  <2> DEFINE record == [run[r] EXCEPT !.answer = answer]
  <2>2. run[r] \in Working /\ holder' = r /\ pc[r] = "fetch"
    BY <2>1 DEF F!Fetch, FInv, RunsTyped
  <2>3. record \in Working /\ run' = [run EXCEPT ![r] = record]
    BY <2>1, <2>2 DEF Working
  <2> HIDE DEF record
  <2>4. UNCHANGED <<F!world, F!evidence>> /\ fetches' = fetches + 1
    BY <2>1 DEF F!Fetch
  <2>5. "retain" \in Places \ {"idle"} /\ F!Go(r, "retain")
    BY <2>1 DEF Places
  <2> QED
    BY <2>2, <2>3, <2>4, <2>5, GoesOn
<1> QED
  BY <1>1, <1>2 DEF F!Fetch

\* A result is retained where none was: what a forecast used stays as it was used.
LEMMA RetainPreserves ==
    ASSUME F!RunnerConstants, FInv, NEW r \in Runs, F!Retain(r)
    PROVE  FInv'
<1>1. run[r] \in Working /\ pc[r] = "retain" /\ holder = r /\ UNCHANGED <<F!world, fetches>>
  BY DEF F!Retain, FInv, RunsTyped
<1>2. CASE F!Ends(r, "BLOCKED")
  BY <1>1, <1>2, EndPreserves DEF F!Retain, F!Ends
<1>3. CASE F!Missing(r) = {} /\ F!Go(r, "prepare") /\ UNCHANGED <<run, F!evidence, holder>>
  <2>1. run[r].required \subseteq F!Known(run[r].base) \cup F!Known(supplement)
    BY <1>3 DEF F!Missing
  <2>2. run' = [run EXCEPT ![r] = run[r]]
    BY <1>3 DEF FInv, RunsTyped
  <2> DEFINE record == run[r]
  <2>3. "prepare" \in Places \ {"idle"} /\ UNCHANGED <<F!world, F!evidence, fetches>> /\ holder' = r
    BY <1>1, <1>3 DEF Places
  <2>4. /\ record \in Working /\ run' = [run EXCEPT ![r] = record]
        /\ record.required \subseteq F!Known(record.base) \cup F!Known(supplement)
    BY <1>1, <2>1, <2>2
  <2> HIDE DEF record
  <2> QED
    BY ZenonT(60), <1>1, <1>3, <2>3, <2>4, GoesOn
<1>4. CASE /\ \E m \in F!Unretained(r) : supplement' = [supplement EXCEPT ![m] = run[r].answer[m]]
           /\ UNCHANGED <<pc, run, attempts, predictions, receipts, holder>>
  <2>1. PICK m \in F!Unretained(r) : supplement' = [supplement EXCEPT ![m] = run[r].answer[m]]
    BY <1>4
  <2>2. m \in Past /\ supplement[m] = None /\ supplement' \in F!KnownResults
    BY <1>1, <2>1 DEF F!Unretained, F!Known, Working, F!KnownResults, FInv, StoreTyped
  <2>3. \A k \in F!Known(supplement) : k \in F!Known(supplement') /\ supplement'[k] = supplement[k]
    BY <2>1, <2>2 DEF F!Known, FInv, StoreTyped, F!KnownResults
  <2>4. StoreTyped'
    BY <1>1, <1>4, <2>2 DEF FInv, StoreTyped, F!world
  <2>5. RunsTyped'
    BY <1>4 DEF FInv, RunsTyped
  <2>6. Prepares' /\ Publishes'
    BY <1>1, <1>4, OthersIdle DEF FInv, Prepares, Publishes
  <2>7. Claimed' /\ F!OneForecast' /\ F!ReceiptsAreTrue'
    BY <1>1, <1>4 DEF FInv, Claimed, F!OneForecast, F!ReceiptsAreTrue
  <2>8. ASSUME NEW p \in predictions PROVE Reproducible(p)'
    BY <2>3 DEF FInv, StoreTyped, F!Prediction, Reproducible, F!Known
  <2> QED
    BY <1>4, <2>4, <2>5, <2>6, <2>7, <2>8 DEF FInv
<1> QED
  BY <1>2, <1>3, <1>4 DEF F!Retain

\* One forecast per fixture, kickoff and model is prepared where none is on file.
LEMMA PreparePreserves ==
    ASSUME F!RunnerConstants, FInv, NEW r \in Runs, F!Prepare(r)
    PROVE  FInv'
<1>1. run[r] \in Working /\ pc[r] = "prepare" /\ holder = r /\ UNCHANGED <<F!world, fetches>>
      /\ run[r].required \subseteq F!Known(run[r].base) \cup F!Known(supplement)
  BY DEF F!Prepare, FInv, RunsTyped, Prepares
<1>2. PICK todo \in SUBSET F!Fresh(r) :
          IF F!Reused(r) \cup todo = {} THEN F!Ends(r, "REJECTED")
          ELSE /\ run' = [run EXCEPT ![r] = [todo |-> todo, covers |-> F!Reused(r) \cup todo]]
               /\ F!Go(r, "publish") /\ UNCHANGED <<F!evidence, holder>>
  BY DEF F!Prepare
<1>3. CASE F!Ends(r, "REJECTED")
  BY <1>1, <1>3, EndPreserves DEF F!Ends
<1>4. CASE /\ F!Reused(r) \cup todo # {}
           /\ run' = [run EXCEPT ![r] = [todo |-> todo, covers |-> F!Reused(r) \cup todo]]
           /\ F!Go(r, "publish") /\ UNCHANGED <<F!evidence, holder>>
  <2>1. ASSUME NEW e \in run[r].fixtures, NEW m \in F!Models, F!Timely(F!Prepared(r, e, m))
        PROVE  F!Prepared(r, e, m) \in F!Prediction /\ Reproducible(F!Prepared(r, e, m))
    <3>1. e \in Fixtures \X Kickoffs /\ run[r].base \in F!KnownResults /\ run[r].required \subseteq Past
      BY <1>1 DEF Working, Schedule
    <3>2. e[1] \in Fixtures /\ e[2] \in Kickoffs
      BY <3>1
    <3>3. [k \in Past |-> IF run[r].base[k] = None THEN supplement[k] ELSE None] \in F!KnownResults
      BY DEF FInv, StoreTyped, F!KnownResults
    <3>4. now \in 0 .. Horizon
      BY DEF FInv, StoreTyped
    <3>5. F!Prepared(r, e, m) \in F!Prediction
      BY <3>1, <3>2, <3>3, <3>4 DEF F!Prepared, F!Prediction
    <3>6. ASSUME NEW k \in Past, run[r].base[k] # None \/ supplement[k] # None
          PROVE run[r].base[k] # None \/ F!Prepared(r, e, m).used[k] # None
      BY <3>6 DEF F!Prepared
    <3>7. F!Prepared(r, e, m).required
             \subseteq F!Known(F!Prepared(r, e, m).base) \cup F!Known(F!Prepared(r, e, m).used)
      BY <1>1, <3>1, <3>6 DEF F!Known, F!Prepared
    <3>8. \A k \in F!Known(F!Prepared(r, e, m).used) : supplement[k] = F!Prepared(r, e, m).used[k]
      BY DEF F!Known, F!Prepared
    <3> QED
      BY <2>1, <3>5, <3>7, <3>8 DEF Reproducible, F!Timely
  <2> DEFINE covers == F!Reused(r) \cup todo
             record == [todo |-> todo, covers |-> covers]
  <2>2. \A p \in todo : p \in F!Prediction /\ Reproducible(p)
    BY <2>1 DEF F!Fresh, F!Wanted
  <2>3. F!Reused(r) \subseteq predictions
    BY DEF F!Reused, F!Existing
  <2>4. \A p \in todo : \A q \in predictions : ~SameSubject(p, q)
    BY DEF F!Fresh, F!Existing, SameSubject
  <2>5. \A p, q \in todo : SameSubject(p, q) => p = q
    <3> SUFFICES ASSUME NEW p \in todo, NEW q \in todo, SameSubject(p, q) PROVE p = q
      OBVIOUS
    <3>1. PICK e \in run[r].fixtures, m \in F!Models : p = F!Prepared(r, e, m)
      BY DEF F!Fresh, F!Wanted
    <3>2. PICK d \in run[r].fixtures, n \in F!Models : q = F!Prepared(r, d, n)
      BY DEF F!Fresh, F!Wanted
    <3>3. e[1] = d[1] /\ e[2] = d[2] /\ m = n
      BY <3>1, <3>2 DEF SameSubject, F!Prepared
    <3>4. e \in Fixtures \X Kickoffs /\ d \in Fixtures \X Kickoffs
      BY <1>1 DEF Working, Schedule
    <3>5. e = d
      BY <3>3, <3>4
    <3> QED
      BY <3>1, <3>2, <3>3, <3>5
  <2>6. predictions \subseteq F!Prediction
    BY DEF FInv, StoreTyped
  <2>7. record \in Publishing
    <3>1. covers # {} /\ covers \subseteq F!Prediction /\ todo \subseteq F!Prediction
      BY <1>4, <2>2, <2>3, <2>6
    <3> HIDE DEF covers
    <3>2. covers \in (SUBSET F!Prediction) \ {{}}
      BY <3>1
    <3>3. todo \in SUBSET F!Prediction
      BY <3>1
    <3> QED
      BY <3>2, <3>3 DEF Publishing
  <2>8. record.covers \subseteq record.todo \cup predictions
    BY <2>3
  <2>9. \A p \in record.todo : \A q \in record.todo \cup predictions : SameSubject(p, q) => p = q
    BY <2>4, <2>5
  <2>10. run' = [run EXCEPT ![r] = record]
    BY <1>4
  <2> HIDE DEF record, covers
  <2>11. \A p \in record.todo : Reproducible(p)
    BY <2>2 DEF record
  <2>12. "publish" \in Places \ {"idle"} /\ F!Go(r, "publish") /\ UNCHANGED <<F!world, F!evidence, fetches>>
         /\ holder' = r
    BY <1>1, <1>4 DEF Places
  <2> QED
    BY <1>1, <2>7, <2>8, <2>9, <2>10, <2>11, <2>12, GoesOn
<1> QED
  BY <1>2, <1>3, <1>4

\* A forecast is published, or the receipt of the run is.
LEMMA PublishPreserves ==
    ASSUME F!RunnerConstants, FInv, NEW r \in Runs, F!Publish(r)
    PROVE  FInv'
<1>1. run[r] \in Publishing /\ pc[r] = "publish" /\ holder = r /\ UNCHANGED <<F!world, fetches>>
      /\ run[r].covers \subseteq run[r].todo \cup predictions
  BY DEF F!Publish, FInv, RunsTyped, Publishes
<1>2. CASE /\ run[r].todo = {} /\ F!End(r, "RECORDED", run[r].covers)
           /\ UNCHANGED <<supplement, attempts, predictions>>
  BY <1>1, <1>2, EndPreserves DEF Publishing
<1>3. CASE \E p \in run[r].todo :
              /\ predictions' = predictions \cup {p}
              /\ run' = [run EXCEPT ![r].todo = @ \ {p}]
              /\ UNCHANGED <<pc, supplement, attempts, receipts, holder>>
  <2>1. PICK p \in run[r].todo :
              /\ predictions' = predictions \cup {p}
              /\ run' = [run EXCEPT ![r].todo = @ \ {p}]
              /\ UNCHANGED <<pc, supplement, attempts, receipts, holder>>
    BY <1>3
  <2>2. p \in F!Prediction /\ Reproducible(p)
        /\ \A q \in run[r].todo \cup predictions : SameSubject(p, q) => p = q
    BY <1>1 DEF Publishing, FInv, Publishes
  <2>3. run'[r].todo = run[r].todo \ {p} /\ run'[r].covers = run[r].covers /\ run'[r] \in Publishing
    BY <1>1, <2>1 DEF Publishing, FInv, RunsTyped
  <2>4. \A s \in Runs : s # r => pc'[s] = "idle" /\ run'[s] = run[s]
    BY <1>1, <2>1, OthersIdle DEF FInv, RunsTyped
  <2>5. StoreTyped'
    BY <1>1, <2>1, <2>2 DEF FInv, StoreTyped, F!world
  <2>6. RunsTyped'
    BY <1>1, <2>1, <2>3, <2>4 DEF FInv, RunsTyped
  <2>7. \A q : Reproducible(q) => Reproducible(q)'
    BY <2>1 DEF Reproducible
  <2>8. Prepares'
    BY <1>1, <2>1, <2>4 DEF Prepares
  <2>9. Publishes'
    BY <1>1, <2>1, <2>3, <2>4, <2>7 DEF FInv, Publishes, SameSubject
  <2>10. Claimed' /\ F!ReceiptsAreTrue'
    BY <1>1, <2>1 DEF FInv, Claimed, F!ReceiptsAreTrue
  <2>11. F!OneForecast'
    BY <2>1, <2>2 DEF FInv, F!OneForecast, SameSubject
  <2>12. (\A q \in predictions : Reproducible(q))'
    BY <2>1, <2>2, <2>7 DEF FInv
  <2> QED
    BY <2>5, <2>6, <2>8, <2>9, <2>10, <2>11, <2>12 DEF FInv
<1> QED
  BY <1>2, <1>3 DEF F!Publish

\* A run dies, or storage fails under it.
LEMMA RunnerCrashPreserves ==
    ASSUME F!RunnerConstants, FInv, NEW r \in Runs, F!Crash(r)
    PROVE  FInv'
<1>1. CASE F!Ends(r, "REJECTED")
  BY <1>1, EndPreserves DEF F!Crash, F!Ends
<1>2. CASE /\ F!Go(r, "idle") /\ run' = [run EXCEPT ![r] = None]
           /\ holder' = IF holder = r THEN None ELSE holder
           /\ UNCHANGED F!evidence
  <2>1. F!End(r, "DIED", {})
    BY <1>2 DEF F!End, F!evidence
  <2> QED
    BY <1>2, <2>1, EndPreserves DEF F!Crash, F!evidence
<1> QED
  BY <1>1, <1>2 DEF F!Crash

\* The invariant holds of every state: whatever overlaps, moves, fails or dies.
THEOREM RunnerSafety ==
    ASSUME F!RunnerConstants
    PROVE  F!Spec => []FInv
<1>1. F!Init => FInv
  <2> SUFFICES ASSUME F!Init PROVE FInv
    OBVIOUS
  <2>1. StoreTyped
    BY DEF F!Init, StoreTyped, F!KnownResults, F!RunnerConstants
  <2>2. RunsTyped /\ Prepares /\ Publishes
    BY DEF F!Init, RunsTyped, Prepares, Publishes, Places
  <2>3. Claimed
    BY FS_EmptySet, CountsAgree DEF F!Init, Claimed
  <2> QED
    BY <2>1, <2>2, <2>3 DEF FInv, F!Init, F!OneForecast, F!ReceiptsAreTrue
<1>2. FInv /\ [F!Next]_F!vars => FInv'
  <2> SUFFICES ASSUME FInv, [F!Next]_F!vars PROVE FInv'
    OBVIOUS
  <2>1. CASE UNCHANGED F!vars
    <3>1. StoreTyped' /\ RunsTyped' /\ Claimed' /\ F!OneForecast' /\ F!ReceiptsAreTrue'
      BY <2>1 DEF FInv, StoreTyped, RunsTyped, Claimed, F!OneForecast, F!ReceiptsAreTrue,
                  F!vars, F!world, F!evidence
    <3>2. Prepares' /\ Publishes' /\ (\A p \in predictions : Reproducible(p))'
      BY <2>1 DEF FInv, Prepares, Publishes, Reproducible, F!Known, SameSubject, F!vars, F!world,
            F!evidence
    <3> QED
      BY <3>1, <3>2 DEF FInv
  <2> QED
    BY <2>1, WorldPreserves, StartPreserves, LoadPreserves, ClaimPreserves, FetchPreserves,
       RetainPreserves, PreparePreserves, PublishPreserves, RunnerCrashPreserves DEF F!Next
<1> QED
  BY <1>1, <1>2, PTL DEF F!Spec

\* One frozen forecast per fixture, kickoff and model, whatever overlaps, dies or changes.
THEOREM OneForecastEver ==
    ASSUME F!RunnerConstants
    PROVE  F!Spec => []F!OneForecast
<1>1. FInv => F!OneForecast
  BY DEF FInv
<1> QED
  BY <1>1, RunnerSafety, PTL

\* The provider is asked once per claim, and claims keep their distance.
THEOREM RequestsKeepDistance ==
    ASSUME F!RunnerConstants
    PROVE  F!Spec => []F!RequestsAreSpaced
<1>1. FInv => F!RequestsAreSpaced
  BY DEF FInv, Claimed, F!RequestsAreSpaced
<1> QED
  BY <1>1, RunnerSafety, PTL

\* What a forecast was made from is on file, and was complete before its kickoff.
THEOREM ForecastsReproduce ==
    ASSUME F!RunnerConstants
    PROVE  F!Spec => []F!ForecastsAreReproducible
<1>1. FInv => F!ForecastsAreReproducible
  BY DEF FInv, Reproducible, F!ForecastsAreReproducible
<1> QED
  BY <1>1, RunnerSafety, PTL

\* A recorded receipt names forecasts that are on file.
THEOREM ReceiptsHold ==
    ASSUME F!RunnerConstants
    PROVE  F!Spec => []F!ReceiptsAreTrue
<1>1. FInv => F!ReceiptsAreTrue
  BY DEF FInv
<1> QED
  BY <1>1, RunnerSafety, PTL

\* Every variable of the runner keeps its type.
THEOREM RunnerTypeCorrect ==
    ASSUME F!RunnerConstants
    PROVE  F!Spec => []F!TypeOK
<1>1. FInv => F!TypeOK
  BY DEF FInv, StoreTyped, F!RunnerConstants, RunsTyped, F!TypeOK
<1> QED
  BY <1>1, RunnerSafety, PTL

-----------------------------------------------------------------------------
(* The analysis store.                                                     *)

\* Where a call stands: outside the critical section, or in it.
Inside == {"write", "grant lock", "grant", "guard", "link", "return"}
Steps == {"idle", "look", "build", "enter"} \cup Inside

\* The store, the calls and the readers have their types.
FilesTyped ==
    /\ saved \in [Keys -> A!Record \cup {None}]
    /\ granted \subseteq Keys \cup Clients /\ lockGrant \in BOOLEAN
    /\ leftover \in Nat /\ builds \in 0 .. MaxBuilds /\ crashes \in 0 .. MaxCrashes
CallsTyped ==
    /\ holder \in Clients \cup {None}
    /\ pc \in [Clients -> Steps]
    /\ call \in [Clients -> A!Call \cup {None}] /\ built \in [Clients -> A!Record \cup {None}]
    /\ \A c \in Clients : /\ pc[c] # "idle" => call[c] \in A!Call
                          /\ pc[c] \in {"enter"} \cup Inside => built[c] \in A!Record
                          /\ pc[c] \in {"grant lock", "grant"} => Evidence
    /\ DOMAIN seen = Readers /\ reads \in Nat

\* The lock has the owner that is inside, and no reader beside it.
LockHeld ==
    /\ \A c \in Clients : pc[c] \in Inside <=> holder = c
    /\ holder # None => \A r \in Readers : seen[r] = None

\* The lookup under the lock stays true until the link; then the record is the one built.
Looked ==
    \A c \in Clients :
        /\ pc[c] \in Inside \ {"return"} => saved[A!Key(c)] = None
        /\ pc[c] = "return" => saved[A!Key(c)] = built[c]

\* With an API user, grants come before the name.
Granted ==
    Evidence =>
        /\ \A k \in Keys : saved[k] # None => k \in granted /\ lockGrant
        /\ \A c \in Clients : /\ pc[c] \in {"grant", "guard", "link"} => lockGrant
                              /\ pc[c] \in {"guard", "link"} => c \in granted

\* The temporary of the live writer, beside those of dead ones.
Temporary == IF ~Evidence /\ \E c \in Clients : pc[c] \in {"guard", "link", "return"} THEN 1 ELSE 0
Cleaned == Temporary <= leftover /\ leftover <= crashes + Temporary

\* Whatever was answered for a key is what is saved under it.
AnsweredAsSaved == \A a \in answers : a[1] \in Keys /\ a[2] \in A!Record /\ saved[a[1]] = a[2]

\* The inductive invariant of the store.
AInv ==
    FilesTyped /\ CallsTyped /\ LockHeld /\ Looked /\ Granted /\ Cleaned /\ AnsweredAsSaved /\ ~refused

\* A call that moves outside the lock: it asks, builds, replays or raises.
LEMMA OutsidePreserves ==
    ASSUME A!StoreConstants, AInv, NEW c \in Clients, pc[c] \notin Inside, pc'[c] \notin Inside,
           pc' \in [Clients -> Steps], \A d \in Clients : d # c => pc'[d] = pc[d],
           call' \in [Clients -> A!Call \cup {None}], built' \in [Clients -> A!Record \cup {None}],
           \A d \in Clients : d # c => call'[d] = call[d] /\ built'[d] = built[d],
           pc'[c] # "idle" => call'[c] \in A!Call, pc'[c] = "enter" => built'[c] \in A!Record,
           UNCHANGED <<saved, lockGrant, leftover, holder, A!readers, refused>>,
           granted' = granted \/ granted' = granted \ {c},
           crashes' \in {crashes, crashes + 1}, crashes' <= MaxCrashes,
           builds' \in 0 .. MaxBuilds,
           \A a \in answers' : a \in answers \/ \E k \in Keys : a = <<k, saved[k]>> /\ saved[k] # None
    PROVE  AInv'
<1>1. FilesTyped'
  BY DEF AInv, FilesTyped, A!StoreConstants
<1>2. CallsTyped'
  BY DEF AInv, CallsTyped, A!readers, Inside
<1>3. LockHeld'
  BY DEF AInv, LockHeld, A!readers
<1>4. \A d \in Clients : pc'[d] \in Inside =>
          pc[d] = pc'[d] /\ call'[d] = call[d] /\ built'[d] = built[d]
  OBVIOUS
<1>5. Looked'
  <2> SUFFICES ASSUME NEW d \in Clients, pc'[d] \in Inside
               PROVE  /\ pc'[d] # "return" => saved'[call'[d].key] = None
                      /\ pc'[d] = "return" => saved'[call'[d].key] = built'[d]
    BY DEF Looked, A!Key, Inside
  <2>1. pc[d] = pc'[d] /\ call'[d] = call[d] /\ built'[d] = built[d] /\ saved' = saved
    BY <1>4
  <2>2. saved[call[d].key] = IF pc[d] = "return" THEN built[d] ELSE None
    BY <2>1 DEF AInv, Looked, A!Key, Inside
  <2> QED
    BY <2>1, <2>2
<1>6. Granted'
  BY <1>4 DEF AInv, Granted, Inside, A!StoreConstants
<1>7. Cleaned'
  <2>1. Temporary' = Temporary
    BY <1>4 DEF Temporary, Inside
  <2>2. Temporary \in {0, 1} /\ leftover' = leftover /\ leftover \in Nat /\ crashes \in Nat
    BY DEF Temporary, AInv, FilesTyped
  <2>3. Temporary <= leftover /\ leftover <= crashes + Temporary
    BY DEF AInv, Cleaned
  <2>4. crashes' \in Nat /\ crashes <= crashes'
    BY <2>2
  <2>5. leftover <= crashes' + Temporary
    <3>1. \A l, m, n \in Nat, t \in {0, 1} : l <= m + t /\ m <= n => l <= n + t
      OBVIOUS
    <3>2. leftover \in Nat /\ crashes \in Nat /\ Temporary \in {0, 1}
      BY <2>2
    <3> QED
      BY <2>3, <2>4, <3>1, <3>2
  <2> QED
    BY <2>1, <2>2, <2>3, <2>5 DEF Cleaned
<1>8. AnsweredAsSaved'
  BY DEF AInv, AnsweredAsSaved, FilesTyped
<1> QED
  BY <1>1, <1>2, <1>3, <1>5, <1>6, <1>7, <1>8 DEF AInv

\* A call that goes on inside the lock.
LEMMA StaysInside ==
    ASSUME CallsTyped, LockHeld, NEW c \in Clients, pc[c] \in Inside, NEW place \in Inside,
           A!Go(c, place), place \in {"grant lock", "grant"} => Evidence,
           UNCHANGED <<holder, call, built, A!readers>>
    PROVE  /\ CallsTyped' /\ LockHeld' /\ pc'[c] = place /\ holder = c
           /\ \A d \in Clients : d # c => pc[d] \notin Inside /\ pc'[d] = pc[d]
<1>1. pc' = [pc EXCEPT ![c] = place] /\ pc \in [Clients -> Steps]
  BY DEF A!Go, CallsTyped
<1>2. holder = c /\ \A d \in Clients : d # c => pc[d] \notin Inside /\ pc'[d] = pc[d]
  <2>1. holder = c
    BY DEF LockHeld
  <2>2. \A d \in Clients : d # c => pc[d] \notin Inside
    BY <2>1 DEF LockHeld
  <2>3. \A d \in Clients : d # c => pc'[d] = pc[d]
    BY <1>1
  <2> QED
    BY <2>1, <2>2, <2>3
<1>3. place \in Steps /\ place # "idle" /\ pc[c] # "idle"
  BY DEF Steps, Inside
<1>4. CallsTyped'
  BY <1>1, <1>3 DEF CallsTyped, A!readers
<1>5. LockHeld'
  BY <1>1, <1>2 DEF LockHeld, A!readers
<1> QED
  BY <1>1, <1>2, <1>4, <1>5

\* What the frame leaves to show of a step inside the lock that keeps the records.
LEMMA InsidePreserves ==
    ASSUME A!StoreConstants, AInv, NEW c \in Clients, pc[c] \in Inside \ {"return"},
           NEW place \in Inside \ {"return"}, A!Go(c, place),
           UNCHANGED <<saved, holder, call, built, builds, crashes, A!readers, answers, refused>>,
           FilesTyped', granted \subseteq granted', lockGrant => lockGrant',
           Evidence => /\ place \in {"grant", "guard", "link"} => lockGrant'
                       /\ place \in {"guard", "link"} => c \in granted',
           leftover' = leftover + (IF ~Evidence /\ pc[c] = "write" /\ place = "guard" THEN 1 ELSE 0),
           \/ Evidence
           \/ (pc[c] = "write" /\ place = "guard") \/ (pc[c] = "guard" /\ place = "link")
    PROVE  AInv'
<1>1. /\ CallsTyped' /\ LockHeld' /\ pc'[c] = place /\ holder = c
      /\ \A d \in Clients : d # c => pc[d] \notin Inside /\ pc'[d] = pc[d]
  BY StaysInside DEF AInv
<1>2. Looked'
  BY <1>1 DEF AInv, Looked, A!Key, Inside
<1>3. Granted'
  BY <1>1 DEF AInv, Granted, Inside
<1>4. AnsweredAsSaved'
  BY DEF AInv, AnsweredAsSaved
<1>5. Temporary = IF ~Evidence /\ pc[c] \in {"guard", "link", "return"} THEN 1 ELSE 0
  BY <1>1 DEF Temporary, Inside
<1>6. Temporary' = IF ~Evidence /\ place \in {"guard", "link", "return"} THEN 1 ELSE 0
  BY <1>1 DEF Temporary, Inside
<1>7. Cleaned'
  <2>1. leftover \in Nat /\ crashes \in Nat /\ crashes' = crashes
    BY DEF AInv, FilesTyped
  <2>2. leftover' = leftover + Temporary' - Temporary
    BY <1>5, <1>6, <2>1
  <2>3. Temporary \in {0, 1} /\ Temporary' \in {0, 1} /\ leftover' \in Nat
    BY DEF Temporary, FilesTyped
  <2>4. Temporary <= leftover /\ leftover <= crashes + Temporary
    BY DEF AInv, Cleaned
  <2>5. ASSUME NEW t \in {0, 1}, NEW u \in {0, 1}, t <= leftover, leftover <= crashes + t,
               leftover' = leftover + u - t
        PROVE  u <= leftover' /\ leftover' <= crashes + u
    BY <2>1, <2>5
  <2>6. Temporary' <= leftover' /\ leftover' <= crashes + Temporary'
    BY <2>2, <2>3, <2>4, <2>5
  <2> QED
    BY <2>1, <2>6 DEF Cleaned
<1> QED
  BY <1>1, <1>2, <1>3, <1>4, <1>7 DEF AInv

\* A call that leaves the lock, alive or dead, after its record is there or withdrawn.
LEMMA LeavesPreserves ==
    ASSUME A!StoreConstants, AInv, NEW c \in Clients, pc[c] \in Inside,
           A!End(c), holder' = None, granted' = granted \ {c} \/ granted' = granted,
           UNCHANGED <<saved, lockGrant, builds, A!readers, refused>>,
           \/ crashes' = crashes /\ leftover' = leftover - Temporary
           \/ crashes' = crashes + 1 /\ crashes' <= MaxCrashes /\ leftover' = leftover,
           \A a \in answers' : a \in answers \/ \E k \in Keys : a = <<k, saved[k]>> /\ saved[k] # None
    PROVE  AInv'
<1>1. \A d \in Clients : pc'[d] \notin Inside
  BY DEF AInv, LockHeld, CallsTyped, A!End, A!Go, Inside
<1>2. Temporary' = 0 /\ Temporary \in {0, 1}
  BY <1>1 DEF Temporary, Inside
<1>3. FilesTyped'
  BY <1>2 DEF AInv, FilesTyped, Cleaned, A!StoreConstants
<1>4. CallsTyped'
  BY DEF AInv, CallsTyped, A!End, A!Go, A!readers, Steps, Inside
<1>5. LockHeld'
  BY <1>1, A!StoreConstants DEF LockHeld, A!StoreConstants
<1>6. Looked'
  BY <1>1 DEF Looked, Inside
<1>7. Granted'
  BY <1>1 DEF AInv, Granted, Inside, A!StoreConstants
<1>8. Cleaned'
  BY <1>2 DEF AInv, FilesTyped, Cleaned
<1>9. AnsweredAsSaved'
  BY DEF AInv, AnsweredAsSaved, FilesTyped
<1> QED
  BY <1>3, <1>4, <1>5, <1>6, <1>7, <1>8, <1>9 DEF AInv

\* A replay answers with what is saved; a call that raises, or asks, says nothing.
LEMMA ReplayOutside ==
    ASSUME A!StoreConstants, AInv, NEW c \in Clients, pc[c] \in {"look", "build", "enter"},
           \/ A!Replay(c) /\ saved[A!Key(c)] # None
           \/ A!Raise(c),
           UNCHANGED <<saved, lockGrant, leftover, holder, A!readers, refused>>,
           granted' = granted \/ granted' = granted \ {c},
           crashes' \in {crashes, crashes + 1}, crashes' <= MaxCrashes, builds' \in 0 .. MaxBuilds
    PROVE  AInv'
<1>1. /\ A!End(c)
      /\ \/ answers' = answers
         \/ answers' = answers \cup {<<A!Key(c), saved[A!Key(c)]>>} /\ saved[A!Key(c)] # None
  BY DEF A!Raise, A!Replay, A!Answer
<1>2. call[c] \in A!Call /\ A!Key(c) \in Keys
  BY DEF AInv, CallsTyped, A!Call, A!Key
<1>3. /\ pc' = [pc EXCEPT ![c] = "idle"] /\ call' = [call EXCEPT ![c] = None]
      /\ built' = [built EXCEPT ![c] = None]
  BY <1>1 DEF A!End, A!Go
<1>4. pc \in [Clients -> Steps] /\ call \in [Clients -> A!Call \cup {None}]
      /\ built \in [Clients -> A!Record \cup {None}] /\ "idle" \in Steps
  BY DEF AInv, CallsTyped, Steps
<1>5. /\ pc' \in [Clients -> Steps] /\ pc'[c] = "idle"
      /\ call' \in [Clients -> A!Call \cup {None}] /\ built' \in [Clients -> A!Record \cup {None}]
      /\ \A d \in Clients : d # c => pc'[d] = pc[d] /\ call'[d] = call[d] /\ built'[d] = built[d]
  BY <1>3, <1>4
<1>6. pc[c] \notin Inside /\ pc'[c] \notin Inside /\ pc'[c] # "enter"
  BY <1>5 DEF Inside
<1>7. \A a \in answers' : a \in answers \/ \E k \in Keys : a = <<k, saved[k]>> /\ saved[k] # None
  BY <1>1, <1>2
<1> QED
  BY <1>5, <1>6, <1>7, OutsidePreserves

\* A request is made.
LEMMA AskPreserves ==
    ASSUME A!StoreConstants, AInv, NEW c \in Clients, A!Ask(c)
    PROVE  AInv'
<1>1. PICK q \in A!Call : call' = [call EXCEPT ![c] = q]
  BY DEF A!Ask
<1>2. /\ pc' \in [Clients -> Steps] /\ pc'[c] = "look" /\ pc[c] = "idle"
      /\ \A d \in Clients : d # c => pc'[d] = pc[d]
  BY DEF A!Ask, A!Go, AInv, CallsTyped, Steps
<1>3. /\ call' \in [Clients -> A!Call \cup {None}] /\ call'[c] \in A!Call
      /\ \A d \in Clients : d # c => call'[d] = call[d]
  BY <1>1 DEF AInv, CallsTyped
<1>4. /\ built' = built /\ built \in [Clients -> A!Record \cup {None}] /\ builds' = builds
      /\ crashes' = crashes
      /\ UNCHANGED <<saved, granted, lockGrant, leftover, holder, A!readers, refused, answers>>
      /\ builds \in 0 .. MaxBuilds /\ crashes <= MaxCrashes
  <2>1. built \in [Clients -> A!Record \cup {None}]
    BY DEF AInv, CallsTyped
  <2>2. builds \in 0 .. MaxBuilds /\ crashes <= MaxCrashes
    BY DEF AInv, FilesTyped, A!StoreConstants
  <2> QED
    BY <2>1, <2>2 DEF A!Ask, A!store
<1>5. pc[c] \notin Inside /\ pc'[c] \notin Inside /\ pc'[c] # "enter"
  BY <1>2 DEF Inside
<1> QED
  BY <1>2, <1>3, <1>4, <1>5, OutsidePreserves

\* The first lookup replays, or the call goes on to build its response.
LEMMA LookPreserves ==
    ASSUME A!StoreConstants, AInv, NEW c \in Clients, A!Look(c)
    PROVE  AInv'
<1>1. /\ pc[c] = "look"
      /\ UNCHANGED <<saved, granted, lockGrant, leftover, holder, builds, crashes, A!readers, refused>>
      /\ builds \in 0 .. MaxBuilds /\ crashes <= MaxCrashes
  BY DEF A!Look, A!store, AInv, FilesTyped, A!StoreConstants
<1>2. CASE saved[A!Key(c)] # None /\ A!Replay(c)
  BY <1>1, <1>2, ReplayOutside
<1>3. CASE A!Go(c, "build") /\ UNCHANGED <<call, built, answers>>
  BY <1>1, <1>3, OutsidePreserves DEF A!Go, AInv, CallsTyped, Steps, Inside
<1> QED
  BY <1>2, <1>3 DEF A!Look

\* The response is built outside of the lock, or the history rejects the request.
LEMMA BuildPreserves ==
    ASSUME A!StoreConstants, AInv, NEW c \in Clients, A!Build(c)
    PROVE  AInv'
<1>1. /\ pc[c] = "build"
      /\ UNCHANGED <<saved, granted, lockGrant, leftover, holder, crashes, A!readers, refused>>
      /\ builds \in 0 .. MaxBuilds /\ crashes <= MaxCrashes /\ MaxBuilds \in Nat
  BY DEF A!Build, A!store, AInv, FilesTyped, A!StoreConstants
<1>2. CASE A!Raise(c) /\ UNCHANGED builds
  BY <1>1, <1>2, ReplayOutside
<1>3. CASE /\ builds < MaxBuilds /\ builds' = builds + 1
           /\ built' = [built EXCEPT ![c] = [request |-> call[c].request, forecast |-> builds']]
           /\ A!Go(c, "enter") /\ UNCHANGED <<call, answers>>
  <2>1. /\ pc' \in [Clients -> Steps] /\ pc'[c] = "enter"
        /\ \A d \in Clients : d # c => pc'[d] = pc[d]
    BY <1>3 DEF A!Go, AInv, CallsTyped, Steps
  <2>2. call' = call /\ call \in [Clients -> A!Call \cup {None}] /\ call[c] \in A!Call
    BY <1>1, <1>3 DEF AInv, CallsTyped
  <2>3. builds' \in 1 .. MaxBuilds
    BY <1>1, <1>3
  <2>4. [request |-> call[c].request, forecast |-> builds'] \in A!Record
    BY <2>2, <2>3 DEF A!Record, A!Call
  <2>5. /\ built' \in [Clients -> A!Record \cup {None}] /\ built'[c] \in A!Record
        /\ \A d \in Clients : d # c => built'[d] = built[d]
    BY <1>3, <2>4 DEF AInv, CallsTyped
  <2>6. pc[c] \notin Inside /\ pc'[c] \notin Inside /\ builds' \in 0 .. MaxBuilds
    BY <1>1, <2>1, <2>3 DEF Inside
  <2> QED
    BY <1>1, <1>3, <2>1, <2>2, <2>5, <2>6, OutsidePreserves
<1> QED
  BY <1>2, <1>3 DEF A!Build

\* The second lookup and the writing share one critical section.
LEMMA EnterPreserves ==
    ASSUME A!StoreConstants, AInv, NEW c \in Clients, A!Enter(c)
    PROVE  AInv'
<1>1. /\ pc[c] = "enter" /\ UNCHANGED <<A!store, builds, crashes, A!readers, refused>>
      /\ builds \in 0 .. MaxBuilds /\ crashes <= MaxCrashes
      /\ holder = None /\ \A r \in Readers : seen[r] = None
  BY DEF A!Enter, A!LockFree, AInv, FilesTyped, A!StoreConstants
<1>2. CASE saved[A!Key(c)] # None /\ A!Replay(c) /\ UNCHANGED holder
  BY <1>1, <1>2, ReplayOutside DEF A!store
<1>3. CASE saved[A!Key(c)] = None /\ A!Go(c, "write") /\ holder' = c /\ UNCHANGED <<call, built, answers>>
  <2>1. \A d \in Clients : pc[d] \notin Inside
    BY <1>1 DEF AInv, LockHeld, A!StoreConstants
  <2>2. /\ pc' \in [Clients -> Steps] /\ pc'[c] = "write"
        /\ \A d \in Clients : d # c => pc'[d] = pc[d]
    BY <1>3 DEF A!Go, AInv, CallsTyped, Steps, Inside
  <2>3. FilesTyped' /\ AnsweredAsSaved'
    BY <1>1, <1>3 DEF AInv, FilesTyped, AnsweredAsSaved, A!store
  <2>4. CallsTyped'
    BY <1>1, <1>3, <2>2 DEF AInv, CallsTyped, A!readers
  <2>5. LockHeld'
    BY <1>1, <1>3, <2>1, <2>2 DEF LockHeld, A!readers, Inside
  <2>6. Looked'
    BY <1>1, <1>3, <2>1, <2>2 DEF Looked, A!Key, Inside, A!store
  <2>7. Granted'
    BY <1>1, <2>1, <2>2 DEF AInv, Granted, Inside, A!store
  <2>8. Temporary = 0 /\ Temporary' = 0
    BY <2>1, <2>2 DEF Temporary, Inside
  <2>9. Cleaned'
    BY <1>1, <2>8 DEF AInv, Cleaned, A!store
  <2> QED
    BY <1>1, <2>3, <2>4, <2>5, <2>6, <2>7, <2>9 DEF AInv
<1> QED
  BY <1>2, <1>3 DEF A!Enter

\* The record is written under no name, or under that of a temporary.
LEMMA WritePreserves ==
    ASSUME A!StoreConstants, AInv, NEW c \in Clients, A!Write(c)
    PROVE  AInv'
<1>1. /\ pc[c] = "write" /\ pc[c] \in Inside \ {"return"}
      /\ UNCHANGED <<saved, granted, lockGrant, holder, call, built, builds, crashes, A!readers,
                     answers, refused>>
  BY DEF A!Write, Inside
<1>2. leftover \in Nat
  BY DEF AInv, FilesTyped
<1>3. CASE Evidence
  <2>1. A!Go(c, "grant lock")
    BY <1>3 DEF A!Write
  <2>2. leftover' = leftover
    <3>1. \A n \in Nat : n + 0 = n
      OBVIOUS
    <3>2. (IF Evidence THEN 0 ELSE 1) = 0
      BY <1>3
    <3>3. leftover' = leftover + 0
      BY <3>2, Zenon DEF A!Write
    <3> QED
      BY <1>2, <3>1, <3>3, Zenon
  <2>3. FilesTyped'
    BY <1>1, <1>2, <2>2 DEF AInv, FilesTyped
  <2>4. "grant lock" \in Inside \ {"return"}
    BY DEF Inside
  <2>5. leftover' = leftover + (IF ~Evidence /\ pc[c] = "write" /\ "grant lock" = "guard" THEN 1 ELSE 0)
    <3>1. (IF ~Evidence /\ pc[c] = "write" /\ "grant lock" = "guard" THEN 1 ELSE 0) = 0
      BY <1>3
    <3>2. \A n \in Nat : n = n + 0
      OBVIOUS
    <3> QED
      BY <1>2, <2>2, <3>1, <3>2, Zenon
  <2> QED
    BY <1>1, <1>3, <2>1, <2>3, <2>4, <2>5, InsidePreserves
<1>4. CASE ~Evidence
  <2>1. A!Go(c, "guard") /\ leftover' = leftover + 1
    BY <1>1, <1>4 DEF A!Write
  <2>2. FilesTyped' /\ "guard" \in Inside \ {"return"}
    BY <1>1, <1>2, <2>1 DEF AInv, FilesTyped, Inside
  <2>3. leftover' = leftover + (IF ~Evidence /\ pc[c] = "write" /\ "guard" = "guard" THEN 1 ELSE 0)
    BY <1>1, <1>4, <2>1
  <2>4. /\ granted \subseteq granted' /\ (lockGrant => lockGrant')
        /\ Evidence => /\ "guard" \in {"grant", "guard", "link"} => lockGrant'
                       /\ "guard" \in {"guard", "link"} => c \in granted'
    BY <1>1, <1>4
  <2>5. \/ Evidence
        \/ (pc[c] = "write" /\ "guard" = "guard") \/ (pc[c] = "guard" /\ "guard" = "link")
    BY <1>1
  <2>6. UNCHANGED <<saved, holder, call, built, builds, crashes, A!readers, answers, refused>>
    BY <1>1
  <2> QED
    BY <1>1, <2>1, <2>2, <2>3, <2>4, <2>5, <2>6, InsidePreserves, Zenon
<1> QED
  BY <1>3, <1>4

\* The directories and the lock, then the unnamed file, are opened to the API user.
LEMMA GrantsPreserve ==
    ASSUME A!StoreConstants, AInv, NEW c \in Clients, A!GrantLock(c) \/ A!Grant(c)
    PROVE  AInv'
<1>1. pc[c] \in {"grant lock", "grant"} /\ Evidence
  BY DEF A!GrantLock, A!Grant, AInv, CallsTyped
<1>2. PICK place \in {"grant", "guard"} :
          /\ A!Go(c, place)
          /\ place = "grant" => lockGrant'
          /\ place = "guard" => pc[c] = "grant" /\ c \in granted'
  BY DEF A!GrantLock, A!Grant
<1>3. /\ UNCHANGED <<saved, leftover, holder, call, built, builds, crashes, A!readers, answers, refused>>
      /\ granted' = granted \/ granted' = granted \cup {c}
      /\ lockGrant' = lockGrant \/ lockGrant' = TRUE
  BY DEF A!GrantLock, A!Grant
<1>4. FilesTyped'
  BY <1>3 DEF AInv, FilesTyped
<1>5. lockGrant'
  <2>1. CASE place = "grant"
    BY <1>2, <2>1
  <2>2. CASE place = "guard"
    <3>1. lockGrant
      BY <1>1, <1>2, <2>2 DEF AInv, Granted
    <3> QED
      BY <1>3, <3>1
  <2> QED
    BY <1>2, <2>1, <2>2
<1>6. pc[c] \in Inside \ {"return"} /\ place \in Inside \ {"return"} /\ place # "link" /\ pc[c] # "write"
  BY <1>1, <1>2 DEF Inside
<1>7. leftover' = leftover + (IF ~Evidence /\ pc[c] = "write" /\ place = "guard" THEN 1 ELSE 0)
  BY <1>3, <1>6 DEF AInv, FilesTyped
<1>8. place \in {"grant lock", "grant"} => Evidence
  BY <1>1
<1>9. A!Go(c, place) /\ granted \subseteq granted' /\ (place \in {"guard", "link"} => c \in granted')
  BY <1>2, <1>3
<1> QED
  BY <1>1, <1>3, <1>4, <1>5, <1>6, <1>7, <1>8, <1>9, InsidePreserves

\* What a writer withdraws it had not published.
LEMMA WithdrawPreserves ==
    ASSUME A!StoreConstants, AInv, NEW c \in Clients, pc[c] \in {"guard", "link"}, A!Withdraw(c),
           UNCHANGED <<saved, lockGrant, builds, crashes, A!readers, refused>>
    PROVE  AInv'
BY LeavesPreserves DEF Temporary, A!Withdraw, AInv, FilesTyped, A!Raise, Inside

\* The guard passes the record on, or withdraws it.
LEMMA GuardPreserves ==
    ASSUME A!StoreConstants, AInv, NEW c \in Clients, A!Guard(c)
    PROVE  AInv'
<1>1. pc[c] = "guard" /\ UNCHANGED <<saved, lockGrant, builds, crashes, A!readers, refused>>
  BY DEF A!Guard
<1>2. CASE A!Withdraw(c)
  BY <1>1, <1>2, WithdrawPreserves
<1>3. CASE A!Go(c, "link") /\ UNCHANGED <<granted, leftover, holder, call, built, answers>>
  <2>1. FilesTyped'
    BY <1>1, <1>3 DEF AInv, FilesTyped
  <2>2. Evidence => lockGrant' /\ c \in granted'
    BY <1>1, <1>3 DEF AInv, Granted
  <2>3. pc[c] \in Inside \ {"return"} /\ "link" \in Inside \ {"return"}
    BY <1>1 DEF Inside
  <2>4. leftover' = leftover + (IF ~Evidence /\ pc[c] = "write" /\ "link" = "guard" THEN 1 ELSE 0)
    BY <1>3 DEF AInv, FilesTyped
  <2> QED
    BY <1>1, <1>3, <2>1, <2>2, <2>3, <2>4, InsidePreserves
<1> QED
  BY <1>2, <1>3 DEF A!Guard

\* The name is free, as the lookup under the lock said: the link publishes the record.
LEMMA LinkPreserves ==
    ASSUME A!StoreConstants, AInv, NEW c \in Clients, A!Link(c)
    PROVE  AInv'
<1>1. pc[c] = "link" /\ pc[c] \in Inside /\ pc[c] \in Inside \ {"return"}
  BY DEF A!Link, Inside
<1>2. saved[A!Key(c)] = None /\ A!Key(c) \in Keys /\ built[c] \in A!Record
  BY <1>1 DEF AInv, Looked, CallsTyped, A!Key, A!Call
<1>3. /\ saved' = [saved EXCEPT ![A!Key(c)] = built[c]] /\ A!Go(c, "return")
      /\ granted' = (granted \ {c}) \cup (IF c \in granted THEN {A!Key(c)} ELSE {})
      /\ UNCHANGED <<lockGrant, leftover, holder, call, built, builds, crashes, A!readers, answers, refused>>
  BY <1>2 DEF A!Link
<1>4. /\ CallsTyped' /\ LockHeld' /\ pc'[c] = "return" /\ holder = c
      /\ \A d \in Clients : d # c => pc[d] \notin Inside /\ pc'[d] = pc[d]
  BY <1>1, <1>3, StaysInside DEF Inside, AInv
<1>5. FilesTyped'
  BY <1>2, <1>3 DEF AInv, FilesTyped
<1>6. Looked'
  BY <1>2, <1>3, <1>4 DEF Looked, A!Key, Inside, AInv, FilesTyped
<1>7. Granted'
  <2> SUFFICES ASSUME Evidence
               PROVE  /\ \A k \in Keys : saved'[k] # None => k \in granted' /\ lockGrant'
                      /\ \A d \in Clients : /\ pc'[d] \in {"grant", "guard", "link"} => lockGrant'
                                            /\ pc'[d] \in {"guard", "link"} => d \in granted'
    BY DEF Granted
  <2>1. c \in granted /\ lockGrant' /\ A!Key(c) \in granted'
    BY <1>1, <1>3 DEF AInv, Granted
  <2>2. ASSUME NEW k \in Keys, saved'[k] # None PROVE k \in granted'
    BY <1>2, <1>3, <2>1, <2>2 DEF AInv, Granted, FilesTyped, A!StoreConstants
  <2>3. \A d \in Clients : pc'[d] \notin {"guard", "link"}
    BY <1>4 DEF Inside
  <2> QED
    BY <2>1, <2>2, <2>3
<1>8. Cleaned'
  BY <1>1, <1>3, <1>4 DEF Temporary, AInv, Cleaned
<1>9. AnsweredAsSaved'
  BY <1>2, <1>3, A!StoreConstants DEF AInv, AnsweredAsSaved, FilesTyped, A!StoreConstants
<1> QED
  BY <1>3, <1>4, <1>5, <1>6, <1>7, <1>8, <1>9 DEF AInv

\* The call answers with the record it published.
LEMMA ReturnPreserves ==
    ASSUME A!StoreConstants, AInv, NEW c \in Clients, A!Return(c)
    PROVE  AInv'
<1>1. pc[c] = "return" /\ pc[c] \in Inside
  BY DEF A!Return, Inside
<1>2. saved[A!Key(c)] = built[c] /\ A!Key(c) \in Keys /\ built[c] \in A!Record /\ built[c] # None
  BY <1>1 DEF AInv, Looked, CallsTyped, A!Key, A!Call, A!StoreConstants
<1>3. Temporary = IF Evidence THEN 0 ELSE 1
  BY <1>1 DEF Temporary
<1>4. leftover' = leftover - Temporary
  BY <1>3 DEF A!Return, AInv, FilesTyped
<1>5. /\ A!End(c) /\ holder' = None /\ answers' = answers \cup {<<A!Key(c), built[c]>>}
      /\ UNCHANGED <<saved, granted, lockGrant, builds, crashes, A!readers, refused>>
  BY DEF A!Return, A!Answer
<1>6. \A a \in answers' : a \in answers \/ \E k \in Keys : a = <<k, saved[k]>> /\ saved[k] # None
  BY <1>2, <1>5
<1> QED
  BY <1>1, <1>4, <1>5, <1>6, LeavesPreserves

\* A client dies: its lock is released, its unnamed file is gone, its temporary stays.
LEMMA WriterCrashPreserves ==
    ASSUME A!StoreConstants, AInv, NEW c \in Clients, A!Crash(c)
    PROVE  AInv'
<1>1. /\ pc[c] # "idle" /\ crashes < MaxCrashes /\ crashes' = crashes + 1
      /\ holder' = IF holder = c THEN None ELSE holder
      /\ granted' = granted \ {c} /\ A!Raise(c)
      /\ UNCHANGED <<saved, lockGrant, leftover, builds, A!readers, refused>>
  BY DEF A!Crash
<1>2. crashes' <= MaxCrashes
  BY <1>1 DEF AInv, FilesTyped, A!StoreConstants
<1>3. CASE pc[c] \in Inside
  BY <1>1, <1>2, <1>3, LeavesPreserves DEF A!Raise, AInv, LockHeld
<1>4. CASE pc[c] \notin Inside
  BY <1>1, <1>2, <1>4, ReplayOutside DEF AInv, CallsTyped, LockHeld, FilesTyped, Steps
<1> QED
  BY <1>3, <1>4

\* Readers come when nobody writes, read what is there and go.
LEMMA ReadersPreserve ==
    ASSUME A!StoreConstants, AInv, NEW r \in Readers, A!ReadLock(r) \/ A!ReadFile(r) \/ A!ReadUnlock(r)
    PROVE  AInv'
<1>1. UNCHANGED <<A!store, A!clients, answers, refused>>
  BY DEF A!ReadLock, A!ReadFile, A!ReadUnlock
<1>2. DOMAIN seen' = Readers /\ reads' \in Nat
  <2>1. DOMAIN seen = Readers /\ reads \in Nat
    BY DEF AInv, CallsTyped
  <2>2. CASE A!ReadLock(r)
    BY <2>1, <2>2 DEF A!ReadLock
  <2>3. CASE A!ReadFile(r)
    BY <2>1, <2>3 DEF A!ReadFile
  <2>4. CASE A!ReadUnlock(r)
    BY <2>1, <2>4 DEF A!ReadUnlock
  <2> QED
    BY <2>2, <2>3, <2>4
<1>3. LockHeld'
  BY <1>1 DEF A!ReadLock, AInv, LockHeld, A!clients, A!ReadFile, A!ReadUnlock
<1>4. FilesTyped' /\ Looked' /\ Granted' /\ Cleaned' /\ AnsweredAsSaved' /\ ~refused'
  BY <1>1 DEF AInv, FilesTyped, Looked, Granted, Cleaned, AnsweredAsSaved, Temporary,
         A!Key, A!store, A!clients
<1>5. CallsTyped'
  BY <1>1, <1>2 DEF AInv, CallsTyped, A!clients
<1> QED
  BY <1>3, <1>4, <1>5 DEF AInv

\* Nothing happens.
LEMMA StoreStutters ==
    ASSUME AInv, UNCHANGED A!vars
    PROVE  AInv'
BY DEF AInv, FilesTyped, CallsTyped, LockHeld, Looked, Granted, Cleaned, AnsweredAsSaved, Temporary, A!Key,
       A!vars, A!store, A!clients, A!readers

\* The store starts empty, its clients and readers idle.
LEMMA StoreStarts ==
    ASSUME A!StoreConstants, A!Init
    PROVE  AInv
<1>1. Temporary = 0
  BY DEF A!Init, Temporary
<1>2. FilesTyped
  <2>1. MaxBuilds \in Nat /\ MaxCrashes \in Nat
    BY DEF A!StoreConstants
  <2>2. saved \in [Keys -> A!Record \cup {None}]
    BY DEF A!Init
  <2>3. builds \in 0 .. MaxBuilds /\ crashes \in 0 .. MaxCrashes /\ leftover \in Nat
    BY <2>1 DEF A!Init
  <2>4. granted \subseteq Keys \cup Clients /\ lockGrant \in BOOLEAN
    BY DEF A!Init
  <2> QED
    BY <2>2, <2>3, <2>4 DEF FilesTyped
<1>3. CallsTyped
  BY DEF A!Init, Steps, CallsTyped, Inside
<1>4. LockHeld /\ Looked /\ Granted
  BY DEF A!Init, A!StoreConstants, LockHeld, Looked, Granted, Inside
<1>5. Cleaned
  BY <1>1 DEF A!Init, Cleaned
<1> QED
  BY <1>2, <1>3, <1>4, <1>5 DEF A!Init, AInv, AnsweredAsSaved

\* Every step of a client or a reader preserves the invariant.
LEMMA StoreSteps ==
    ASSUME A!StoreConstants, AInv, [A!Next]_A!vars
    PROVE  AInv'
<1>1. ASSUME NEW c \in Clients, A!Ask(c) PROVE AInv'
  BY <1>1, AskPreserves
<1>2. ASSUME NEW c \in Clients, A!Look(c) PROVE AInv'
  BY <1>2, LookPreserves
<1>3. ASSUME NEW c \in Clients, A!Build(c) PROVE AInv'
  BY <1>3, BuildPreserves
<1>4. ASSUME NEW c \in Clients, A!Enter(c) PROVE AInv'
  BY <1>4, EnterPreserves
<1>5. ASSUME NEW c \in Clients, A!Write(c) PROVE AInv'
  BY <1>5, WritePreserves
<1>6. ASSUME NEW c \in Clients, A!GrantLock(c) \/ A!Grant(c) PROVE AInv'
  BY <1>6, GrantsPreserve
<1>7. ASSUME NEW c \in Clients, A!Guard(c) PROVE AInv'
  BY <1>7, GuardPreserves
<1>8. ASSUME NEW c \in Clients, A!Link(c) PROVE AInv'
  BY <1>8, LinkPreserves
<1>9. ASSUME NEW c \in Clients, A!Return(c) PROVE AInv'
  BY <1>9, ReturnPreserves
<1>10. ASSUME NEW c \in Clients, A!Crash(c) PROVE AInv'
  BY <1>10, WriterCrashPreserves
<1>11. ASSUME NEW r \in Readers, A!ReadLock(r) \/ A!ReadFile(r) \/ A!ReadUnlock(r) PROVE AInv'
  BY <1>11, ReadersPreserve
<1>12. CASE UNCHANGED A!vars
  BY <1>12, StoreStutters
<1> QED
  BY <1>1, <1>2, <1>3, <1>4, <1>5, <1>6, <1>7, <1>8, <1>9, <1>10, <1>11, <1>12 DEF A!Next, A!Step

\* The inductive invariant holds in every state of the store: a lookup made under the lock stays true
\* up to the link, grants come before the name, and what was answered is what is saved.
THEOREM StoreSafety ==
    ASSUME A!StoreConstants
    PROVE  A!Spec => []AInv
<1>1. A!Init => AInv
  BY StoreStarts
<1>2. AInv /\ [A!Next]_A!vars => AInv'
  BY StoreSteps
<1> QED
  BY <1>1, <1>2, PTL DEF A!Spec

\* Every variable of the analysis store keeps its type; temporaries are at most one per crash and live
\* writer (write_new_record).
THEOREM StoreTypeCorrect ==
    ASSUME A!StoreConstants
    PROVE  A!Spec => []A!TypeOK
<1>1. AInv => A!TypeOK
  <2> SUFFICES ASSUME AInv PROVE A!TypeOK
    OBVIOUS
  <2>1. leftover <= MaxCrashes + Temporary /\ leftover \in Nat /\ MaxCrashes \in Nat
    BY DEF AInv, FilesTyped, A!StoreConstants, Cleaned, Temporary
  <2>2. A!Cardinality(Clients) \in Nat /\ Temporary <= A!Cardinality(Clients)
    BY FS_CardinalityType, CountsAgree, FS_EmptySet DEF A!StoreConstants, Temporary
  <2>3. leftover \in 0 .. (A!Cardinality(Clients) + MaxCrashes)
    BY <2>1, <2>2 DEF Temporary
  <2> QED
    BY <2>3 DEF AInv, FilesTyped, CallsTyped, A!TypeOK
<1> QED
  BY <1>1, StoreSafety, PTL

\* Every record that can be listed may be opened under a lock that may be opened, whoever dies between
\* the grants and the link (_grant_evidence_read, write_new_record).
THEOREM ListedAnalysesReadable ==
    ASSUME A!StoreConstants
    PROVE  A!Spec => []A!VisibleIsReadable
<1>1. AInv => A!VisibleIsReadable
  BY DEF AInv, Granted, A!VisibleIsReadable
<1> QED
  BY <1>1, StoreSafety, PTL

\* The exclusive creation never meets a file: two concurrent calls for one key are replayed or refused
\* by content, never by the link (store_analysis_capture).
THEOREM ConcurrentDuplicatesReplayed ==
    ASSUME A!StoreConstants
    PROVE  A!Spec => []A!DuplicatesAreReplayed
<1>1. AInv => A!DuplicatesAreReplayed
  BY DEF AInv, A!DuplicatesAreReplayed
<1> QED
  BY <1>1, StoreSafety, PTL

\* Every answer of a key is the record saved under it, so that no two answers differ.
THEOREM AnswersAreSaved ==
    ASSUME A!StoreConstants
    PROVE  A!Spec => []AnsweredAsSaved
<1>1. AInv => AnsweredAsSaved
  BY DEF AInv
<1> QED
  BY <1>1, StoreSafety, PTL

\* Only dead writers leave a temporary behind (write_new_record's unlink).
THEOREM LiveWritersCleanUp ==
    ASSUME A!StoreConstants
    PROVE  A!Spec => []A!TemporariesAreCleaned
<1>1. AInv => A!TemporariesAreCleaned
  <2> SUFFICES ASSUME AInv PROVE A!TemporariesAreCleaned
    OBVIOUS
  <2> DEFINE Writers == {c \in Clients : holder = c /\ pc[c] # "write"}
  <2>1. A!IsFiniteSet(Writers) /\ A!Cardinality(Writers) \in Nat
    BY FS_Subset, FS_CardinalityType, CountsAgree DEF A!StoreConstants
  <2>2. Temporary <= A!Cardinality(Writers)
    <3>1. CASE Temporary = 0
      BY <2>1, <3>1
    <3>2. CASE Temporary = 1
      <4>1. PICK c \in Clients : pc[c] \in {"guard", "link", "return"}
        BY <3>2 DEF Temporary
      <4>2. c \in Writers
        BY <4>1 DEF AInv, LockHeld, Inside
      <4>3. A!Cardinality(Writers) # 0
        BY <2>1, <4>2, FS_EmptySet, CountsAgree
      <4> QED
        BY <2>1, <3>2, <4>3
    <3> QED
      BY <3>1, <3>2 DEF Temporary
  <2>3. leftover \in Nat /\ crashes \in Nat /\ leftover <= crashes + Temporary /\ Temporary \in {0, 1}
    BY DEF AInv, FilesTyped, Cleaned, Temporary
  <2>4. leftover <= crashes + A!Cardinality(Writers)
    <3>1. \A l, m, n \in Nat, t \in {0, 1} : l <= m + t /\ t <= n => l <= m + n
      OBVIOUS
    <3> HIDE DEF Writers
    <3> QED
      BY <2>1, <2>2, <2>3, <3>1
  <2> QED
    BY <2>4 DEF A!TemporariesAreCleaned
<1> QED
  BY <1>1, StoreSafety, PTL

\* No record appears under a reader that keeps the lock (existing_read_lock).
THEOREM OneStatePerReader ==
    ASSUME A!StoreConstants
    PROVE  A!Spec => [][A!ReadersSeeOneState]_A!vars
<1>1. AInv /\ [A!Next]_A!vars => [A!ReadersSeeOneState]_A!vars
  <2> SUFFICES ASSUME AInv, A!Next, NEW r \in Readers, seen[r] # None
               PROVE  saved' = saved
    BY DEF A!ReadersSeeOneState, A!vars, A!store
  <2>1. holder = None
    BY DEF AInv, LockHeld
  <2>2. \A c \in Clients : pc[c] \notin Inside
    BY <2>1 DEF AInv, LockHeld, A!StoreConstants
  <2>3. ASSUME NEW c \in Clients, A!Ask(c) \/ A!Step(c) \/ A!Crash(c) PROVE saved' = saved
    <3>1. ~A!Link(c)
      BY <2>2 DEF A!Link, Inside
    <3>2. CASE A!Ask(c) \/ A!Crash(c)
      BY <3>2 DEF A!Ask, A!Crash, A!store
    <3>3. CASE A!Look(c) \/ A!Build(c) \/ A!Enter(c)
      BY <3>3 DEF A!Look, A!Build, A!Enter, A!store
    <3>4. CASE A!Write(c) \/ A!GrantLock(c) \/ A!Grant(c) \/ A!Guard(c) \/ A!Return(c)
      BY <3>4 DEF A!Write, A!GrantLock, A!Grant, A!Guard, A!Return
    <3> QED
      BY <2>3, <3>1, <3>2, <3>3, <3>4 DEF A!Step
  <2>4. ASSUME NEW q \in Readers, A!ReadLock(q) \/ A!ReadFile(q) \/ A!ReadUnlock(q) PROVE saved' = saved
    BY <2>4 DEF A!ReadLock, A!ReadFile, A!ReadUnlock, A!store
  <2> QED
    BY <2>3, <2>4 DEF A!Next
<1> QED
  BY <1>1, StoreSafety, PTL DEF A!Spec

-----------------------------------------------------------------------------
(* The two manual ledgers.                                                 *)

CONSTANTS
    Forecasts, Picks, Lines, Scores, Ids, Dates, Estimate, Whole

VARIABLES
    forecasts, picks, results, view, settledAtStart, history, told, atStart

L == INSTANCE CornerLedger
M == INSTANCE ForecastLedger

\* The forecast ledger counts its files as the library does.
LEMMA LedgerCountsAgree ==
    \A S : /\ M!IsFiniteSet(S) <=> IsFiniteSet(S)
           /\ M!Cardinality(S) = Cardinality(S)
BY Zenon DEF M!IsFiniteSet, IsFiniteSet, M!Cardinality, Cardinality


-----------------------------------------------------------------------------
(* The corner ledger.                                                      *)

\* A command past its checks has a saved forecast.
CommandsHold ==
    \A c \in Clients : call[c] # None =>
        /\ call[c].do = "pick" => call[c].pick \in L!Pick /\ call[c].pick.forecast \in L!Saved
        /\ call[c].do = "result" => call[c].forecast \in L!Saved /\ call[c].score \in Scores
        /\ call[c].do = "save" => call[c].fixture \in Fixtures

\* A summary has read what is on file: of what was settled when it began, the forecast it listed,
\* the pick once it has listed the picks, and the result unless that is still to be read.
Fits(v, begun) ==
    v # None =>
        /\ v.forecasts \subseteq L!Saved /\ v.left \subseteq v.forecasts
        /\ v.next = "done" => v.left = {}
        /\ \A f \in Forecasts : v.results[f] # None => v.results[f] = results[f]
        /\ \A p \in v.picks : p \in L!Recorded /\ picks[p].forecast \in v.forecasts
        /\ \A s \in begun :
              /\ s \in L!Settlements(results) /\ s.pick \in L!Recorded
              /\ picks[s.pick].forecast \in v.forecasts
              /\ v.next \in {"results", "done"} => s.pick \in v.picks
              /\ \/ picks[s.pick].forecast \in v.left
                 \/ v.results[picks[s.pick].forecast] = results[picks[s.pick].forecast]
ViewHolds(r) == Fits(view[r], settledAtStart[r])

\* What settled when a summary began is a set of settlements.
Listed == [pick : Picks, outcome : {"push", "win", "loss"}]
StartsTyped == settledAtStart \in [Readers -> SUBSET Listed]

\* The inductive invariant of the ledger.
LedgerInv == L!TypeOK /\ StartsTyped /\ L!LedgerLoads /\ CommandsHold /\ \A r \in Readers : ViewHolds(r)

\* A settlement is of a recorded pick whose forecast has a result.
LEMMA SettlementOf ==
    ASSUME L!TypeOK, NEW scores \in [Forecasts -> Scores \cup {None}]
    PROVE  \A s : s \in L!Settlements(scores) <=>
              \E p \in L!Recorded :
                 /\ picks[p] \in L!Pick /\ picks[p].forecast \in Forecasts /\ scores[picks[p].forecast] # None
                 /\ s = [pick |-> p, outcome |-> L!Settle(picks[p], scores[picks[p].forecast])]
BY DEF L!TypeOK, L!Recorded, L!Pick, L!Settlements

\* The books only grow: what a command writes leaves every record there is.
LedgerGrows ==
    /\ \A f \in L!Saved : forecasts'[f] = forecasts[f]
    /\ \A p \in L!Recorded : picks'[p] = picks[p]
    /\ \A f \in Forecasts : results[f] # None => results'[f] = results[f]

\* Beside a writer a summary still has read what is on file.
LEMMA ViewsStay ==
    ASSUME LedgerInv, L!TypeOK', LedgerGrows, UNCHANGED <<view, settledAtStart>>, NEW r \in Readers
    PROVE  ViewHolds(r)'
<1>1. L!Saved \subseteq L!Saved' /\ L!Recorded \subseteq L!Recorded'
  BY DEF LedgerGrows, L!Saved, L!Recorded
<1>2. \A p \in L!Recorded : picks[p] \in L!Pick /\ picks[p].forecast \in Forecasts
  BY DEF LedgerInv, L!TypeOK, L!Recorded, L!Pick
<1>3. \A s \in L!Settlements(results) : s \in L!Settlements(results)' /\ s.pick \in L!Recorded
  BY <1>1, <1>2, SettlementOf DEF LedgerInv, L!TypeOK, LedgerGrows, L!Settlements, L!Settle
<1> SUFFICES ASSUME view[r] # None
             PROVE  ViewHolds(r)'
  BY DEF ViewHolds, Fits
<1>4. ViewHolds(r)
  BY DEF LedgerInv
<1>5. \A s \in settledAtStart[r] :
         /\ s \in L!Settlements(results)' /\ s.pick \in L!Recorded' /\ picks'[s.pick] = picks[s.pick]
         /\ picks[s.pick].forecast \in Forecasts /\ results[picks[s.pick].forecast] # None
         /\ results'[picks[s.pick].forecast] = results[picks[s.pick].forecast]
  <2> SUFFICES ASSUME NEW s \in settledAtStart[r]
               PROVE  /\ s \in L!Settlements(results)' /\ s.pick \in L!Recorded' /\ picks'[s.pick] = picks[s.pick]
                      /\ picks[s.pick].forecast \in Forecasts /\ results[picks[s.pick].forecast] # None
                      /\ results'[picks[s.pick].forecast] = results[picks[s.pick].forecast]
    OBVIOUS
  <2>1. s \in L!Settlements(results) /\ s.pick \in L!Recorded
    BY <1>4 DEF ViewHolds, Fits
  <2>2. PICK p \in L!Recorded :
             /\ results[picks[p].forecast] # None
             /\ s = [pick |-> p, outcome |-> L!Settle(picks[p], results[picks[p].forecast])]
    BY <2>1, SettlementOf DEF LedgerInv, L!TypeOK
  <2>3. s.pick = p
    BY <2>2
  <2> QED
    BY <1>1, <1>2, <1>3, <2>1, <2>2, <2>3 DEF LedgerGrows
<1>6. \A p \in view[r].picks : p \in L!Recorded' /\ picks'[p].forecast \in view[r].forecasts
  BY <1>1, <1>4 DEF ViewHolds, Fits, LedgerGrows
<1>7. \A f \in Forecasts : view[r].results[f] # None => view[r].results[f] = results'[f]
  BY <1>4 DEF ViewHolds, Fits, LedgerGrows
<1> QED
  BY <1>1, <1>4, <1>5, <1>6, <1>7 DEF ViewHolds, Fits

\* The first state is empty.
LEMMA LedgerStarts ==
    ASSUME L!LedgerConstants, L!Init PROVE LedgerInv
<1>1. L!TypeOK
  BY DEF L!Init, L!TypeOK
<1>2. L!Saved = {} /\ L!Recorded = {}
  BY DEF L!Init, L!Saved, L!Recorded
<1>3. StartsTyped /\ L!LedgerLoads /\ CommandsHold /\ \A r \in Readers : ViewHolds(r)
  BY <1>2 DEF L!Init, StartsTyped, L!LedgerLoads, CommandsHold, ViewHolds, Fits
<1> QED
  BY <1>1, <1>3 DEF LedgerInv

\* A command that only checks, or ends without a record.
LEMMA CheckPreserves ==
    ASSUME L!LedgerConstants, LedgerInv, NEW c \in Clients,
           L!Save(c) \/ L!RecordPick(c) \/ L!RecordResult(c) \/ L!Abandon(c)
    PROVE  LedgerInv' /\ LedgerGrows
<1>1. UNCHANGED <<forecasts, picks, results, view, settledAtStart>>
  BY DEF L!Save, L!RecordPick, L!RecordResult, L!Abandon
<1>2. PICK command \in L!Call \cup {None} :
          /\ call' = [call EXCEPT ![c] = command]
          /\ command # None =>
                /\ command.do = "pick" => command.pick \in L!Pick /\ command.pick.forecast \in L!Saved
                /\ command.do = "result" => command.forecast \in L!Saved /\ command.score \in Scores
                /\ command.do = "save" => command.fixture \in Fixtures
  <2>1. CASE L!Save(c)
    BY <2>1 DEF L!Save, L!Begin, L!Call
  <2>2. CASE L!RecordPick(c)
    BY <2>2 DEF L!RecordPick, L!Begin, L!Call
  <2>3. CASE L!RecordResult(c)
    BY <2>3 DEF L!RecordResult, L!Begin, L!Call, L!Saved
  <2>4. CASE L!Abandon(c)
    BY <2>4 DEF L!Abandon, L!End
  <2> QED
    BY <2>1, <2>2, <2>3, <2>4
<1>3. L!TypeOK'
  BY <1>1, <1>2 DEF LedgerInv, L!TypeOK
<1>4. StartsTyped' /\ L!LedgerLoads' /\ LedgerGrows
  BY <1>1 DEF LedgerInv, StartsTyped, L!LedgerLoads, LedgerGrows, L!Saved, L!Recorded, L!SameLine
<1>5. CommandsHold'
  BY <1>1, <1>2 DEF LedgerInv, L!TypeOK, CommandsHold, L!Saved
<1>6. \A r \in Readers : ViewHolds(r)'
  BY <1>1, <1>3, <1>4, ViewsStay
<1> QED
  BY <1>3, <1>4, <1>5, <1>6 DEF LedgerInv

\* A command that ends with a record, or finds that it may not write one.
LEMMA CommitPreserves ==
    ASSUME L!LedgerConstants, LedgerInv, NEW c \in Clients, L!CommitSave(c) \/ L!CommitPick(c) \/ L!CommitResult(c)
    PROVE  LedgerInv' /\ LedgerGrows
<1>1. UNCHANGED <<view, settledAtStart>> /\ call' = [call EXCEPT ![c] = None]
      /\ call[c] # None /\ call[c] \in L!Call
  BY DEF L!CommitSave, L!CommitPick, L!CommitResult, L!End, LedgerInv, L!TypeOK
<1>2. L!TypeOK' /\ L!LedgerLoads' /\ LedgerGrows
  <2>1. CASE L!CommitSave(c)
    <3>1. call[c].fixture \in Fixtures /\ picks' = picks /\ results' = results
      BY <2>1 DEF L!CommitSave, LedgerInv, CommandsHold
    <3>2. CASE forecasts' = forecasts
      BY <1>1, <3>1, <3>2 DEF LedgerInv, L!TypeOK, L!LedgerLoads, LedgerGrows, L!Saved,
            L!Recorded, L!SameLine
    <3>3. CASE \E f \in Forecasts \ L!Saved : /\ forecasts' = [forecasts EXCEPT ![f] = call[c].fixture]
                                              /\ ~\E g \in L!Saved : forecasts[g] = call[c].fixture
      <4>1. PICK f \in Forecasts \ L!Saved : forecasts' = [forecasts EXCEPT ![f] = call[c].fixture]
        BY <3>3
      <4>2. L!TypeOK' /\ L!Saved' = L!Saved \cup {f} /\ L!Recorded' = L!Recorded
        BY <1>1, <3>1, <4>1 DEF L!LedgerConstants, LedgerInv, L!TypeOK, L!Saved, L!Recorded
      <4>3. \A g \in L!Saved : forecasts'[g] = forecasts[g] /\ forecasts[g] # forecasts'[f]
        BY <3>3, <4>1 DEF LedgerInv, L!TypeOK, L!Saved
      <4> QED
        BY <3>1, <4>2, <4>3 DEF LedgerInv, L!LedgerLoads, LedgerGrows, L!SameLine
    <3> QED
      BY <2>1, <3>2, <3>3 DEF L!CommitSave
  <2>2. CASE L!CommitPick(c)
    <3>1. /\ call[c].pick \in L!Pick /\ call[c].pick.forecast \in L!Saved
          /\ forecasts' = forecasts /\ results' = results
      BY <2>2 DEF L!CommitPick, LedgerInv, CommandsHold
    <3>2. CASE picks' = picks
      BY <1>1, <3>1, <3>2 DEF LedgerInv, L!TypeOK, L!LedgerLoads, LedgerGrows, L!Saved,
            L!Recorded, L!SameLine
    <3>3. CASE L!Pickable(call[c].pick) /\ \E p \in Picks \ L!Recorded : picks' = [picks EXCEPT ![p] = call[c].pick]
      <4>1. PICK p \in Picks \ L!Recorded : picks' = [picks EXCEPT ![p] = call[c].pick]
        BY <3>3
      <4>2. L!TypeOK' /\ L!Recorded' \subseteq L!Recorded \cup {p} /\ L!Saved' = L!Saved /\ picks'[p] = call[c].pick
        BY <1>1, <3>1, <4>1 DEF LedgerInv, L!TypeOK, L!Saved, L!Recorded
      <4>3. \A q \in L!Recorded : picks'[q] = picks[q]
        BY <4>1 DEF LedgerInv, L!TypeOK, L!Recorded
      <4>4. \A q \in L!Recorded : ~L!SameLine(q, call[c].pick)
        BY <3>3 DEF L!Pickable
      <4>5. \A q, o \in L!Recorded' : picks'[q].forecast \in L!Saved /\ (L!SameLine(q, picks[o])' => q = o)
        BY <3>1, <4>1, <4>2, <4>3, <4>4 DEF LedgerInv, L!LedgerLoads, L!SameLine
      <4> QED
        BY <3>1, <4>2, <4>3, <4>5 DEF LedgerInv, L!LedgerLoads, LedgerGrows
    <3> QED
      BY <2>2, <3>2, <3>3 DEF L!CommitPick
  <2>3. CASE L!CommitResult(c)
    <3>1. /\ call[c].forecast \in L!Saved /\ call[c].score \in Scores
          /\ forecasts' = forecasts /\ picks' = picks
      BY <2>3 DEF L!CommitResult, LedgerInv, CommandsHold
    <3>2. /\ results' \in [Forecasts -> Scores \cup {None}]
          /\ \A f \in Forecasts : /\ results[f] # None => results'[f] = results[f]
                                  /\ results'[f] # results[f] => f = call[c].forecast
      BY <2>3, <3>1 DEF L!CommitResult, LedgerInv, L!TypeOK
    <3> QED
      BY <1>1, <3>1, <3>2 DEF LedgerInv, L!TypeOK, L!LedgerLoads, LedgerGrows, L!Saved,
            L!Recorded, L!SameLine
  <2> QED
    BY <2>1, <2>2, <2>3
<1>3. CommandsHold'
  BY <1>1, <1>2 DEF LedgerGrows, L!Saved, LedgerInv, L!TypeOK, CommandsHold
<1>4. \A r \in Readers : ViewHolds(r)'
  BY <1>1, <1>2, ViewsStay
<1> QED
  BY <1>1, <1>2, <1>3, <1>4 DEF LedgerInv, StartsTyped

\* One summary moves, to what fits the books.
LEMMA OneSummary ==
    ASSUME LedgerInv, NEW r \in Readers, NEW v \in L!View \cup {None}, NEW S \in SUBSET Listed,
           view' = [view EXCEPT ![r] = v], settledAtStart' = [settledAtStart EXCEPT ![r] = S],
           UNCHANGED <<forecasts, picks, results, call>>, Fits(v, S)
    PROVE  LedgerInv'
<1>1. L!TypeOK' /\ StartsTyped'
  BY DEF LedgerInv, L!TypeOK, StartsTyped
<1>2. L!Saved' = L!Saved /\ L!Recorded' = L!Recorded /\ L!Settlements(results)' = L!Settlements(results)
  BY DEF L!Saved, L!Recorded, L!Settlements, L!Settle
<1>3. L!LedgerLoads' /\ CommandsHold'
  BY <1>2 DEF LedgerInv, L!LedgerLoads, CommandsHold, L!SameLine
<1>4. ASSUME NEW q \in Readers PROVE ViewHolds(q)'
  BY <1>2 DEF LedgerInv, L!TypeOK, StartsTyped, ViewHolds, Fits
<1> QED
  BY <1>1, <1>3, <1>4 DEF LedgerInv

\* One summary reads; the books stay.
LEMMA ReadPreserves ==
    ASSUME L!LedgerConstants, LedgerInv, NEW r \in Readers,
           L!ListForecasts(r) \/ L!ListPicks(r) \/ L!ReadResult(r) \/ L!PrintSummary(r)
    PROVE  LedgerInv' /\ LedgerGrows
<1>1. UNCHANGED <<forecasts, picks, results, call>> /\ LedgerGrows
  BY DEF L!ListForecasts, L!ListPicks, L!ReadResult, L!PrintSummary, LedgerGrows
<1>2. view[r] # None => view[r] \in L!View /\ Fits(view[r], settledAtStart[r])
  BY DEF LedgerInv, L!TypeOK, ViewHolds
<1>3. settledAtStart[r] \in SUBSET Listed /\ settledAtStart = [settledAtStart EXCEPT ![r] = settledAtStart[r]]
  BY DEF LedgerInv, StartsTyped
<1>4. CASE L!ListForecasts(r)
  <2> DEFINE v == [forecasts |-> L!Saved, picks |-> {}, next |-> "picks", left |-> L!Saved,
                   results |-> [f \in Forecasts |-> None]]
  <2>1. v \in L!View /\ v.forecasts = L!Saved /\ v.picks = {} /\ v.next = "picks" /\ v.left = L!Saved
        /\ \A f \in Forecasts : v.results[f] = None
    BY DEF L!View, L!Saved
  <2>2. view' = [view EXCEPT ![r] = v] /\ settledAtStart' = [settledAtStart EXCEPT ![r] = L!Settlements(results)]
    BY <1>4 DEF L!ListForecasts
  <2>3. L!Settlements(results) \in SUBSET Listed
    BY DEF L!Settlements, L!Settle, L!Recorded, Listed
  <2>4. \A s \in L!Settlements(results) : s.pick \in L!Recorded /\ picks[s.pick].forecast \in L!Saved
    BY SettlementOf DEF LedgerInv, L!TypeOK, L!LedgerLoads
  <2> HIDE DEF v
  <2>5. Fits(v, L!Settlements(results))
    BY <2>1, <2>4 DEF Fits
  <2> QED
    BY <1>1, <2>1, <2>2, <2>3, <2>5, OneSummary
<1>5. CASE L!ListPicks(r) /\ \E p \in L!Recorded : picks[p].forecast \notin view[r].forecasts
  <2> DEFINE v == [view[r] EXCEPT !.next = "failed"]
  <2>1. view[r] # None /\ settledAtStart' = settledAtStart /\ view' = [view EXCEPT ![r] = v]
    BY <1>5 DEF L!ListPicks
  <2>2. /\ v \in L!View /\ v.forecasts = view[r].forecasts /\ v.picks = view[r].picks /\ v.next = "failed"
        /\ v.left = view[r].left /\ v.results = view[r].results
    BY <1>2, <2>1 DEF L!View
  <2> HIDE DEF v
  <2>3. Fits(v, settledAtStart[r])
    BY <1>2, <2>1, <2>2 DEF Fits
  <2> QED
    BY <1>1, <1>3, <2>1, <2>2, <2>3, OneSummary
<1>6. CASE L!ListPicks(r) /\ ~\E p \in L!Recorded : picks[p].forecast \notin view[r].forecasts
  <2> DEFINE v == [view[r] EXCEPT !.next = "results", !.picks = L!Recorded]
  <2>1. view[r] # None /\ settledAtStart' = settledAtStart /\ view' = [view EXCEPT ![r] = v]
    BY <1>6 DEF L!ListPicks
  <2>2. /\ v \in L!View /\ v.forecasts = view[r].forecasts /\ v.picks = L!Recorded /\ v.next = "results"
        /\ v.left = view[r].left /\ v.results = view[r].results
    BY <1>2, <2>1 DEF L!View, L!Recorded
  <2> HIDE DEF v
  <2>3. Fits(v, settledAtStart[r])
    BY <1>2, <1>6, <2>1, <2>2 DEF Fits
  <2> QED
    BY <1>1, <1>3, <2>1, <2>2, <2>3, OneSummary
<1>7. CASE L!ReadResult(r)
  <2>1. view[r] # None /\ view[r] \in L!View /\ view[r].next = "results" /\ settledAtStart' = settledAtStart
    BY <1>2, <1>7 DEF L!ReadResult
  <2>2. CASE \E f \in view[r].left :
                view' = [view EXCEPT ![r].left = @ \ {f}, ![r].results[f] = results[f]]
    <3>1. PICK f \in view[r].left :
                view' = [view EXCEPT ![r].left = @ \ {f}, ![r].results[f] = results[f]]
      BY <2>2
    <3> DEFINE v == [view[r] EXCEPT !.left = @ \ {f}, !.results[f] = results[f]]
    <3>2. view' = [view EXCEPT ![r] = v]
      BY <3>1
    <3>3. f \in Forecasts /\ results[f] \in Scores \cup {None}
      BY <2>1 DEF L!View, LedgerInv, L!TypeOK
    <3>4. /\ v \in L!View /\ v.forecasts = view[r].forecasts /\ v.picks = view[r].picks /\ v.next = "results"
          /\ v.left = view[r].left \ {f} /\ v.results = [view[r].results EXCEPT ![f] = results[f]]
      BY <2>1, <3>3 DEF L!View
    <3>5. view[r].results \in [Forecasts -> Scores \cup {None}]
      BY <2>1 DEF L!View
    <3> HIDE DEF v
    <3>6. /\ v.results[f] = results[f]
          /\ \A g \in Forecasts : g # f => v.results[g] = view[r].results[g]
      BY <3>3, <3>4, <3>5
    <3>7. \A s \in settledAtStart[r] : picks[s.pick].forecast \in Forecasts
      BY <1>2, <2>1 DEF Fits, L!Saved
    <3>8. Fits(v, settledAtStart[r])
      BY <1>2, <2>1, <3>3, <3>4, <3>6, <3>7 DEF Fits
    <3> QED
      BY <1>1, <1>3, <2>1, <3>2, <3>4, <3>8, OneSummary
  <2>3. CASE view[r].left = {} /\ view' = [view EXCEPT ![r].next = "done"]
    <3> DEFINE v == [view[r] EXCEPT !.next = "done"]
    <3>1. view' = [view EXCEPT ![r] = v]
      BY <2>3
    <3>2. /\ v \in L!View /\ v.forecasts = view[r].forecasts /\ v.picks = view[r].picks /\ v.next = "done"
          /\ v.left = {} /\ v.results = view[r].results
      BY <2>1, <2>3 DEF L!View
    <3> HIDE DEF v
    <3>3. Fits(v, settledAtStart[r])
      BY <1>2, <2>1, <2>3, <3>2 DEF Fits
    <3> QED
      BY <1>1, <1>3, <2>1, <3>1, <3>2, <3>3, OneSummary
  <2> QED
    BY <1>7, <2>2, <2>3 DEF L!ReadResult
<1>8. CASE L!PrintSummary(r)
  <2>1. Fits(None, {})
    BY DEF Fits
  <2> QED
    BY <1>1, <1>8, <2>1, OneSummary DEF L!PrintSummary
<1> QED
  BY <1>4, <1>5, <1>6, <1>7, <1>8

\* The inductive invariant of the corner ledger: checks made before the lock are made again under
\* it, records stay, and a summary has read what is on file.
THEOREM LedgerSafety ==
    ASSUME L!LedgerConstants
    PROVE  L!Spec => []LedgerInv
<1>1. L!Init => LedgerInv
  BY LedgerStarts
<1>2. LedgerInv /\ [L!Next]_L!vars => LedgerInv'
  <2> SUFFICES ASSUME LedgerInv, [L!Next]_L!vars PROVE LedgerInv'
    OBVIOUS
  <2>1. ASSUME NEW c \in Clients,
               L!Save(c) \/ L!CommitSave(c) \/ L!RecordPick(c) \/ L!CommitPick(c)
               \/ L!RecordResult(c) \/ L!CommitResult(c) \/ L!Abandon(c)
        PROVE  LedgerInv'
    BY <2>1, CheckPreserves, CommitPreserves
  <2>2. ASSUME NEW r \in Readers, L!ListForecasts(r) \/ L!ListPicks(r) \/ L!ReadResult(r) \/ L!PrintSummary(r)
        PROVE  LedgerInv'
    BY <2>2, ReadPreserves
  <2>3. CASE UNCHANGED L!vars
    <3>1. L!TypeOK' /\ LedgerGrows /\ UNCHANGED <<view, settledAtStart>>
      BY <2>3 DEF L!vars, LedgerInv, L!TypeOK, LedgerGrows
    <3>2. \A r \in Readers : ViewHolds(r)'
      BY <3>1, ViewsStay
    <3> QED
      BY <2>3, <3>1, <3>2 DEF L!vars, LedgerInv, StartsTyped, L!LedgerLoads, CommandsHold,
            L!SameLine, L!Saved, L!Recorded
  <2> QED
    BY <2>1, <2>2, <2>3 DEF L!Next
<1> QED
  BY <1>1, <1>2, PTL DEF L!Spec

\* Every file that is read has its type.
THEOREM LedgerTypeCorrect ==
    ASSUME L!LedgerConstants
    PROVE  L!Spec => []L!TypeOK
BY LedgerSafety, PTL DEF LedgerInv

\* Every locked command and every summary loads: one forecast per fixture, no pick or result
\* without its forecast, one pick per team and line (record_corner_pick and its callers).
THEOREM LedgerAlwaysLoads ==
    ASSUME L!LedgerConstants
    PROVE  L!Spec => []L!LedgerLoads
BY LedgerSafety, PTL DEF LedgerInv

\* The result of a fixture closes its book, although picks and other scores were under way
\* (record_corner_result).
THEOREM ResultClosesTheBook ==
    ASSUME L!LedgerConstants
    PROVE  L!Spec => [][L!SettlementsAreFinal]_L!vars
<1>1. LedgerInv /\ [L!Next]_L!vars => [L!SettlementsAreFinal]_L!vars
  <2> SUFFICES ASSUME LedgerInv, [L!Next]_L!vars PROVE L!SettlementsAreFinal \/ UNCHANGED L!vars
    OBVIOUS
  <2>1. ASSUME LedgerGrows, picks' = picks PROVE L!SettlementsAreFinal
    BY <2>1 DEF L!Recorded, LedgerGrows, L!SettlementsAreFinal
  <2>2. ASSUME NEW c \in Clients, L!CommitPick(c) PROVE L!SettlementsAreFinal
    BY <2>1, <2>2, CommitPreserves DEF L!CommitPick, L!Pickable, LedgerInv, L!TypeOK, L!SettlementsAreFinal,
       L!Recorded
  <2>3. ASSUME NEW c \in Clients,
               L!Save(c) \/ L!CommitSave(c) \/ L!RecordPick(c) \/ L!RecordResult(c) \/ L!CommitResult(c) \/ L!Abandon(c)
        PROVE  L!SettlementsAreFinal
    <3>1. LedgerGrows
      BY <2>3, CheckPreserves, CommitPreserves
    <3> QED
      BY <2>1, <2>3, <3>1 DEF L!Save, L!CommitSave, L!RecordPick, L!RecordResult, L!CommitResult,
            L!Abandon
  <2>4. ASSUME NEW r \in Readers, L!ListForecasts(r) \/ L!ListPicks(r) \/ L!ReadResult(r) \/ L!PrintSummary(r)
        PROVE  L!SettlementsAreFinal
    BY <2>1, <2>4, ReadPreserves DEF L!ListForecasts, L!ListPicks, L!ReadResult, L!PrintSummary
  <2> QED
    BY <2>2, <2>3, <2>4 DEF L!Next
<1> QED
  BY <1>1, LedgerSafety, PTL DEF L!Spec

\* A summary that prints counts what was settled when it began and nothing that is not settled
\* now, although it reads file after file beside the writers (corner_ledger_summary).
THEOREM SummariesAreBracketed ==
    ASSUME L!LedgerConstants
    PROVE  L!Spec => []L!SummaryIsBracketed
<1>1. LedgerInv => L!SummaryIsBracketed
  <2> SUFFICES ASSUME LedgerInv, NEW r \in Readers, view[r] # None, view[r].next = "done"
               PROVE  /\ settledAtStart[r] \subseteq L!Counted(r)
                      /\ L!Counted(r) \subseteq L!Settlements(results)
                      /\ \A s \in L!Counted(r) : picks[s.pick].forecast \in view[r].forecasts
    BY DEF L!SummaryIsBracketed
  <2> DEFINE known == view[r].results
  <2>1. Fits(view[r], settledAtStart[r]) /\ known \in [Forecasts -> Scores \cup {None}] /\ L!TypeOK
        /\ results \in [Forecasts -> Scores \cup {None}]
    BY DEF LedgerInv, ViewHolds, L!TypeOK, L!View
  <2>2. \A s : s \in L!Settlements(known) <=>
              \E p \in L!Recorded :
                 /\ picks[p] \in L!Pick /\ picks[p].forecast \in Forecasts /\ known[picks[p].forecast] # None
                 /\ s = [pick |-> p, outcome |-> L!Settle(picks[p], known[picks[p].forecast])]
    BY <2>1, SettlementOf
  <2>3. \A s : s \in L!Settlements(results) <=>
              \E p \in L!Recorded :
                 /\ picks[p] \in L!Pick /\ picks[p].forecast \in Forecasts /\ results[picks[p].forecast] # None
                 /\ s = [pick |-> p, outcome |-> L!Settle(picks[p], results[picks[p].forecast])]
    BY <2>1, SettlementOf
  <2>4. \A f \in Forecasts : known[f] # None => known[f] = results[f]
    BY <2>1 DEF Fits
  <2>5. ASSUME NEW s \in settledAtStart[r] PROVE s \in L!Counted(r)
    BY <2>1, <2>2, <2>3, <2>5 DEF Fits, L!Counted
  <2>6. L!Counted(r) \subseteq L!Settlements(results)
    BY <2>2, <2>3, <2>4 DEF L!Counted
  <2>7. \A s \in L!Counted(r) : picks[s.pick].forecast \in view[r].forecasts
    BY <2>1 DEF L!Counted, Fits
  <2> QED
    BY <2>5, <2>6, <2>7
<1> QED
  BY <1>1, LedgerSafety, PTL

-----------------------------------------------------------------------------
(* The forecast ledger.                                                    *)

\* A command under way, and what a summary has read.
Step == [do : {"hash"}, fixture : Fixtures, used : M!Played, probabilities : [M!Outcomes -> 0 .. Whole]]
        \cup [do : {"save"}, record : M!Forecast]
        \cup [do : {"link"}, forecast : Ids, result : M!Scored]
Read == [saved : SUBSET Ids, left : SUBSET Ids, completed : [Ids -> M!Scored \cup {None}], failed : BOOLEAN]

\* The variables have their types.
ForecastsTyped ==
    /\ history \in M!Played
    /\ forecasts \in [Ids -> M!Forecast \cup {None}]
    /\ results \in [Ids -> M!Scored \cup {None}]
    /\ call \in [Clients -> Step \cup {None}]
    /\ view \in [Readers -> Read \cup {None}]
    /\ told \subseteq Ids \X Scores /\ atStart \in [Readers -> SUBSET Ids]

\* What is predicted for a match from these earlier ones.
Predicted(x, used, probabilities) ==
    (\A m \in used : Dates[m] < Dates[x]) /\ probabilities = Estimate[M!Cardinality(used)]
Sound(record) ==
    Predicted(record.fixture, record.used, record.probabilities) /\ record.used \subseteq record.sources

\* A command holds what its match's strictly earlier history predicts, or a score of what is saved.
StepFits(s) ==
    s # None =>
        /\ s.do = "hash" => Predicted(s.fixture, s.used, s.probabilities) /\ s.used \subseteq history
        /\ s.do = "save" => Sound(s.record)
        /\ s.do = "link" => s.forecast \in M!Saved /\ s.result = M!Score(s.forecast, s.result.score)
StepsHold == \A c \in Clients : StepFits(call[c])

\* What is saved was predicted so, once per match, and is scored by its own probabilities.
FilesHold ==
    /\ \A f \in M!Saved : Sound(forecasts[f])
    /\ \A f, g \in M!Saved : f # g => forecasts[f].fixture # forecasts[g].fixture
    /\ \A f \in Ids : results[f] # None => f \in M!Saved /\ results[f] = M!Score(f, results[f].score)

\* A summary has read what is on file, and all that was scored when it began unless still to read.
Agrees(v, begun) ==
    v # None =>
        /\ ~v.failed /\ v.saved \subseteq M!Saved /\ v.left \subseteq v.saved
        /\ \A f \in Ids : v.completed[f] # None => v.completed[f] = results[f]
        /\ \A f \in begun : results[f] # None /\ f \in v.saved /\ (f \in v.left \/ v.completed[f] = results[f])
SummariesHold == \A r \in Readers : Agrees(view[r], atStart[r])

\* The inductive invariant of the forecast ledger.
ForecastInv == ForecastsTyped /\ StepsHold /\ FilesHold /\ SummariesHold /\ M!OneResult

\* A square is not larger than the square of its bound.
LEMMA SquareBound ==
    \A w \in Nat : \A a \in 0 .. w, b \in {0, w} : (a - b) * (a - b) \in 0 .. w * w
<1> SUFFICES ASSUME NEW w \in Nat, NEW a \in 0 .. w, NEW b \in {0, w}
             PROVE  (a - b) * (a - b) \in 0 .. w * w
  OBVIOUS
<1>1. PICK e \in 0 .. w : a - b = e \/ a - b = -e
  OBVIOUS
<1>2. (a - b) * (a - b) = e * e
  BY <1>1
<1>3. e * e >= 0 /\ e * e <= e * w /\ e * w <= w * w
  OBVIOUS
<1> QED
  BY <1>2, <1>3

\* A score is typed when its probabilities are.
LEMMA ScoreTyped ==
    ASSUME M!ForecastConstants, NEW f \in Ids, forecasts[f] \in M!Forecast, NEW score \in Scores
    PROVE  M!Score(f, score) \in M!Scored /\ M!Score(f, score).score = score
<1> DEFINE p == forecasts[f].probabilities
           o == M!Outcome(score)
           e(x) == p[x] - IF x = o THEN Whole ELSE 0
<1>1. p \in [M!Outcomes -> 0 .. Whole] /\ Whole \in Nat /\ o \in M!Outcomes
  BY DEF M!ForecastConstants, M!Forecast, M!Outcome, M!Outcomes
<1>2. \A x \in M!Outcomes : e(x) * e(x) \in 0 .. Whole * Whole
  <2> SUFFICES ASSUME NEW x \in M!Outcomes PROVE e(x) * e(x) \in 0 .. Whole * Whole
    OBVIOUS
  <2>1. p[x] \in 0 .. Whole /\ (IF x = o THEN Whole ELSE 0) \in {0, Whole}
    BY <1>1
  <2> HIDE DEF p, o
  <2> QED
    BY <1>1, <2>1, SquareBound
<1>3. M!Brier(p, o) = e("home") * e("home") + e("draw") * e("draw") + e("away") * e("away")
  BY DEF M!Brier
<1>4. \A w, a, b, c \in Nat : a \in 0 .. w /\ b \in 0 .. w /\ c \in 0 .. w => a + b + c \in 0 .. 3 * w
  OBVIOUS
<1>5. Whole * Whole \in Nat /\ 3 * Whole * Whole = 3 * (Whole * Whole)
  BY <1>1
<1>6. M!Brier(p, o) \in 0 .. 3 * Whole * Whole
  <2>1. e("home") * e("home") \in 0 .. Whole * Whole /\ e("draw") * e("draw") \in 0 .. Whole * Whole
        /\ e("away") * e("away") \in 0 .. Whole * Whole
    BY <1>2 DEF M!Outcomes
  <2> HIDE DEF e, p, o
  <2> QED
    BY <1>3, <1>4, <1>5, <2>1
<1> QED
  BY <1>1, <1>6 DEF M!Score, M!Scored

\* Files only grow.
FilesGrow ==
    /\ history \subseteq history'
    /\ \A f \in M!Saved : forecasts'[f] = forecasts[f]
    /\ \A f \in Ids : results[f] # None => results'[f] = results[f]

\* What a command holds, and what a summary has read, stays true while files grow.
LEMMA HeldStays ==
    ASSUME M!ForecastConstants, ForecastInv, FilesGrow
    PROVE  /\ M!Saved \subseteq M!Saved'
           /\ \A f \in M!Saved : \A score : M!Score(f, score)' = M!Score(f, score)
           /\ \A s \in Step \cup {None} : StepFits(s) => StepFits(s)'
           /\ \A v \in Read \cup {None} : \A begun \in SUBSET Ids : Agrees(v, begun) => Agrees(v, begun)'
<1>1. M!Saved \subseteq M!Saved'
  BY DEF FilesGrow, M!Saved
<1>2. \A f \in M!Saved : \A score : M!Score(f, score)' = M!Score(f, score)
  BY DEF FilesGrow, M!Score, M!Brier, M!Outcome
<1>3. ASSUME NEW s \in Step \cup {None}, StepFits(s) PROVE StepFits(s)'
  BY <1>1, <1>2, <1>3 DEF StepFits, FilesGrow, Predicted, Sound
<1>4. ASSUME NEW v \in Read \cup {None}, NEW begun \in SUBSET Ids, Agrees(v, begun)
      PROVE  Agrees(v, begun)'
  BY <1>1, <1>4 DEF Agrees, FilesGrow
<1> QED
  BY <1>1, <1>2, <1>3, <1>4

\* A command moves, and what it writes fits.
LEMMA OneCommand ==
    ASSUME M!ForecastConstants, ForecastInv, FilesGrow, UNCHANGED <<view, atStart>>,
           NEW c \in Clients, NEW s \in Step \cup {None}, call' = [call EXCEPT ![c] = s], StepFits(s)',
           history' \in M!Played, forecasts' \in [Ids -> M!Forecast \cup {None}],
           results' \in [Ids -> M!Scored \cup {None}], told' \subseteq Ids \X Scores,
           FilesHold', M!OneResult'
    PROVE  ForecastInv'
<1>1. ForecastsTyped'
  BY DEF ForecastInv, ForecastsTyped
<1>2. StepsHold'
  BY HeldStays DEF StepsHold, ForecastInv, ForecastsTyped, StepFits
<1>3. SummariesHold'
  <2> SUFFICES ASSUME NEW r \in Readers PROVE Agrees(view[r], atStart[r])'
    BY DEF SummariesHold
  <2>1. PICK v \in Read \cup {None}, begun \in SUBSET Ids :
           v = view[r] /\ begun = atStart[r] /\ Agrees(v, begun)
    BY DEF ForecastInv, ForecastsTyped, SummariesHold
  <2>2. Agrees(v, begun)'
    BY <2>1, HeldStays
  <2> QED
    BY <2>1, <2>2 DEF Agrees
<1> QED
  BY <1>1, <1>2, <1>3 DEF ForecastInv

\* Nothing written: the files and what was told hold as before.
LEMMA SameFiles ==
    ASSUME ForecastInv, UNCHANGED <<forecasts, results, told>>, history \subseteq history'
    PROVE  FilesGrow /\ FilesHold' /\ M!OneResult'
<1>1. M!Saved' = M!Saved /\ \A f, score : M!Score(f, score)' = M!Score(f, score)
  BY DEF M!Saved, M!Score, M!Brier, M!Outcome
<1> QED
  BY <1>1 DEF ForecastInv, FilesHold, M!OneResult, FilesGrow, Sound, Predicted

\* The first state is empty.
LEMMA ForecastsStart ==
    ASSUME M!ForecastConstants, M!Init PROVE ForecastInv
<1>1. ForecastsTyped
  BY DEF M!Init, ForecastsTyped, M!Played
<1>2. M!Saved = {}
  BY DEF M!Init, M!Saved
<1> QED
  BY <1>1, <1>2 DEF M!Init, ForecastInv, StepsHold, StepFits, FilesHold, SummariesHold, Agrees,
        M!OneResult

\* A match is played: it does not enter what was used before.
LEMMA PlayPreserves ==
    ASSUME M!ForecastConstants, ForecastInv, NEW x \in Fixtures, M!Play(x) PROVE ForecastInv' /\ FilesGrow
<1>1. history \subseteq history' /\ history' \in M!Played /\ UNCHANGED <<forecasts, results, call, view, told, atStart>>
  BY DEF M!Play, ForecastInv, ForecastsTyped, M!Played
<1>2. FilesGrow /\ FilesHold' /\ M!OneResult'
  BY <1>1, SameFiles
<1>3. ForecastsTyped'
  BY <1>1 DEF ForecastInv, ForecastsTyped
<1>4. StepsHold'
  BY <1>1, <1>2, HeldStays DEF StepsHold, ForecastInv, ForecastsTyped, StepFits
<1>5. SummariesHold'
  BY <1>1 DEF M!Saved, ForecastInv, SummariesHold, Agrees
<1> QED
  BY <1>2, <1>3, <1>4, <1>5 DEF ForecastInv

\* A prediction is made from the strictly earlier matches, its files are hashed afterwards, and it
\* is saved if the match has none.
LEMMA PredictionPreserves ==
    ASSUME M!ForecastConstants, ForecastInv, NEW c \in Clients,
           (\E x \in Fixtures : M!Predict(c, x)) \/ M!Hash(c) \/ M!Save(c)
    PROVE  ForecastInv' /\ FilesGrow
<1>1. history' = history /\ UNCHANGED <<results, view, told, atStart>>
  BY DEF M!Predict, M!Hash, M!Save, M!files
<1>2. history \in M!Played /\ forecasts \in [Ids -> M!Forecast \cup {None}] /\ results \in [Ids -> M!Scored \cup {None}]
      /\ told \subseteq Ids \X Scores /\ call[c] \in Step \cup {None} /\ StepFits(call[c])
  BY DEF ForecastInv, ForecastsTyped, StepsHold
<1>3. ASSUME NEW x \in Fixtures, M!Predict(c, x) PROVE ForecastInv' /\ FilesGrow
  <2> DEFINE used == M!Eligible(x)
             s == [do |-> "hash", fixture |-> x, used |-> used, probabilities |-> Estimate[M!Cardinality(used)]]
  <2>1. used \in M!Played /\ used \subseteq history /\ \A m \in used : Dates[m] < Dates[x]
    BY <1>2 DEF M!Eligible, M!Played
  <2>2. M!Cardinality(used) \in 0 .. M!Cardinality(Fixtures)
    BY <2>1, FS_Subset, LedgerCountsAgree, FS_CardinalityType DEF M!ForecastConstants, M!Played
  <2>3. Estimate[M!Cardinality(used)] \in [M!Outcomes -> 0 .. Whole]
    BY <2>2 DEF M!ForecastConstants, M!Distribution
  <2>4. s \in Step /\ s.do = "hash" /\ s.fixture = x /\ s.used = used
        /\ s.probabilities = Estimate[M!Cardinality(used)]
    BY <2>1, <2>3 DEF Step
  <2>5. call' = [call EXCEPT ![c] = s] /\ UNCHANGED forecasts
    BY <1>3 DEF M!Predict, M!Goto, M!files
  <2> HIDE DEF used, s
  <2>6. FilesGrow /\ FilesHold' /\ M!OneResult'
    BY <1>1, <2>5, SameFiles
  <2>7. PICK k \in Step : k = s
    BY <2>4
  <2>8. StepFits(k)'
    BY <1>1, <2>1, <2>4, <2>7 DEF StepFits, Predicted
  <2> QED
    BY <1>1, <1>2, <2>5, <2>6, <2>7, <2>8, OneCommand
<1>4. CASE M!Hash(c)
  <2> DEFINE m == [fixture |-> call[c].fixture, used |-> call[c].used, sources |-> history,
                   probabilities |-> call[c].probabilities]
             s == [do |-> "save", record |-> m]
  <2>1. call[c] # None /\ call[c].do = "hash" /\ call[c] \in Step
    BY <1>2, <1>4 DEF M!Hash, M!Doing
  <2>2. /\ m \in M!Forecast /\ m.fixture = call[c].fixture /\ m.used = call[c].used
        /\ m.sources = history /\ m.probabilities = call[c].probabilities
    BY <1>2, <2>1 DEF Step, M!Forecast
  <2>3. call' = [call EXCEPT ![c] = s] /\ UNCHANGED forecasts
    BY <1>4 DEF M!Hash, M!Goto, M!files
  <2>4. Sound(m)
    BY <1>2, <2>1, <2>2 DEF Sound, StepFits
  <2> HIDE DEF m
  <2>5. s \in Step /\ s.do = "save" /\ s.record = m
    BY <2>2 DEF Step
  <2> HIDE DEF s
  <2>6. FilesGrow /\ FilesHold' /\ M!OneResult'
    BY <1>1, <2>3, SameFiles
  <2>7. PICK k \in Step, n \in M!Forecast : k = s /\ n = m
    BY <2>2, <2>5
  <2>8. StepFits(k)'
    BY <2>4, <2>5, <2>7 DEF StepFits, Sound, Predicted
  <2> QED
    BY <1>1, <1>2, <2>3, <2>6, <2>7, <2>8, OneCommand
<1>5. CASE M!Save(c)
  <2>1. call[c] # None /\ call[c].do = "save" /\ call[c] \in Step /\ call' = [call EXCEPT ![c] = None]
    BY <1>2, <1>5 DEF M!Save, M!Doing, M!End, M!Goto
  <2>2. call[c].record \in M!Forecast /\ Sound(call[c].record)
    BY <1>2, <2>1 DEF Step, StepFits
  <2>3. StepFits(None)'
    BY DEF StepFits
  <2>4. CASE forecasts' = forecasts
    BY <1>1, <1>2, <2>1, <2>3, <2>4, SameFiles, OneCommand
  <2>5. CASE /\ M!Unforecast(call[c].record.fixture)
             /\ \E f \in Ids \ M!Saved : forecasts' = [forecasts EXCEPT ![f] = call[c].record]
    <3>1. PICK f \in Ids \ M!Saved : forecasts' = [forecasts EXCEPT ![f] = call[c].record]
      BY <2>5
    <3>2. PICK m \in M!Forecast : m = call[c].record
      BY <2>2
    <3>3. forecasts' \in [Ids -> M!Forecast \cup {None}] /\ forecasts'[f] = m
          /\ \A g \in M!Saved : forecasts'[g] = forecasts[g]
      BY <1>2, <3>1, <3>2 DEF M!Saved
    <3>4. FilesGrow /\ M!Saved \subseteq M!Saved' /\ M!Saved' \subseteq M!Saved \cup {f}
      BY <1>1, <1>2, <3>1, <3>3 DEF FilesGrow, M!Saved
    <3>5. \A g \in M!Saved : \A score : M!Score(g, score)' = M!Score(g, score)
      BY <3>4, HeldStays
    <3>6. FilesHold'
      <4>1. \A g \in M!Saved' : Sound(forecasts'[g])
        BY <2>2, <3>2, <3>3, <3>4 DEF ForecastInv, FilesHold
      <4>2. \A g, h \in M!Saved' : g # h => forecasts'[g].fixture # forecasts'[h].fixture
        BY <2>5, <3>2, <3>3, <3>4 DEF ForecastInv, FilesHold, M!Unforecast
      <4>3. \A g \in Ids : results'[g] # None => g \in M!Saved' /\ results'[g] = M!Score(g, results[g].score)'
        BY <1>1, <3>4, <3>5 DEF ForecastInv, FilesHold
      <4> QED
        BY <4>1, <4>2, <4>3 DEF FilesHold, Sound, Predicted
    <3>7. M!OneResult'
      BY <1>1 DEF ForecastInv, M!OneResult
    <3> QED
      BY <1>1, <1>2, <2>1, <2>3, <3>3, <3>4, <3>6, <3>7, OneCommand
  <2> QED
    BY <1>5, <2>4, <2>5 DEF M!Save
<1> QED
  BY <1>3, <1>4, <1>5

\* A result is scored from the saved probabilities; whoever links second is refused.
LEMMA ResultPreserves ==
    ASSUME M!ForecastConstants, ForecastInv, NEW c \in Clients,
           \/ \E f \in Ids, score \in Scores : M!Record(c, f, score)
           \/ M!Link(c) \/ M!Stop(c)
    PROVE  ForecastInv' /\ FilesGrow
<1>1. history' = history /\ UNCHANGED <<forecasts, view, atStart>> /\ M!Saved' = M!Saved
  BY DEF M!Record, M!Link, M!Stop, M!files, M!Saved
<1>2. history \in M!Played /\ forecasts \in [Ids -> M!Forecast \cup {None}] /\ results \in [Ids -> M!Scored \cup {None}]
      /\ told \subseteq Ids \X Scores /\ call[c] \in Step \cup {None} /\ StepFits(call[c])
      /\ call \in [Clients -> Step \cup {None}]
  BY DEF ForecastInv, ForecastsTyped, StepsHold
<1>3. \A f, score : M!Score(f, score)' = M!Score(f, score)
  BY <1>1 DEF M!Score, M!Brier, M!Outcome
<1>4. StepFits(None)'
  BY DEF StepFits
<1>5. ASSUME NEW f \in Ids, NEW score \in Scores, M!Record(c, f, score) PROVE ForecastInv' /\ FilesGrow
  <2>1. f \in M!Saved /\ forecasts[f] \in M!Forecast /\ UNCHANGED results
    BY <1>2, <1>5 DEF M!Record, M!Saved, M!files
  <2>2. CASE results[f] # None
    <3>1. /\ told' = told \cup IF results[f].score = score THEN {<<f, score>>} ELSE {}
          /\ call' = call
      BY <1>5, <2>2 DEF M!Record, M!Replay
    <3>2. \A p \in told' : p \in told \/ (p = <<f, score>> /\ results[f].score = score)
      BY <3>1
    <3>7. told' \subseteq Ids \X Scores
      BY <1>2, <3>2
    <3>3. M!OneResult'
      BY <1>2, <2>1, <2>2, <3>2 DEF ForecastInv, M!OneResult
    <3>4. FilesHold' /\ FilesGrow
      BY <1>1, <1>3, <2>1 DEF ForecastInv, FilesHold, FilesGrow, Sound, Predicted
    <3>5. PICK k \in Step \cup {None} : k = call[c] /\ StepFits(k)
      BY <1>2
    <3>6. StepFits(k)' /\ call' = [call EXCEPT ![c] = k]
      BY <1>2, <3>1, <3>4, <3>5, HeldStays
    <3> QED
      BY <1>1, <1>2, <2>1, <3>3, <3>4, <3>5, <3>6, <3>7, OneCommand
  <2>3. CASE results[f] = None
    <3> DEFINE s == [do |-> "link", forecast |-> f, result |-> M!Score(f, score)]
    <3>1. UNCHANGED told /\ call' = [call EXCEPT ![c] = s]
      BY <1>5, <2>3 DEF M!Record, M!Goto
    <3>2. M!Score(f, score) \in M!Scored /\ M!Score(f, score).score = score
      BY <2>1, ScoreTyped
    <3>3. s \in Step /\ s.do = "link" /\ s.forecast = f /\ s.result = M!Score(f, score)
      BY <3>2 DEF Step
    <3> HIDE DEF s
    <3>4. FilesGrow /\ FilesHold' /\ M!OneResult'
      BY <1>1, <2>1, <3>1, SameFiles
    <3>5. PICK k \in Step : k = s
      BY <3>3
    <3>6. StepFits(k)'
      BY <1>1, <1>3, <2>1, <3>2, <3>3, <3>5 DEF StepFits
    <3> QED
      BY <1>1, <1>2, <2>1, <3>1, <3>4, <3>5, <3>6, OneCommand
  <2> QED
    BY <2>2, <2>3
<1>6. CASE M!Link(c)
  <2> DEFINE f == call[c].forecast
             m == call[c].result
  <2>1. call[c] # None /\ call[c].do = "link" /\ call' = [call EXCEPT ![c] = None]
    BY <1>6 DEF M!Link, M!Doing, M!End, M!Goto
  <2>2. f \in Ids /\ m \in M!Scored /\ f \in M!Saved /\ m = M!Score(f, m.score) /\ m.score \in Scores /\ m # None
    BY <1>2, <2>1 DEF Step, StepFits, M!Scored, M!ForecastConstants
  <2>3. CASE results[f] # None
    <3>1. UNCHANGED <<results, told>>
      BY <1>6, <2>3 DEF M!Link, M!Publish
    <3>2. FilesGrow /\ FilesHold' /\ M!OneResult'
      BY <1>1, <3>1, SameFiles
    <3> QED
      BY <1>1, <1>2, <1>4, <2>1, <3>1, <3>2, OneCommand
  <2>4. CASE results[f] = None
    <3>1. results' = [results EXCEPT ![f] = m] /\ told' = told \cup {<<f, m.score>>}
      BY <1>6, <2>4 DEF M!Link, M!Publish
    <3> HIDE DEF f, m
    <3>2. results' \in [Ids -> M!Scored \cup {None}] /\ told' \subseteq Ids \X Scores /\ results'[f] = m
          /\ \A g \in Ids : g # f => results'[g] = results[g]
      BY <1>2, <2>2, <3>1
    <3>3. FilesGrow
      BY <1>1, <2>4, <3>2 DEF FilesGrow
    <3>4. \A g \in Ids : results'[g] # None => g \in M!Saved' /\ results'[g] = M!Score(g, results'[g].score)
      BY <1>1, <2>2, <3>2 DEF ForecastInv, FilesHold
    <3>5. FilesHold'
      BY <1>1, <1>3, <3>4 DEF ForecastInv, FilesHold, Sound, Predicted, M!Score, M!Brier, M!Outcome
    <3>6. M!OneResult'
      BY <1>2, <2>2, <3>1, <3>2, <3>3 DEF M!OneResult, ForecastInv, FilesGrow
    <3> QED
      BY <1>1, <1>2, <1>4, <2>1, <3>2, <3>3, <3>5, <3>6, OneCommand
  <2> QED
    BY <2>3, <2>4
<1>7. CASE M!Stop(c)
  <2>1. call' = [call EXCEPT ![c] = None] /\ UNCHANGED <<results, told>>
    BY <1>7 DEF M!Stop, M!End, M!Goto, M!files
  <2>2. FilesGrow /\ FilesHold' /\ M!OneResult'
    BY <1>1, <2>1, SameFiles
  <2> QED
    BY <1>1, <1>2, <1>4, <2>1, <2>2, OneCommand
<1> QED
  BY <1>5, <1>6, <1>7

\* One summary moves, to what agrees with the files.
LEMMA OneForecastSummary ==
    ASSUME M!ForecastConstants, ForecastInv, UNCHANGED <<M!files, call, told>>, NEW r \in Readers,
           NEW v \in Read \cup {None}, NEW begun \in SUBSET Ids, Agrees(v, begun),
           view' = [view EXCEPT ![r] = v], atStart' = [atStart EXCEPT ![r] = begun]
    PROVE  ForecastInv' /\ FilesGrow
<1>1. UNCHANGED <<history, forecasts, results, call, told>> /\ M!Saved' = M!Saved
  BY DEF M!files, M!Saved
<1>2. FilesGrow /\ FilesHold' /\ M!OneResult'
  BY <1>1, SameFiles
<1>3. ForecastsTyped'
  BY <1>1 DEF ForecastInv, ForecastsTyped
<1>4. StepsHold'
  <2>1. \A f, score : M!Score(f, score)' = M!Score(f, score)
    BY <1>1 DEF M!Score, M!Brier, M!Outcome
  <2> QED
    BY <1>1, <2>1 DEF ForecastInv, StepsHold, StepFits, Predicted, Sound
<1>5. SummariesHold'
  BY <1>1 DEF SummariesHold, ForecastInv, ForecastsTyped, Agrees
<1> QED
  BY <1>2, <1>3, <1>4, <1>5 DEF ForecastInv

\* A summary never meets a file that fails its checks, and reads what is on file.
LEMMA SummaryPreserves ==
    ASSUME M!ForecastConstants, ForecastInv, NEW r \in Readers,
           M!Summarise(r) \/ (\E f \in Ids : M!ReadResult(r, f)) \/ M!Done(r)
    PROVE  ForecastInv' /\ FilesGrow
<1>1. UNCHANGED <<M!files, call, told>>
  BY DEF M!Summarise, M!ReadResult, M!Done
<1>2. view[r] \in Read \cup {None} /\ atStart[r] \in SUBSET Ids /\ Agrees(view[r], atStart[r])
      /\ results \in [Ids -> M!Scored \cup {None}] /\ forecasts \in [Ids -> M!Forecast \cup {None}]
      /\ atStart = [atStart EXCEPT ![r] = atStart[r]]
  BY DEF ForecastInv, ForecastsTyped, SummariesHold
<1>3. CASE M!Summarise(r)
  <2> DEFINE v == [saved |-> M!Saved, left |-> M!Saved, completed |-> [f \in Ids |-> None], failed |-> FALSE]
             begun == {f \in Ids : results[f] # None}
  <2>1. M!ForecastsLoad
    <3>1. ASSUME NEW f \in M!Saved PROVE M!Distribution(forecasts[f].probabilities)
      <4>1. forecasts[f] \in M!Forecast /\ Sound(forecasts[f])
        BY <1>2 DEF M!Saved, ForecastInv, FilesHold
      <4>2. forecasts[f].used \subseteq Fixtures /\ M!IsFiniteSet(Fixtures)
        BY <4>1 DEF M!Forecast, M!Played, M!ForecastConstants
      <4>3. M!Cardinality(forecasts[f].used) \in 0 .. M!Cardinality(Fixtures)
        BY <4>2, FS_Subset, LedgerCountsAgree, FS_CardinalityType
      <4> QED
        BY <4>1, <4>3 DEF Sound, Predicted, M!ForecastConstants
    <3> QED
      BY <3>1 DEF ForecastInv, FilesHold, M!ForecastsLoad
  <2>2. view' = [view EXCEPT ![r] = v] /\ atStart' = [atStart EXCEPT ![r] = begun]
    BY <1>3, <2>1 DEF M!Summarise
  <2>3. v \in Read /\ v.saved = M!Saved /\ v.left = M!Saved /\ ~v.failed /\ \A f \in Ids : v.completed[f] = None
    BY DEF Read, M!Saved
  <2>4. \A f \in begun : f \in M!Saved /\ results[f] # None
    BY DEF ForecastInv, FilesHold
  <2> HIDE DEF v
  <2>5. Agrees(v, begun)
    BY <2>3, <2>4 DEF Agrees
  <2> QED
    BY <1>1, <2>2, <2>3, <2>5, OneForecastSummary
<1>4. ASSUME NEW f \in Ids, M!ReadResult(r, f) PROVE ForecastInv' /\ FilesGrow
  <2> DEFINE v == [view[r] EXCEPT !.left = @ \ {f}, !.completed[f] = results[f], !.failed = ~M!ResultLoads(f)]
  <2>1. view[r] # None /\ f \in view[r].left /\ view[r] \in Read
    BY <1>2, <1>4 DEF M!ReadResult, M!Reading
  <2>2. M!ResultLoads(f)
    BY DEF ForecastInv, FilesHold, M!ResultLoads
  <2>3. view' = [view EXCEPT ![r] = v] /\ atStart' = atStart
    BY <1>4 DEF M!ReadResult
  <2>4. view[r].completed \in [Ids -> M!Scored \cup {None}] /\ results[f] \in M!Scored \cup {None}
    BY <1>2, <2>1 DEF Read
  <2>5. /\ v \in Read /\ v.saved = view[r].saved /\ v.left = view[r].left \ {f} /\ ~v.failed
        /\ v.completed = [view[r].completed EXCEPT ![f] = results[f]]
    BY <2>1, <2>2, <2>4 DEF Read
  <2> HIDE DEF v
  <2>6. v.completed[f] = results[f] /\ \A g \in Ids : g # f => v.completed[g] = view[r].completed[g]
    BY <2>4, <2>5
  <2>7. Agrees(v, atStart[r])
    BY <1>2, <2>1, <2>5, <2>6 DEF Agrees
  <2> QED
    BY <1>1, <1>2, <2>3, <2>5, <2>7, OneForecastSummary
<1>5. CASE M!Done(r)
  <2>1. Agrees(None, {})
    BY DEF Agrees
  <2> QED
    BY <1>1, <1>5, <2>1, OneForecastSummary DEF M!Done
<1> QED
  BY <1>3, <1>4, <1>5

\* Every step preserves the invariant and what is on file.
LEMMA ForecastSteps ==
    ASSUME M!ForecastConstants, ForecastInv, [M!Next]_M!vars PROVE ForecastInv' /\ FilesGrow
<1>1. CASE UNCHANGED M!vars
  <2>1. UNCHANGED <<forecasts, results, told, history, call, view, atStart>>
    BY <1>1 DEF M!vars, M!files
  <2>2. FilesGrow /\ FilesHold' /\ M!OneResult'
    BY <2>1, SameFiles
  <2>3. M!Saved' = M!Saved /\ \A f, score : M!Score(f, score)' = M!Score(f, score)
    BY <2>1 DEF M!Saved, M!Score, M!Brier, M!Outcome
  <2> QED
    BY <2>1, <2>2, <2>3 DEF ForecastInv, ForecastsTyped, StepsHold, StepFits, SummariesHold,
          Agrees, Sound, Predicted
<1>2. CASE M!Next
  <2>1. ASSUME NEW x \in Fixtures, M!Play(x) PROVE ForecastInv' /\ FilesGrow
    BY <2>1, PlayPreserves
  <2>2. ASSUME NEW c \in Clients, (\E x \in Fixtures : M!Predict(c, x)) \/ M!Hash(c) \/ M!Save(c)
        PROVE  ForecastInv' /\ FilesGrow
    BY <2>2, PredictionPreserves
  <2>3. ASSUME NEW c \in Clients, (\E f \in Ids, score \in Scores : M!Record(c, f, score)) \/ M!Link(c) \/ M!Stop(c)
        PROVE  ForecastInv' /\ FilesGrow
    BY <2>3, ResultPreserves
  <2>4. ASSUME NEW r \in Readers, M!Summarise(r) \/ (\E f \in Ids : M!ReadResult(r, f)) \/ M!Done(r)
        PROVE  ForecastInv' /\ FilesGrow
    BY <2>4, SummaryPreserves
  <2> QED
    BY <1>2, <2>1, <2>2, <2>3, <2>4 DEF M!Next
<1> QED
  BY <1>1, <1>2

\* The inductive invariant of the forecast ledger: what a command or a summary holds is true of
\* files that only grow.
THEOREM ForecastSafety ==
    ASSUME M!ForecastConstants
    PROVE  M!Spec => []ForecastInv
<1>1. M!Init => ForecastInv
  BY ForecastsStart
<1>2. ForecastInv /\ [M!Next]_M!vars => ForecastInv'
  BY ForecastSteps
<1> QED
  BY <1>1, <1>2, PTL DEF M!Spec

\* Files, commands and summaries have their types.
THEOREM ForecastTypeCorrect ==
    ASSUME M!ForecastConstants
    PROVE  M!Spec => []M!TypeOK
<1>1. ForecastInv => M!TypeOK
  BY DEF ForecastInv, ForecastsTyped, Step, SummariesHold, Agrees, M!TypeOK
<1> QED
  BY <1>1, ForecastSafety, PTL

\* A forecast knows nothing of its own day, its probabilities are those of that history, and the
\* files hashed after the model ran hold every match it used (predict_upcoming_fixture, source_records).
THEOREM NothingAhead ==
    ASSUME M!ForecastConstants
    PROVE  M!Spec => []M!NoLookahead
<1>1. ForecastInv => M!NoLookahead
  BY DEF ForecastInv, FilesHold, Sound, Predicted, M!NoLookahead
<1> QED
  BY <1>1, ForecastSafety, PTL

\* However saves and results interleave, every file passes the checks of its next reader, and of two
\* operators who record a result at once only one is told that his was recorded (record_result).
THEOREM LedgerNeverLocksOut ==
    ASSUME M!ForecastConstants
    PROVE  M!Spec => [](M!SummaryNeverFails /\ M!OneResult)
<1>1. ForecastInv => M!SummaryNeverFails /\ M!OneResult
  BY DEF ForecastInv, SummariesHold, Agrees, M!SummaryNeverFails
<1> QED
  BY <1>1, ForecastSafety, PTL

\* A forecast and its score are final (save_forecast, record_result).
THEOREM ForecastsAreFinal ==
    ASSUME M!ForecastConstants
    PROVE  M!Spec => [][M!RecordsAreFinal]_M!vars
<1>1. ForecastInv /\ [M!Next]_M!vars => [M!RecordsAreFinal]_M!vars
  BY ForecastSteps DEF FilesGrow, M!RecordsAreFinal, M!Saved
<1> QED
  BY <1>1, ForecastSafety, PTL DEF M!Spec

\* A summary that ran beside writers counts every forecast once, and adds up the scores of those it
\* counts as completed: all that were scored when it began, and none that is not (ledger_summary).
THEOREM SummariesAgree ==
    ASSUME M!ForecastConstants
    PROVE  M!Spec => []M!SummaryAgrees
<1>1. ForecastInv => M!SummaryAgrees
  <2> SUFFICES ASSUME ForecastInv, NEW r \in Readers, M!Reading(r), view[r].left = {}
               PROVE  /\ M!Totals(r).saved = M!Totals(r).completed + M!Totals(r).pending
                      /\ atStart[r] \subseteq M!Completed(r)
                      /\ \A f \in M!Completed(r) : view[r].completed[f] = results[f]
                      /\ M!Totals(r).score =
                            M!AddUp([f \in M!Completed(r) |-> M!Brier(forecasts[f].probabilities, results[f].outcome)])
    BY DEF M!SummaryAgrees
  <2>1. /\ view[r] \in Read /\ Agrees(view[r], atStart[r]) /\ view[r] # None /\ view[r].saved \subseteq Ids
        /\ atStart[r] \subseteq Ids
    BY DEF M!Reading, ForecastInv, ForecastsTyped, SummariesHold, Read
  <2>2. M!Totals(r).saved = M!Totals(r).completed + M!Totals(r).pending
    <3>1. M!Completed(r) \subseteq view[r].saved /\ M!IsFiniteSet(view[r].saved)
      BY <2>1, FS_Subset, LedgerCountsAgree DEF M!Completed, M!ForecastConstants
    <3>2. /\ M!IsFiniteSet(M!Completed(r)) /\ M!Cardinality(M!Completed(r)) \in Nat
          /\ M!Cardinality(view[r].saved) \in Nat
      BY <3>1, FS_Subset, FS_CardinalityType, LedgerCountsAgree
    <3>3. M!Cardinality(view[r].saved \ M!Completed(r))
             = M!Cardinality(view[r].saved) - M!Cardinality(view[r].saved \cap M!Completed(r))
      BY <3>1, FS_Difference, LedgerCountsAgree
    <3>4. view[r].saved \cap M!Completed(r) = M!Completed(r)
      BY <3>1
    <3>5. /\ M!Totals(r).saved = M!Cardinality(view[r].saved)
          /\ M!Totals(r).completed = M!Cardinality(M!Completed(r))
          /\ M!Totals(r).pending = M!Cardinality(view[r].saved \ M!Completed(r))
      BY DEF M!Totals
    <3>6. \A a, b \in Nat : a = b + (a - b)
      OBVIOUS
    <3> QED
      BY ZenonT(60), <3>2, <3>3, <3>4, <3>5, <3>6
  <2>3. atStart[r] \subseteq M!Completed(r) /\ \A f \in M!Completed(r) : view[r].completed[f] = results[f]
    BY <2>1 DEF Agrees, M!Completed
  <2>4. \A f \in M!Completed(r) : results[f].brier = M!Brier(forecasts[f].probabilities, results[f].outcome)
    <3> SUFFICES ASSUME NEW f \in M!Completed(r)
                 PROVE  results[f].brier = M!Brier(forecasts[f].probabilities, results[f].outcome)
      OBVIOUS
    <3>1. results[f] # None /\ results[f] = M!Score(f, results[f].score)
      BY <2>1, <2>3 DEF M!Completed, ForecastInv, FilesHold
    <3> QED
      BY <3>1 DEF M!Score
  <2>5. [f \in M!Completed(r) |-> view[r].completed[f].brier]
           = [f \in M!Completed(r) |-> M!Brier(forecasts[f].probabilities, results[f].outcome)]
    BY <2>3, <2>4
  <2> QED
    BY <2>2, <2>3, <2>5 DEF M!Totals
<1> QED
  BY <1>1, ForecastSafety, PTL

-----------------------------------------------------------------------------
(* What the runs check of each of the two ledgers, for every value of the  *)
(* constants.                                                              *)

\* Operators, a summary and a crash share the corner ledger: it always loads, a summary lies
\* between two of its states, and what is settled or void stays so (corner_ledger.py).
THEOREM CornerLedgerHolds ==
    ASSUME L!LedgerConstants
    PROVE  L!Spec => /\ [](L!TypeOK /\ L!LedgerLoads /\ L!SummaryIsBracketed)
                     /\ [][L!SettlementsAreFinal]_L!vars
BY LedgerTypeCorrect, LedgerAlwaysLoads, SummariesAreBracketed, ResultClosesTheBook, PTL

\* However saves, results and summaries interleave, a forecast is of its own past, has one
\* result that stays, and a summary reads every file and adds it up once (forecast_ledger.py).
THEOREM ForecastLedgerHolds ==
    ASSUME M!ForecastConstants
    PROVE  M!Spec => /\ [](/\ M!TypeOK /\ M!NoLookahead /\ M!SummaryNeverFails
                           /\ M!OneResult /\ M!SummaryAgrees)
                     /\ [][M!RecordsAreFinal]_M!vars
BY ForecastTypeCorrect, NothingAhead, LedgerNeverLocksOut, SummariesAgree, ForecastsAreFinal, PTL
=============================================================================
