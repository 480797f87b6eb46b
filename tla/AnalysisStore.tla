---------------------------- MODULE AnalysisStore ----------------------------
(***************************************************************************)
(* Idempotent analyses (corner_analysis_store.py) over the publication     *)
(* protocol of ledger_storage.py: a request is looked up under the ledger  *)
(* lock, its response is built outside of it, and the record is looked up  *)
(* again, written, granted to the API reader and linked under the lock.    *)
(* A writer may die anywhere; the kernel then releases its lock.  Readers  *)
(* hold the lock shared while they read file after file.                   *)
(***************************************************************************)
EXTENDS Naturals, FiniteSets

CONSTANTS
    Clients, Keys,
    Requests,    \* what a request asks beside its key (the hashed content)
    Readers,     \* processes of the read API
    Evidence,    \* MODELFC_EVIDENCE_ACL_USER is set
    None,
    MaxBuilds, MaxCrashes, MaxReads  \* bounds

Record == [request: Requests, forecast: 1 .. MaxBuilds]
Call == [key: Keys, request: Requests]

StoreConstants ==
    /\ Evidence \in BOOLEAN
    /\ {MaxBuilds, MaxCrashes, MaxReads} \subseteq Nat
    /\ IsFiniteSet(Clients) /\ Keys \cap Clients = {}
    /\ None \notin Clients \cup Record \cup Call

VARIABLES
    saved,      \* analyses/<key>.json
    granted,    \* the inodes the API user may read: published keys, and writers' unnamed files
    lockGrant,  \* the API user may open the lock file (and its directories)
    leftover,   \* .record-*.tmp files left by dead writers
    holder,     \* who holds the ledger lock exclusively
    pc, call, built,   \* per client
    builds, crashes,
    seen, reads,       \* per reader: the keys it has read, None outside the lock
    \* observations of the environment, read by no action
    answers,    \* <<key, record>> told to a client
    refused     \* an exclusive creation met a file

store == <<saved, granted, lockGrant, leftover>>
clients == <<holder, pc, call, built, builds, crashes>>
readers == <<seen, reads>>
vars == <<store, clients, readers, answers, refused>>

Init ==
    /\ saved = [k \in Keys |-> None] /\ granted = {}
    /\ lockGrant = FALSE /\ leftover = 0
    /\ holder = None
    /\ pc = [c \in Clients |-> "idle"]
    /\ call = [c \in Clients |-> None] /\ built = [c \in Clients |-> None]
    /\ builds = 0 /\ crashes = 0
    /\ seen = [r \in Readers |-> None] /\ reads = 0
    /\ answers = {} /\ refused = FALSE

-----------------------------------------------------------------------------
(* Locks                                                                   *)

\* ledger_lock blocks until no process holds the lock, exclusively or shared
MutantReadersIgnored == holder = None
LockFree == holder = None /\ \A r \in Readers : seen[r] = None

-----------------------------------------------------------------------------
(* One call of store_analysis_capture                                      *)

Key(c) == call[c].key
Go(c, place) == pc' = [pc EXCEPT ![c] = place]

\* the call returns its record, or raises
End(c) ==
    /\ Go(c, "idle")
    /\ call' = [call EXCEPT ![c] = None] /\ built' = [built EXCEPT ![c] = None]
Answer(c, record) == End(c) /\ answers' = answers \cup {<<Key(c), record>>}
Raise(c) == End(c) /\ UNCHANGED answers

\* replay: the saved response of the same request, IDEMPOTENCY_CONFLICT for another
MutantReplayAny(c) == End(c) /\ answers' = answers \cup
    {<<Key(c), [saved[Key(c)] EXCEPT !.request = call[c].request]>>}
Replay(c) == IF saved[Key(c)].request = call[c].request THEN Answer(c, saved[Key(c)]) ELSE Raise(c)

Ask(c) ==
    /\ pc[c] = "idle" /\ builds < MaxBuilds
    /\ \E q \in Call : call' = [call EXCEPT ![c] = q]
    /\ Go(c, "look")
    /\ UNCHANGED <<store, holder, built, builds, crashes, readers, answers, refused>>

\* the first lookup holds the lock only while it replays
Look(c) ==
    /\ pc[c] = "look" /\ LockFree
    /\ IF saved[Key(c)] # None THEN Replay(c)
       ELSE Go(c, "build") /\ UNCHANGED <<call, built, answers>>
    /\ UNCHANGED <<store, holder, builds, crashes, readers, refused>>

\* build_response: a new forecast_id each time; the history may reject the request
Build(c) ==
    /\ pc[c] = "build"
    /\ \/ /\ builds < MaxBuilds
          /\ builds' = builds + 1
          /\ built' = [built EXCEPT ![c] = [request |-> call[c].request, forecast |-> builds']]
          /\ Go(c, "enter")
          /\ UNCHANGED <<call, answers>>
       \/ Raise(c) /\ UNCHANGED builds
    /\ UNCHANGED <<store, holder, crashes, readers, refused>>

\* the second lookup, in the critical section that also publishes
MutantEnter(c) ==
    /\ pc[c] = "enter" /\ LockFree
    /\ Go(c, "write") /\ holder' = c /\ UNCHANGED <<call, built, answers>>
    /\ UNCHANGED <<store, builds, crashes, readers, refused>>
Enter(c) ==
    /\ pc[c] = "enter" /\ LockFree
    /\ IF saved[Key(c)] # None THEN Replay(c) /\ UNCHANGED holder
       ELSE Go(c, "write") /\ holder' = c /\ UNCHANGED <<call, built, answers>>
    /\ UNCHANGED <<store, builds, crashes, readers, refused>>

-----------------------------------------------------------------------------
(* write_new_record                                                        *)

\* serialised and synced: an unnamed inode for evidence, a named temporary otherwise
Write(c) ==
    /\ pc[c] = "write"
    /\ leftover' = leftover + (IF Evidence THEN 0 ELSE 1)
    /\ Go(c, IF Evidence THEN "grant lock" ELSE "guard")
    /\ UNCHANGED <<saved, granted, lockGrant, holder, call, built, builds, crashes, readers,
                   answers, refused>>

\* _grant_evidence_read: directories, the held lock, then the unpublished inode
GrantLock(c) ==
    /\ pc[c] = "grant lock"
    /\ lockGrant' = TRUE
    /\ Go(c, "grant")
    /\ UNCHANGED <<saved, granted, leftover, holder, call, built, builds, crashes, readers,
                   answers, refused>>
MutantGrant(c) ==
    /\ pc[c] = "grant"
    /\ Go(c, "guard")
    /\ UNCHANGED <<store, holder, call, built, builds, crashes, readers, answers, refused>>
Grant(c) ==
    /\ pc[c] = "grant"
    /\ granted' = granted \cup {c}
    /\ Go(c, "guard")
    /\ UNCHANGED <<saved, lockGrant, leftover, holder, call, built, builds, crashes, readers,
                   answers, refused>>

\* any failure before the link: nothing is published, the temporary is unlinked
MutantUnlinkAlways(c) ==
    /\ leftover' = leftover - 1
    /\ granted' = granted \ {c} /\ holder' = None /\ Raise(c)
MutantKeepLock(c) ==
    /\ leftover' = leftover - (IF Evidence THEN 0 ELSE 1)
    /\ granted' = granted \ {c} /\ UNCHANGED holder /\ Raise(c)
MutantKeepTemporary(c) ==
    /\ UNCHANGED leftover
    /\ granted' = granted \ {c} /\ holder' = None /\ Raise(c)
Withdraw(c) ==
    /\ leftover' = leftover - (IF Evidence THEN 0 ELSE 1)
    /\ granted' = granted \ {c}
    /\ holder' = None
    /\ Raise(c)

\* before_publish: the quotes are still current, or the record is not published
Guard(c) ==
    /\ pc[c] = "guard"
    /\ \/ Go(c, "link") /\ UNCHANGED <<granted, leftover, holder, call, built, answers>>
       \/ Withdraw(c)
    /\ UNCHANGED <<saved, lockGrant, builds, crashes, readers, refused>>

\* link creates the final name exclusively; it never replaces a record
Link(c) ==
    /\ pc[c] = "link"
    /\ IF saved[Key(c)] = None
       THEN /\ saved' = [saved EXCEPT ![Key(c)] = built[c]]
            /\ Go(c, "return")
            /\ granted' = (granted \ {c}) \cup (IF c \in granted THEN {Key(c)} ELSE {})
            /\ UNCHANGED <<leftover, holder, call, built, answers, refused>>
       ELSE Withdraw(c) /\ refused' = TRUE /\ UNCHANGED saved
    /\ UNCHANGED <<lockGrant, builds, crashes, readers>>

Return(c) ==
    /\ pc[c] = "return"
    /\ leftover' = leftover - (IF Evidence THEN 0 ELSE 1)
    /\ holder' = None
    /\ Answer(c, built[c])
    /\ UNCHANGED <<saved, granted, lockGrant, builds, crashes, readers, refused>>

\* the process dies: its lock is released, an unnamed inode vanishes, a temporary stays
Crash(c) ==
    /\ pc[c] # "idle" /\ crashes < MaxCrashes
    /\ crashes' = crashes + 1
    /\ holder' = IF holder = c THEN None ELSE holder
    /\ granted' = granted \ {c}
    /\ Raise(c)
    /\ UNCHANGED <<saved, lockGrant, leftover, builds, readers, refused>>

-----------------------------------------------------------------------------
(* A reader of the state directory                                         *)

\* existing_read_lock: shared, and unavailable when the wait is too long or the file closed to it
ReadLock(r) ==
    /\ seen[r] = None /\ reads < MaxReads
    /\ holder = None
    /\ Evidence => lockGrant
    /\ seen' = [seen EXCEPT ![r] = {}]
    /\ reads' = reads + 1
    /\ UNCHANGED <<store, clients, answers, refused>>

ReadFile(r) ==
    /\ seen[r] # None
    /\ \E k \in Keys \ seen[r] : /\ saved[k] # None
                                 /\ seen' = [seen EXCEPT ![r] = @ \cup {k}]
    /\ UNCHANGED <<store, clients, reads, answers, refused>>

ReadUnlock(r) ==
    /\ seen[r] # None
    /\ seen' = [seen EXCEPT ![r] = None]
    /\ UNCHANGED <<store, clients, reads, answers, refused>>

-----------------------------------------------------------------------------

Step(c) ==
    \/ Look(c) \/ Build(c) \/ Enter(c) \/ Write(c) \/ GrantLock(c) \/ Grant(c) \/ Guard(c)
    \/ Link(c) \/ Return(c)

Next ==
    \/ \E c \in Clients : Ask(c) \/ Step(c) \/ Crash(c)
    \/ \E r \in Readers : ReadLock(r) \/ ReadFile(r) \/ ReadUnlock(r)

\* a live process goes on, and a reader always leaves the lock
Fairness ==
    /\ \A c \in Clients : WF_vars(Step(c))
    /\ \A r \in Readers : WF_vars(ReadUnlock(r))
Spec == Init /\ [][Next]_vars /\ Fairness

-----------------------------------------------------------------------------
(* Properties                                                              *)

TypeOK ==
    /\ saved \in [Keys -> Record \cup {None}]
    /\ granted \subseteq Keys \cup Clients /\ lockGrant \in BOOLEAN
    /\ leftover \in 0 .. (Cardinality(Clients) + MaxCrashes)
    /\ holder \in Clients \cup {None}
    /\ call \in [Clients -> Call \cup {None}] /\ built \in [Clients -> Record \cup {None}]

\* Every file the API can list is one it may open, under a lock it may open: grants come before the
\* link, whatever dies in between.
VisibleIsReadable == Evidence => \A k \in Keys : saved[k] # None => k \in granted /\ lockGrant

\* Concurrent duplicates of a request are replayed, not refused: the second lookup and the link
\* share one critical section, so the exclusive creation never meets a file.
DuplicatesAreReplayed == ~refused

\* Temporaries are left behind by dead writers only: every failure of a live one unlinks its own.
TemporariesAreCleaned ==
    leftover <= crashes + Cardinality({c \in Clients : holder = c /\ pc[c] # "write"})

\* While a reader holds the lock no record appears under it: what it reads is one state of the store.
ReadersSeeOneState ==
    (\E r \in Readers : seen[r] # None /\ seen'[r] # None) => saved' = saved

\* A call ends with an answer or an error, whoever dies and however many readers there are.
CallsEnd == \A c \in Clients : pc[c] # "idle" ~> pc[c] = "idle"
=============================================================================
