------------------------------ MODULE RunApproval ------------------------------
(***************************************************************************)
(* docs/zen53/rotation-decoupling/operator-review/...-operator-v4-offline: *)
(* root_operator.py issues and retires the one current approval through    *)
(* binding_store.py; operator_once.py audits, claims the nonce of the      *)
(* approval, and hands over to launch_once.py, which starts one scope.     *)
(*                                                                         *)
(* The approval store is three directories: the current approval, claims   *)
(* by nonce, and history.  A change reaches the disk with fsync of its     *)
(* directory; a power loss keeps any part of what was not synchronised.    *)
(* Processes are killed at any point; audit and launch records are         *)
(* synchronised by the step that writes them.                              *)
(***************************************************************************)
EXTENDS Naturals, FiniteSets

CONSTANTS Nonces, Operators, None,
          MaxAttempts,  \* bound on approvals issued
          MaxLosses     \* bound on power losses

VARIABLES
    mem,      \* the store as processes see it: current, claims, history
    disk,     \* what of it is durable
    expired,  \* attempts whose approval has expired
    attempts, \* how many approvals have been issued
    root,     \* root_operator.py: [at, nonce, attempt]
    op,       \* operator -> [at, nonce, attempt]
    audit,    \* nonce -> records of its audit directory; None when there is none
    output,   \* nonce -> its launch directory: "none", "empty", "marked", "result"
    scope,    \* nonce -> [by, state]: the attempt that started its scope; "none", "alive", "gone"
    losses

vars == <<mem, disk, expired, attempts, root, op, audit, output, scope, losses>>
store == <<mem, disk>>
run == <<op, audit, output, scope>>

Records == {"intent", "handoff", "result", "blocked"}
Approvals == [nonce : Nonces, attempt : 1..MaxAttempts, whole : BOOLEAN]
ApprovalConstants ==
    /\ {MaxAttempts, MaxLosses} \subseteq Nat
    /\ None \notin Nonces /\ None \notin 1..MaxAttempts /\ None \notin Approvals
    /\ \A records \in SUBSET Records : None # records

NoClaim == [kind |-> "none", attempt |-> None]
Free == [at |-> "idle", nonce |-> None, attempt |-> None]

TypeOK ==
    /\ \A s \in {mem, disk} :
        /\ s.current \in {None} \cup Approvals
        /\ \A n \in Nonces : /\ s.claims[n].kind \in {"none", "partial", "claim", "tombstone"}
                             /\ s.history[n] \in {{}, {"approval"}, {"approval", "terminal"}}
    /\ expired \in SUBSET (1..MaxAttempts) /\ attempts \in 0..MaxAttempts /\ losses \in 0..MaxLosses
    /\ root.at \in {"idle", "issued", "tombstone", "again", "link", "linked", "terminal", "unlink", "unlinked"}
    /\ \A o \in Operators : op[o].at \in {"idle", "schedule", "audit", "intent", "checks", "preflight", "final",
                                          "claim", "sync", "handoff", "marker", "spawn", "wait", "ended"}
    /\ \A n \in Nonces : /\ audit[n] \in {None} \cup SUBSET Records
                         /\ output[n] \in {"none", "empty", "marked", "result"}
                         /\ scope[n].state \in {"none", "alive", "gone"}

Init ==
    /\ mem = [current |-> None, claims |-> [n \in Nonces |-> NoClaim], history |-> [n \in Nonces |-> {}]]
    /\ disk = mem /\ expired = {} /\ attempts = 0 /\ losses = 0
    /\ root = Free /\ op = [o \in Operators |-> Free]
    /\ audit = [n \in Nonces |-> None] /\ output = [n \in Nonces |-> "none"]
    /\ scope = [n \in Nonces |-> [by |-> None, state |-> "none"]]

----------------------------------------------------------------------------
(* The store.                                                              *)

\* read_current: one link, complete; an interrupted retirement leaves a second link in history.
Readable == mem.current # None /\ mem.current.whole /\ "approval" \notin mem.history[mem.current.nonce]
Reads(p) == Readable /\ mem.current.nonce = p.nonce /\ mem.current.attempt = p.attempt
\* decode: the approval has not expired.
Valid(p) == Reads(p) /\ p.attempt \notin expired

Sync(part) == disk' = [disk EXCEPT ![part] = mem[part]] /\ UNCHANGED mem

Unclaimed(n) == mem.claims[n].kind = "none"
MutantIssue(n) ==
    /\ root.at = "idle" /\ mem.current = None /\ attempts < MaxAttempts
    /\ attempts' = attempts + 1
    /\ \E whole \in BOOLEAN :
        /\ mem' = [mem EXCEPT !.current = [nonce |-> n, attempt |-> attempts', whole |-> whole]]
        /\ root' = IF whole THEN [at |-> "issued", nonce |-> n, attempt |-> attempts'] ELSE Free
    /\ UNCHANGED <<disk, expired, run, losses>>
\* approve_stage and issue: a nonce that has a claim of any kind is never approved again; no other approval may be current.
Issue(n) ==
    /\ root.at = "idle" /\ Unclaimed(n) /\ mem.current = None /\ attempts < MaxAttempts
    /\ attempts' = attempts + 1
    /\ \E whole \in BOOLEAN :
        /\ mem' = [mem EXCEPT !.current = [nonce |-> n, attempt |-> attempts', whole |-> whole]]
        /\ root' = IF whole THEN [at |-> "issued", nonce |-> n, attempt |-> attempts'] ELSE Free
    /\ UNCHANGED <<disk, expired, run, losses>>

SyncIssue ==
    /\ root.at = "issued" /\ Sync("current") /\ root' = Free
    /\ UNCHANGED <<expired, attempts, run, losses>>

\* prepare_output: an exclusive new directory for the approved nonce.
PrepareOutput ==
    /\ root.at = "idle" /\ Readable /\ mem.current.attempt \notin expired
    /\ output[mem.current.nonce] = "none"
    /\ output' = [output EXCEPT ![mem.current.nonce] = "empty"]
    /\ UNCHANGED <<store, expired, attempts, root, op, audit, scope, losses>>

\* What a trusted root operator has reviewed before it retires a claimed approval: nothing of it runs any more.
Reviewed(n) == scope[n].state # "alive" /\ \A o \in Operators : op[o].nonce = n => op[o].at = "ended"

\* observe_unclaimed: no audit, an empty launch directory, no scope.
Observed(n) == audit[n] = None /\ output[n] = "empty" /\ scope[n].state # "alive"

At(place) == root' = [root EXCEPT !.at = place]

MutantRetireClaimed ==
    /\ root.at = "idle" /\ Readable /\ Reviewed(mem.current.nonce)
    /\ mem.claims[mem.current.nonce] = [kind |-> "claim", attempt |-> mem.current.attempt]
    /\ root' = [at |-> "linked", nonce |-> mem.current.nonce, attempt |-> mem.current.attempt]
    /\ UNCHANGED <<store, expired, attempts, run, losses>>
\* retire_current: the claim must be of this very approval.
RetireClaimed ==
    /\ root.at = "idle" /\ Readable /\ Reviewed(mem.current.nonce)
    /\ mem.claims[mem.current.nonce] = [kind |-> "claim", attempt |-> mem.current.attempt]
    /\ root' = [at |-> "link", nonce |-> mem.current.nonce, attempt |-> mem.current.attempt]
    /\ UNCHANGED <<store, expired, attempts, run, losses>>

\* retire_unclaimed: observe, then take the claim's name exclusively.
RetireUnclaimed ==
    /\ root.at = "idle" /\ Readable /\ Observed(mem.current.nonce)
    /\ root' = [at |-> "tombstone", nonce |-> mem.current.nonce, attempt |-> mem.current.attempt]
    /\ UNCHANGED <<store, expired, attempts, run, losses>>

Tombstone ==
    /\ root.at = "tombstone" /\ mem.claims[root.nonce].kind = "none"
    /\ \E kind \in {"tombstone", "partial"} :
        /\ mem' = [mem EXCEPT !.claims[root.nonce] = [kind |-> kind, attempt |-> root.attempt]]
        /\ IF kind = "tombstone" THEN At("again") ELSE root' = Free
    /\ UNCHANGED <<disk, expired, attempts, run, losses>>

\* The name is durable before the second observation; then the approval may leave.
ObserveAgain ==
    /\ root.at = "again" /\ Sync("claims")
    /\ IF Observed(root.nonce) /\ Reads(root) THEN At("link") ELSE root' = Free
    /\ UNCHANGED <<expired, attempts, run, losses>>

Link ==
    /\ root.at = "link" /\ "approval" \notin mem.history[root.nonce]
    /\ mem' = [mem EXCEPT !.history[root.nonce] = @ \cup {"approval"}] /\ At("linked")
    /\ UNCHANGED <<disk, expired, attempts, run, losses>>

MutantTerminal ==
    /\ root.at = "linked" /\ mem' = [mem EXCEPT !.history[root.nonce] = @ \cup {"terminal"}]
    /\ UNCHANGED disk /\ At("unlink")
    /\ UNCHANGED <<expired, attempts, run, losses>>
\* history is synchronised after the link and again after the terminal record.
Terminal ==
    /\ root.at = "linked" /\ mem' = [mem EXCEPT !.history[root.nonce] = @ \cup {"terminal"}]
    /\ disk' = [disk EXCEPT !.history = mem.history] /\ At("terminal")
    /\ UNCHANGED <<expired, attempts, run, losses>>

SyncTerminal ==
    /\ root.at = "terminal" /\ Sync("history") /\ At("unlink")
    /\ UNCHANGED <<expired, attempts, run, losses>>

Unlink ==
    /\ root.at = "unlink" /\ mem' = [mem EXCEPT !.current = None] /\ At("unlinked")
    /\ UNCHANGED <<disk, expired, attempts, run, losses>>
SyncUnlink ==
    /\ root.at = "unlinked" /\ Sync("current") /\ root' = Free
    /\ UNCHANGED <<expired, attempts, run, losses>>

\* Any call of the issuer may fail or be killed; what it wrote stays as it is.
RootStops == root.at # "idle" /\ root' = Free /\ UNCHANGED <<store, expired, attempts, run, losses>>

----------------------------------------------------------------------------
(* operator_once.py and launch_once.py.                                    *)

Step(o, from, to) == op[o].at = from /\ op' = [op EXCEPT ![o].at = to]
Ends(o) == op' = [op EXCEPT ![o].at = "ended"]
Record(n, name) == audit' = [audit EXCEPT ![n] = @ \cup {name}]

\* The approval is read once; what was read is compared ever after.
Start(o) ==
    /\ op[o].at = "idle" /\ Readable /\ mem.current.attempt \notin expired
    /\ op' = [op EXCEPT ![o] = [at |-> "schedule", nonce |-> mem.current.nonce, attempt |-> mem.current.attempt]]
    /\ UNCHANGED <<store, expired, attempts, root, audit, output, scope, losses>>

\* run waits for a clear schedule, up to WAIT_LIMIT; the wait reserves nothing.
Wait(o) ==
    /\ Step(o, "schedule", "audit")
    /\ UNCHANGED <<store, expired, attempts, root, audit, output, scope, losses>>

\* create_audit makes a new directory or fails.
CreateAudit(o) ==
    /\ op[o].at = "audit"
    /\ IF audit[op[o].nonce] = None
       THEN Step(o, "audit", "intent") /\ audit' = [audit EXCEPT ![op[o].nonce] = {}]
       ELSE Ends(o) /\ UNCHANGED audit
    /\ UNCHANGED <<store, expired, attempts, root, output, scope, losses>>

Intent(o) ==
    /\ Step(o, "intent", "checks") /\ Record(op[o].nonce, "intent")
    /\ UNCHANGED <<store, expired, attempts, root, output, scope, losses>>

\* read_prepared and then early: sealed tool, stage and manifest, and no scope of this nonce.
Early(o) ==
    /\ Step(o, "checks", "preflight") /\ scope[op[o].nonce].state # "alive"
    /\ UNCHANGED <<store, expired, attempts, root, audit, output, scope, losses>>
\* The bounded read-only validator.
Preflight(o) ==
    /\ Step(o, "preflight", "final")
    /\ UNCHANGED <<store, expired, attempts, root, audit, output, scope, losses>>
\* prepared and early again, then the schedule a last time: a changed window stops the run.
FinalChecks(o) ==
    /\ Step(o, "final", "claim") /\ scope[op[o].nonce].state # "alive"
    /\ UNCHANGED <<store, expired, attempts, root, audit, output, scope, losses>>

MutantClaim(o) ==
    /\ op[o].at = "claim" /\ Valid(op[o])
    /\ mem' = IF mem.claims[op[o].nonce].kind # "none" THEN mem
              ELSE [mem EXCEPT !.claims[op[o].nonce] = [kind |-> "claim", attempt |-> op[o].attempt]]
    /\ Step(o, "claim", "sync")
    /\ UNCHANGED <<disk, expired, attempts, root, audit, output, scope, losses>>
\* claim_once: an exclusive new name; a failed write leaves it partial.
Claim(o) ==
    /\ op[o].at = "claim" /\ Valid(op[o]) /\ mem.claims[op[o].nonce].kind = "none"
    /\ \E kind \in {"claim", "partial"} :
        /\ mem' = [mem EXCEPT !.claims[op[o].nonce] = [kind |-> kind, attempt |-> op[o].attempt]]
        /\ Step(o, "claim", IF kind = "claim" THEN "sync" ELSE "ended")
    /\ UNCHANGED <<disk, expired, attempts, root, audit, output, scope, losses>>

MutantSyncClaim(o) ==
    /\ Step(o, "sync", "handoff")
    /\ UNCHANGED <<store, expired, attempts, root, audit, output, scope, losses>>
SyncClaim(o) ==
    /\ Sync("claims") /\ Step(o, "sync", "handoff")
    /\ UNCHANGED <<expired, attempts, root, audit, output, scope, losses>>

MutantHandoff(o) ==
    /\ Step(o, "handoff", "marker")
    /\ UNCHANGED <<store, expired, attempts, root, audit, output, scope, losses>>
Handoff(o) ==
    /\ Step(o, "handoff", "marker") /\ Record(op[o].nonce, "handoff")
    /\ UNCHANGED <<store, expired, attempts, root, output, scope, losses>>

\* launch_once: the launch directory must be empty; the marker and DEFAULT_UNKNOWN come before the spawn.
Marker(o) ==
    /\ Step(o, "marker", "spawn") /\ output[op[o].nonce] = "empty"
    /\ output' = [output EXCEPT ![op[o].nonce] = "marked"]
    /\ UNCHANGED <<store, expired, attempts, root, audit, scope, losses>>

\* guarded_spawn: the approval is compared once more, then the scope starts.
Spawn(o) ==
    /\ Step(o, "spawn", "wait") /\ Valid(op[o])
    /\ scope' = [scope EXCEPT ![op[o].nonce] = [by |-> op[o].attempt, state |-> "alive"]]
    /\ UNCHANGED <<store, expired, attempts, root, audit, output, losses>>

\* The launcher's observation ends with the scope or with its own deadline; neither is an acceptance.
Result(o) ==
    /\ Step(o, "wait", "ended") /\ Record(op[o].nonce, "result")
    /\ output' = [output EXCEPT ![op[o].nonce] = "result"]
    /\ UNCHANGED <<store, expired, attempts, root, scope, losses>>

\* A failed check or write: the audit, once there, gets its terminal record if it can be written.
Blocks(o) ==
    /\ op[o].at \notin {"idle", "ended"} /\ Ends(o)
    /\ \/ op[o].at \notin {"schedule", "audit"} /\ Record(op[o].nonce, "blocked")
       \/ UNCHANGED audit
    /\ UNCHANGED <<store, expired, attempts, root, output, scope, losses>>

----------------------------------------------------------------------------
(* The host.                                                               *)

Expire(a) ==
    /\ a \in 1..attempts \ expired /\ expired' = expired \cup {a}
    /\ UNCHANGED <<store, attempts, root, run, losses>>

\* RuntimeMaxSec and the payload's own end.
ScopeEnds(n) ==
    /\ scope[n].state = "alive" /\ scope' = [scope EXCEPT ![n].state = "gone"]
    /\ UNCHANGED <<store, expired, attempts, root, op, audit, output, losses>>

\* Everything dies; of each change that was not synchronised either version may be found.
PowerLoss ==
    /\ losses < MaxLosses /\ losses' = losses + 1
    /\ \E current \in {mem.current, disk.current}, lost \in SUBSET Nonces, gone \in SUBSET Nonces :
        mem' = [current |-> current,
                claims |-> [n \in Nonces |-> IF n \in lost THEN disk.claims[n] ELSE mem.claims[n]],
                history |-> [n \in Nonces |-> IF n \in gone THEN disk.history[n] ELSE mem.history[n]]]
    /\ disk' = mem' /\ root' = Free
    /\ op' = [o \in Operators |-> IF op[o].at = "idle" THEN op[o] ELSE [op[o] EXCEPT !.at = "ended"]]
    /\ scope' = [n \in Nonces |-> IF scope[n].state = "alive" THEN [scope[n] EXCEPT !.state = "gone"] ELSE scope[n]]
    /\ UNCHANGED <<expired, attempts, audit, output>>

Root == \/ SyncIssue \/ PrepareOutput \/ RetireClaimed \/ RetireUnclaimed \/ Tombstone \/ ObserveAgain \/ Link
        \/ Terminal \/ SyncTerminal \/ Unlink \/ SyncUnlink \/ RootStops
Operator(o) == \/ Start(o) \/ Wait(o) \/ CreateAudit(o) \/ Intent(o) \/ Early(o) \/ Preflight(o)
               \/ FinalChecks(o) \/ Claim(o) \/ SyncClaim(o)
               \/ Handoff(o) \/ Marker(o) \/ Spawn(o) \/ Result(o) \/ Blocks(o)
Next == \/ Root \/ PowerLoss \/ \E n \in Nonces : Issue(n) \/ ScopeEnds(n)
        \/ \E o \in Operators : Operator(o)
        \/ \E a \in 1..MaxAttempts : Expire(a)
Spec == Init /\ [][Next]_vars

----------------------------------------------------------------------------
(* Properties                                                              *)

\* A scope that was ever started has its nonce claimed by the approval that started it, on the disk and for good: no power
\* loss lets the nonce be claimed or approved again.
ScopeIsClaimed ==
    \A n \in Nonces : scope[n].by # None =>
        /\ mem.claims[n] = [kind |-> "claim", attempt |-> scope[n].by]
        /\ disk.claims[n] = mem.claims[n]

\* The tombstone decides the race with a claim: a nonce that was retired as unclaimed never starts anything
\* (retire_unclaimed: "permanently blocks nonce reuse").
TombstoneExcludesScope == \A n \in Nonces : mem.claims[n].kind = "tombstone" => scope[n].by = None

\* An approval that says it is over is over: with a terminal record nothing of the nonce runs, although the operator that
\* read the approval may still be anywhere.
RetiredIsOver == \A n \in Nonces : "terminal" \in mem.history[n] => scope[n].state # "alive"

\* An approval that was durable leaves only into history: whatever instant the power fails at, it is the current one or it
\* is durable in history with its terminal record (_retire synchronises history before it removes current).
ApprovalSurvives ==
    disk.current # None /\ disk.current = mem.current /\ mem'.current # mem.current =>
        {"approval", "terminal"} \subseteq disk'.history[mem.current.nonce]

\* Nothing runs without a durable intent and handoff in the audit.
AuditPrecedesScope == \A n \in Nonces : scope[n].by # None => audit[n] # None /\ {"intent", "handoff"} \subseteq audit[n]

\* Once a nonce is claimed, its approval is the last it ever gets; its scope is of one approval and, once gone, never
\* starts again.
ApprovedOnce ==
    /\ mem'.current # None /\ mem'.current # mem.current => mem.claims[mem'.current.nonce].kind = "none" \/ losses' # losses
    /\ \A n \in Nonces : scope[n].by # None => scope'[n].by = scope[n].by
    /\ \A n \in Nonces : scope[n].state = "gone" => scope'[n].state = "gone"
=============================================================================
