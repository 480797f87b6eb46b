-------------------------- MODULE StoragePreparation --------------------------
(***************************************************************************)
(* The one-shot preparation of the bounded worker's storage                *)
(* (ops/bounded_worker/production_one_shot.py): an image is allocated      *)
(* (production_image_stage.py), formatted, attached and mounted, and       *)
(* /etc/fstab is replaced (production_fstab_transaction.py).  Every        *)
(* mutation lies between two records of a private evidence directory.      *)
(* Nothing is retried or undone: the process may be killed, the host may   *)
(* reboot, and a tool that timed out may still act after its parent.       *)
(***************************************************************************)
EXTENDS Naturals, FiniteSets, Sequences

CONSTANTS
    Attempts,     \* identifiers of preparations, each invoked any number of times
    Lines,        \* entries other editors write to /etc/fstab
    None, Fresh,  \* "parent pin 0,0": the attempts invoked while no image parent exists
    MaxBoots, MaxStops   \* bounds

Phases == <<"parent", "allocation", "format", "attach", "mountpoint", "fstab", "mount", "directories">>
Phase == {Phases[i] : i \in 1 .. Len(Phases)}
\* done by a child process; the others by system calls of the preparation itself
Commands == {"format", "attach", "mount"}
\* gone after a reboot
Volatile == {"attach", "mount"}

\* an evidence directory: what was intended, what was observed, /etc/fstab before and after the entry
Evidence == [intents: SUBSET Phase, observed: SUBSET Phase, boot: 0 .. MaxBoots,
             before: SUBSET (Attempts \cup Lines), after: SUBSET (Attempts \cup Lines), terminal: BOOLEAN]

ASSUME PreparationConstants ==
    /\ Fresh \subseteq Attempts /\ {MaxBoots, MaxStops} \subseteq Nat
    /\ None \notin Attempts /\ None \notin Evidence

VARIABLES
    boot,
    holder,     \* bridge.lock
    effects,    \* what exists on the host: <<attempt, phase>>
    unresolved, \* .production-image-stage.unresolved.json: the attempt it names
    fstab,      \* entries, of editors and of attempts
    evidence,   \* per attempt: its evidence directory, or None
    step,       \* per attempt: where its live process is
    surviving,  \* children of commands that were given up: <<attempt, phase>>
    stops, edits

vars == <<boot, holder, effects, unresolved, fstab, evidence, step, surviving, stops, edits>>

Idle == [phase |-> 0, at |-> "idle"]
NoEvidence == [intents |-> {}, observed |-> {}, boot |-> None, before |-> {}, after |-> {}, terminal |-> FALSE]

Init ==
    /\ boot = 0 /\ holder = None /\ effects = {} /\ unresolved = None /\ fstab = {}
    /\ evidence = [a \in Attempts |-> None] /\ step = [a \in Attempts |-> Idle]
    /\ surviving = {} /\ stops = 0 /\ edits = {}

Here(a) == Phases[step[a].phase]
At(a, place) == step[a].at = place
Go(a, phase, place) == step' = [step EXCEPT ![a] = [phase |-> phase, at |-> place]]
Keep == UNCHANGED <<boot, stops>>

-----------------------------------------------------------------------------
(* One preparation                                                         *)

\* under a lock that is not waited for; the evidence directory is created exclusively.  The pins of an
\* image parent are measured on one that exists.
ParentExists == \E b \in Attempts : <<b, "parent">> \in effects
MutantLockFree == TRUE
LockFree == holder = None
Begin(a) ==
    /\ At(a, "idle") /\ LockFree /\ evidence[a] = None
    /\ a \notin Fresh => ParentExists
    /\ holder' = a
    /\ evidence' = [evidence EXCEPT ![a] = [NoEvidence EXCEPT !.boot = boot]]
    /\ Go(a, IF a \in Fresh THEN 1 ELSE 2, "intent")
    /\ Keep /\ UNCHANGED <<effects, unresolved, fstab, surviving, edits>>

\* the /etc/fstab found before the first mutation of the image is kept with the evidence
MutantIntend(a) ==
    /\ At(a, "intent") /\ Go(a, step[a].phase, "act")
    /\ evidence' = [evidence EXCEPT ![a].intents = @ \cup (IF Here(a) \in Commands THEN {} ELSE {Here(a)}),
                                    ![a].before = IF Here(a) = "allocation" THEN fstab ELSE @]
    /\ Keep /\ UNCHANGED <<holder, effects, unresolved, fstab, surviving, edits>>
Intend(a) ==
    /\ At(a, "intent") /\ Go(a, step[a].phase, "act")
    /\ evidence' = [evidence EXCEPT ![a].intents = @ \cup {Here(a)},
                                    ![a].before = IF Here(a) = "allocation" THEN fstab ELSE @]
    /\ Keep /\ UNCHANGED <<holder, effects, unresolved, fstab, surviving, edits>>

\* create_image: the marker is written before anything else and never removed
MutantClaimImage(a) ==
    /\ At(a, "act") /\ Here(a) = "allocation"
    /\ unresolved' = a /\ Go(a, step[a].phase, "allocate")
    /\ Keep /\ UNCHANGED <<holder, effects, fstab, evidence, surviving, edits>>
ClaimImage(a) ==
    /\ At(a, "act") /\ Here(a) = "allocation" /\ unresolved = None
    /\ unresolved' = a /\ Go(a, step[a].phase, "allocate")
    /\ Keep /\ UNCHANGED <<holder, effects, fstab, evidence, surviving, edits>>

\* the loop device is checked to be unbound and the mount point to be free
Possible(a) ==
    /\ Here(a) # "fstab"
    /\ Here(a) = "parent" => ~ParentExists
    /\ Here(a) = "attach" => \A b \in Attempts : <<b, "attach">> \notin effects
    /\ Here(a) = "allocation" => At(a, "allocate")
Act(a) ==
    /\ At(a, "act") \/ At(a, "allocate")
    /\ Possible(a)
    /\ effects' = effects \cup {<<a, Here(a)>>} /\ Go(a, step[a].phase, "observe")
    /\ Keep /\ UNCHANGED <<holder, unresolved, fstab, evidence, surviving, edits>>

\* command: a time limit, too much output or a failure; the child is killed but may live on
MutantGiveUp(a) ==
    /\ At(a, "act") /\ Here(a) \in Commands /\ Possible(a)
    /\ surviving' = surviving \cup {<<a, Here(a)>>} /\ Go(a, step[a].phase, "observe")
    /\ Keep /\ UNCHANGED <<holder, effects, unresolved, fstab, evidence, edits>>
GiveUp(a) ==
    /\ At(a, "act") /\ Here(a) \in Commands /\ Possible(a)
    /\ surviving' = surviving \cup {<<a, Here(a)>>}
    /\ step' = [step EXCEPT ![a] = Idle] /\ holder' = None
    /\ Keep /\ UNCHANGED <<effects, unresolved, fstab, evidence, edits>>

\* append_entry: the entries are read and the candidate written beside them,
StageEntry(a) ==
    /\ At(a, "act") /\ Here(a) = "fstab" /\ fstab = evidence[a].before
    /\ Go(a, step[a].phase, "replace")
    /\ Keep /\ UNCHANGED <<holder, effects, unresolved, fstab, evidence, surviving, edits>>
\* and exchanged if the file is still the one that was read; the operator keeps editors out in between
MutantUnchanged(a) == TRUE
Unchanged(a) == fstab = evidence[a].before
ReplaceFstab(a) ==
    /\ At(a, "replace") /\ Unchanged(a)
    /\ fstab' = evidence[a].before \cup {a}
    /\ evidence' = [evidence EXCEPT ![a].after = evidence[a].before \cup {a}]
    /\ effects' = effects \cup {<<a, "fstab">>} /\ Go(a, step[a].phase, "observe")
    /\ Keep /\ UNCHANGED <<holder, unresolved, surviving, edits>>

\* attachments and mounts are read back from the kernel; after the exchange fstab must stay as it was left
Verified(a) ==
    /\ Here(a) \in Volatile => <<a, Here(a)>> \in effects
    /\ step[a].phase >= 6 => fstab = evidence[a].after
MutantNextPhase(phase) == IF phase = 5 THEN 7 ELSE IF phase = 7 THEN 6 ELSE IF phase = 6 THEN 8 ELSE phase + 1
NextPhase(phase) == phase + 1
Observe(a) ==
    /\ At(a, "observe") /\ Verified(a)
    /\ evidence' = [evidence EXCEPT ![a].observed = @ \cup {Here(a)}]
    /\ IF step[a].phase = Len(Phases) THEN Go(a, step[a].phase, "terminal")
       ELSE Go(a, NextPhase(step[a].phase), "intent")
    /\ Keep /\ UNCHANGED <<holder, effects, unresolved, fstab, surviving, edits>>

\* the trim checks, admission and the terminal observation, which leaves the marker
Settled(a) == unresolved = a /\ fstab = evidence[a].after
Terminate(a) ==
    /\ At(a, "terminal") /\ Settled(a)
    /\ evidence' = [evidence EXCEPT ![a].terminal = TRUE]
    /\ step' = [step EXCEPT ![a] = Idle] /\ holder' = None
    /\ Keep /\ UNCHANGED <<effects, unresolved, fstab, surviving, edits>>

-----------------------------------------------------------------------------
(* The host                                                                *)

\* a check that refuses, a failed call or a kill: the descriptors close, nothing is undone
Stop(a) ==
    /\ ~At(a, "idle") /\ stops < MaxStops /\ stops' = stops + 1
    /\ step' = [step EXCEPT ![a] = Idle] /\ holder' = None
    /\ UNCHANGED <<boot, effects, unresolved, fstab, evidence, surviving, edits>>
\* a child that outlived its parent acts after all, or dies
Survivor ==
    /\ \E s \in surviving :
        /\ surviving' = surviving \ {s}
        /\ effects' = effects \cup {s} \/ UNCHANGED effects
    /\ UNCHANGED <<boot, holder, unresolved, fstab, evidence, step, stops, edits>>
Reboot ==
    /\ boot < MaxBoots /\ boot' = boot + 1
    /\ holder' = None /\ step' = [a \in Attempts |-> Idle] /\ surviving' = {}
    /\ effects' = {e \in effects : e[2] \notin Volatile}
    /\ UNCHANGED <<unresolved, fstab, evidence, stops, edits>>
\* another editor of /etc/fstab, who adds an entry
Edit ==
    /\ \E line \in Lines \ edits : fstab' = fstab \cup {line} /\ edits' = edits \cup {line}
    /\ UNCHANGED <<boot, holder, effects, unresolved, evidence, step, surviving, stops>>

Next ==
    \/ \E a \in Attempts : \/ Begin(a) \/ Intend(a) \/ ClaimImage(a) \/ Act(a) \/ GiveUp(a) \/ StageEntry(a)
                           \/ ReplaceFstab(a) \/ Observe(a) \/ Terminate(a) \/ Stop(a)
    \/ Survivor \/ Reboot \/ Edit
Spec == Init /\ [][Next]_vars

-----------------------------------------------------------------------------
(* Properties                                                              *)

Places == {"idle", "intent", "act", "allocate", "replace", "observe", "terminal"}

TypeOK ==
    /\ boot \in 0 .. MaxBoots /\ holder \in Attempts \cup {None} /\ unresolved \in Attempts \cup {None}
    /\ effects \subseteq Attempts \X Phase /\ surviving \subseteq Attempts \X Commands
    /\ fstab \subseteq Attempts \cup Lines
    /\ evidence \in [Attempts -> Evidence \cup {None}]
    /\ step \in [Attempts -> [phase: 0 .. Len(Phases), at: Places]]
    /\ \A a \in Attempts : ~At(a, "idle") <=> holder = a

\* Whatever exists on the host, or may still be done by a child that outlived its attempt, is named by a
\* durable intent: an operator who reconciles reads every unknown in the evidence.
EffectsAreIntended ==
    \A e \in effects \cup surviving : evidence[e[1]] # None /\ e[2] \in evidence[e[1]].intents

\* What an attempt recorded as observed does exist; attachments and mounts until the next boot.
ObservationsAreTrue ==
    \A a \in Attempts : evidence[a] # None =>
        \A p \in evidence[a].observed : <<a, p>> \in effects \/ (p \in Volatile /\ evidence[a].boot # boot)

\* An interrupted attempt cannot be bypassed under another name: images, attachments, entries and mounts
\* are all of the attempt the marker names.
OneImage == \A e \in effects \cup surviving : e[2] # "parent" => unresolved = e[1]

\* The image is never mounted without its entry that excludes it from trimming, by a late child either.
ExcludedBeforeMounted == \A a \in Attempts : <<a, "mount">> \in effects => a \in fstab

\* Every entry another editor wrote is still in /etc/fstab.
FstabKeepsEdits == edits \subseteq fstab

\* What an interrupted preparation leaves can be taken up again: one image under one name, excluded from
\* trimming before it is mounted, and nobody's entry lost.
HostStaysIntact == TypeOK /\ OneImage /\ ExcludedBeforeMounted /\ FstabKeepsEdits
=============================================================================
