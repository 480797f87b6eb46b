------------------------ MODULE HostProofs ------------------------
(***************************************************************************)
(* What is proved of the operations on the worker host, for every value of *)
(* the constants:                                                          *)
(*   - StoragePreparation: nothing is on the host that no durable intent   *)
(*     names, what the evidence says was observed is there, and an         *)
(*     interrupted preparation leaves one image under one name, excluded   *)
(*     from trimming before it is mounted;                                 *)
(*   - RunApproval, BoundedTask, NativeDiagnostic, OwnerCapture and        *)
(*     WorkerBridge: their invariants, and the action properties of the    *)
(*     task and of the bridge, each from an inductive invariant stated in  *)
(*     its part.                                                           *)
(***************************************************************************)
EXTENDS StoragePreparation, SequenceTheorems, FiniteSetTheorems, FunctionTheorems, WellFoundedInduction, TLAPS

(***************************************************************************)
(* The inductive invariant                                                 *)
(***************************************************************************)

\* No attempt has evidence of a boot that is still to come.
Dated == \A a \in Attempts : evidence[a] # None => evidence[a].boot <= boot

\* A mount that a child may still perform has its entry in /etc/fstab already.
Late == \A a \in Attempts : <<a, "mount">> \in surviving => a \in fstab

\* How far the live process of a is, and what it has established by then: it has an evidence directory,
\* the intent of the phase it is in once it is past it, the marker from the allocation on, the entry from
\* the exchange on, and what it is about to observe.
Position(a) ==
    LET p == step[a].phase
    IN ~At(a, "idle") =>
         /\ evidence[a] # None /\ p \in 1 .. 8
         /\ At(a, "allocate") => p = 2
         /\ At(a, "replace") => p = 6
         /\ ~At(a, "intent") => Here(a) \in evidence[a].intents
         /\ p > 2 \/ (p = 2 /\ (At(a, "allocate") \/ At(a, "observe"))) => unresolved = a
         /\ p > 6 \/ (p = 6 /\ At(a, "observe")) => a \in fstab
         /\ At(a, "observe") /\ Here(a) \notin Volatile => <<a, Here(a)>> \in effects

IInv ==
    /\ TypeOK
    /\ EffectsAreIntended
    /\ ObservationsAreTrue
    /\ OneImage
    /\ ExcludedBeforeMounted
    /\ FstabKeepsEdits
    /\ edits \subseteq Lines
    /\ Dated
    /\ Late
    /\ \A a \in Attempts : Position(a)

(***************************************************************************)
(* Lemmas about the phases and about who runs                              *)
(***************************************************************************)

\* The names of the phases in their order, and which of them have one place only.
LEMMA PhaseNames ==
    /\ Len(Phases) = 8
    /\ Phases[1] = "parent" /\ Phases[2] = "allocation" /\ Phases[6] = "fstab" /\ Phases[7] = "mount"
    /\ \A i \in 1 .. 8 : /\ Phases[i] \in Phase
                         /\ Phases[i] = "parent" => i = 1
                         /\ Phases[i] = "allocation" => i = 2
                         /\ Phases[i] = "fstab" => i = 6
                         /\ Phases[i] = "mount" => i = 7
                         /\ Phases[i] \in Commands => i \in {3, 4, 7}
    /\ Volatile \subseteq Commands /\ Commands \subseteq Phase
<1>1. Len(Phases) = 8
  BY DEF Phases
<1>2. /\ Phases[1] = "parent" /\ Phases[2] = "allocation" /\ Phases[3] = "format" /\ Phases[4] = "attach"
      /\ Phases[5] = "mountpoint" /\ Phases[6] = "fstab" /\ Phases[7] = "mount" /\ Phases[8] = "directories"
  BY DEF Phases
<1>3. Phase = {Phases[i] : i \in 1 .. 8}
  BY <1>1 DEF Phase
<1>4. ASSUME NEW i \in 1 .. 8
      PROVE  /\ Phases[i] \in Phase
             /\ Phases[i] = "parent" => i = 1
             /\ Phases[i] = "allocation" => i = 2
             /\ Phases[i] = "fstab" => i = 6
             /\ Phases[i] = "mount" => i = 7
             /\ Phases[i] \in Commands => i \in {3, 4, 7}
  BY <1>2, <1>3 DEF Commands
<1>5. Phases[3] \in Phase /\ Phases[4] \in Phase /\ Phases[7] \in Phase
  BY <1>4
<1>. QED
  BY <1>1, <1>2, <1>4, <1>5 DEF Volatile, Commands

\* The lock has one holder, so that one preparation runs at most.
LEMMA Alone ==
    ASSUME TypeOK, NEW a \in Attempts, ~At(a, "idle")
    PROVE  holder = a /\ \A b \in Attempts : b # a => At(b, "idle")
BY DEF TypeOK

\* A running preparation goes to another place: it stays the only one.
LEMMA Moved ==
    ASSUME TypeOK, NEW a \in Attempts, ~At(a, "idle"), holder' = holder,
           NEW p \in 0 .. 8, NEW place \in Places \ {"idle"}, Go(a, p, place)
    PROVE  /\ step' \in [Attempts -> [phase: 0 .. Len(Phases), at: Places]]
           /\ \A b \in Attempts : ~At(b, "idle")' <=> holder' = b
           /\ step'[a].phase = p /\ step'[a].at = place
           /\ \A b \in Attempts : b # a => At(b, "idle")'
<1>1. step \in [Attempts -> [phase: 0 .. 8, at: Places]] /\ \A b \in Attempts : ~At(b, "idle") <=> holder = b
  BY PhaseNames DEF TypeOK
<1>2. step' = [step EXCEPT ![a] = [phase |-> p, at |-> place]]
  BY DEF Go
<1>3. step'[a] = [phase |-> p, at |-> place] /\ \A b \in Attempts : b # a => step'[b] = step[b]
  BY <1>1, <1>2
<1>4. [phase |-> p, at |-> place] \in [phase: 0 .. 8, at: Places]
  OBVIOUS
<1>5. step' \in [Attempts -> [phase: 0 .. 8, at: Places]]
  BY <1>1, <1>2, <1>4
<1>6. \A b \in Attempts : b # a => At(b, "idle")'
  BY <1>3, Alone DEF At
<1>7. ~At(a, "idle")'
  BY <1>3 DEF At
<1>8. holder' = a
  BY Alone
<1>. QED
  BY <1>3, <1>5, <1>6, <1>7, <1>8, PhaseNames

\* A running preparation ends: none is left.
LEMMA Ended ==
    ASSUME TypeOK, NEW a \in Attempts, ~At(a, "idle"), holder' = None, None \notin Attempts,
           step' = [step EXCEPT ![a] = Idle]
    PROVE  /\ step' \in [Attempts -> [phase: 0 .. Len(Phases), at: Places]]
           /\ \A b \in Attempts : ~At(b, "idle")' <=> holder' = b
           /\ \A b \in Attempts : At(b, "idle")'
<1>1. step \in [Attempts -> [phase: 0 .. 8, at: Places]]
  BY PhaseNames DEF TypeOK
<1>2. Idle \in [phase: 0 .. 8, at: Places] /\ Idle.at = "idle"
  BY DEF Idle, Places
<1>3. step' \in [Attempts -> [phase: 0 .. 8, at: Places]]
  BY <1>1, <1>2
<1>4. \A b \in Attempts : At(b, "idle")'
  BY <1>1, <1>2, Alone DEF At
<1>. QED
  BY <1>3, <1>4, PhaseNames

(***************************************************************************)
(* Each action preserves the invariant                                     *)
(***************************************************************************)

LEMMA BeginStep == ASSUME IInv, NEW a \in Attempts, Begin(a) PROVE IInv'
<1>. DEFINE new == [NoEvidence EXCEPT !.boot = boot]
            p == IF a \in Fresh THEN 1 ELSE 2
<1>1. /\ holder = None /\ evidence[a] = None /\ holder' = a
      /\ evidence' = [evidence EXCEPT ![a] = new]
      /\ step' = [step EXCEPT ![a] = [phase |-> p, at |-> "intent"]]
      /\ UNCHANGED <<boot, effects, unresolved, fstab, surviving, edits>>
  BY DEF Begin, LockFree, Keep, Go
<1>2. TypeOK /\ None \notin Attempts
  BY PreparationConstants DEF IInv
<1>3. new \in Evidence /\ new.boot = boot /\ new.intents = {} /\ new.observed = {}
  BY <1>2 DEF NoEvidence, Evidence, TypeOK
<1>4. None \notin Evidence
  BY PreparationConstants
<1>. HIDE DEF new
<1>5. /\ evidence' \in [Attempts -> Evidence \cup {None}]
      /\ evidence'[a] = new /\ \A b \in Attempts : b # a => evidence'[b] = evidence[b]
  BY <1>1, <1>2, <1>3 DEF TypeOK
<1>6. step \in [Attempts -> [phase: 0 .. 8, at: Places]] /\ \A b \in Attempts : At(b, "idle")
  BY <1>1, <1>2, PhaseNames DEF TypeOK
<1>7. [phase |-> p, at |-> "intent"] \in [phase: 0 .. 8, at: Places]
  BY DEF Places
<1>8. /\ step' \in [Attempts -> [phase: 0 .. 8, at: Places]]
      /\ step'[a].phase = p /\ step'[a].at = "intent" /\ \A b \in Attempts : b # a => step'[b] = step[b]
  BY <1>1, <1>6, <1>7
<1>9. ~At(a, "idle")' /\ \A b \in Attempts : b # a => At(b, "idle")'
  BY <1>6, <1>8 DEF At
<1>10. TypeOK'
  BY <1>1, <1>2, <1>5, <1>8, <1>9, PhaseNames DEF TypeOK
<1>11. EffectsAreIntended'
  BY <1>1, <1>2, <1>5, PhaseNames DEF EffectsAreIntended, IInv, TypeOK
<1>12. ObservationsAreTrue'
  BY <1>1, <1>3, <1>5 DEF ObservationsAreTrue, IInv
<1>13. OneImage' /\ ExcludedBeforeMounted' /\ FstabKeepsEdits' /\ (edits \subseteq Lines)' /\ Late'
  BY <1>1 DEF IInv, OneImage, ExcludedBeforeMounted, FstabKeepsEdits, Late
<1>14. Dated'
  <2>1. boot \in Nat
    BY <1>2, PreparationConstants DEF TypeOK
  <2>. QED
    BY <1>1, <1>3, <1>5, <2>1 DEF Dated, IInv
<1>15. Position(a)'
  BY <1>3, <1>4, <1>5, <1>8 DEF Position, At
<1>16. \A b \in Attempts : Position(b)'
  BY <1>9, <1>15 DEF Position
<1>. QED
  BY <1>10, <1>11, <1>12, <1>13, <1>14, <1>16 DEF IInv

LEMMA IntendStep == ASSUME IInv, NEW a \in Attempts, Intend(a) PROVE IInv'
<1>. DEFINE p == step[a].phase
            new == [evidence[a] EXCEPT !.intents = @ \cup {Here(a)},
                                       !.before = IF Here(a) = "allocation" THEN fstab ELSE @]
<1>1. /\ At(a, "intent") /\ Go(a, p, "act")
      /\ evidence' = [evidence EXCEPT ![a] = new]
      /\ UNCHANGED <<boot, holder, effects, unresolved, fstab, surviving, edits>>
  BY DEF Intend, Keep
<1>2. TypeOK /\ ~At(a, "idle") /\ Position(a)
  BY <1>1 DEF IInv, At
<1>3. p \in 1 .. 8 /\ evidence[a] # None /\ Here(a) \in Phase
  BY <1>2, PhaseNames DEF Position, Here
<1>4. evidence[a] \in Evidence /\ None \notin Evidence
  BY <1>2, <1>3, PreparationConstants DEF TypeOK
<1>5. /\ new \in Evidence /\ new.intents = evidence[a].intents \cup {Here(a)}
      /\ new.observed = evidence[a].observed /\ new.boot = evidence[a].boot
  BY <1>2, <1>3, <1>4 DEF Evidence, TypeOK
<1>. HIDE DEF new
<1>6. /\ evidence' \in [Attempts -> Evidence \cup {None}]
      /\ evidence'[a] = new /\ \A b \in Attempts : b # a => evidence'[b] = evidence[b]
  BY <1>1, <1>2, <1>5 DEF TypeOK
<1>7. /\ step' \in [Attempts -> [phase: 0 .. Len(Phases), at: Places]]
      /\ \A b \in Attempts : ~At(b, "idle")' <=> holder' = b
      /\ step'[a].phase = p /\ step'[a].at = "act"
      /\ \A b \in Attempts : b # a => At(b, "idle")'
  BY <1>1, <1>2, <1>3, Moved DEF Places
<1>8. TypeOK'
  BY <1>1, <1>2, <1>6, <1>7 DEF TypeOK
<1>9. EffectsAreIntended'
  BY <1>1, <1>2, <1>4, <1>5, <1>6, PhaseNames DEF EffectsAreIntended, IInv, TypeOK
<1>10. ObservationsAreTrue'
  BY <1>1, <1>3, <1>5, <1>6 DEF ObservationsAreTrue, IInv
<1>11. OneImage' /\ ExcludedBeforeMounted' /\ FstabKeepsEdits' /\ (edits \subseteq Lines)' /\ Late'
  BY <1>1 DEF IInv, OneImage, ExcludedBeforeMounted, FstabKeepsEdits, Late
<1>12. Dated'
  BY <1>1, <1>3, <1>5, <1>6 DEF Dated, IInv
<1>13. Position(a)'
  BY <1>1, <1>2, <1>3, <1>4, <1>5, <1>6, <1>7 DEF Position, At, Here
<1>14. \A b \in Attempts : Position(b)'
  BY <1>7, <1>13 DEF Position
<1>. QED
  BY <1>8, <1>9, <1>10, <1>11, <1>12, <1>14 DEF IInv

LEMMA ClaimImageStep == ASSUME IInv, NEW a \in Attempts, ClaimImage(a) PROVE IInv'
<1>1. /\ At(a, "act") /\ Here(a) = "allocation" /\ unresolved = None /\ unresolved' = a
      /\ Go(a, step[a].phase, "allocate")
      /\ UNCHANGED <<boot, holder, effects, fstab, evidence, surviving, edits>>
  BY DEF ClaimImage, Keep
<1>2. TypeOK /\ ~At(a, "idle") /\ Position(a) /\ None \notin Attempts
  BY <1>1, PreparationConstants DEF IInv, At
<1>3. step[a].phase = 2 /\ evidence[a] # None /\ Here(a) \in evidence[a].intents
  BY <1>1, <1>2, PhaseNames DEF Position, Here, At
<1>4. /\ step' \in [Attempts -> [phase: 0 .. Len(Phases), at: Places]]
      /\ \A b \in Attempts : ~At(b, "idle")' <=> holder' = b
      /\ step'[a].phase = 2 /\ step'[a].at = "allocate"
      /\ \A b \in Attempts : b # a => At(b, "idle")'
  BY <1>1, <1>2, <1>3, Moved DEF Places
<1>5. TypeOK'
  BY <1>1, <1>2, <1>4 DEF TypeOK
<1>6. EffectsAreIntended' /\ ObservationsAreTrue'
  BY <1>1 DEF IInv, EffectsAreIntended, ObservationsAreTrue
<1>7. OneImage'
  \* before the marker named a, it named nobody: no image existed
  BY <1>1, <1>2 DEF TypeOK, OneImage, IInv
<1>8. ExcludedBeforeMounted' /\ FstabKeepsEdits' /\ (edits \subseteq Lines)' /\ Late' /\ Dated'
  BY <1>1 DEF IInv, ExcludedBeforeMounted, FstabKeepsEdits, Late, Dated
<1>9. Position(a)'
  BY <1>1, <1>3, <1>4 DEF Position, At, Here
<1>10. \A b \in Attempts : Position(b)'
  BY <1>4, <1>9 DEF Position
<1>. QED
  BY <1>5, <1>6, <1>7, <1>8, <1>10 DEF IInv

LEMMA ActStep == ASSUME IInv, NEW a \in Attempts, Act(a) PROVE IInv'
<1>. DEFINE p == step[a].phase
<1>1. /\ At(a, "act") \/ At(a, "allocate")
      /\ Possible(a) /\ effects' = effects \cup {<<a, Here(a)>>} /\ Go(a, p, "observe")
      /\ UNCHANGED <<boot, holder, unresolved, fstab, evidence, surviving, edits>>
  BY DEF Act, Keep
<1>2. TypeOK /\ ~At(a, "idle") /\ Position(a)
  BY <1>1 DEF IInv, At
<1>3. p \in 1 .. 8 /\ evidence[a] # None /\ Here(a) \in evidence[a].intents /\ Here(a) \in Phase
  BY <1>1, <1>2, PhaseNames DEF Position, Here, At
<1>4. p # 6 /\ (p = 2 => At(a, "allocate"))
  BY <1>1, PhaseNames DEF Possible, Here
<1>5. p # 1 => unresolved = a
  BY <1>2, <1>3, <1>4 DEF Position, At
<1>6. p > 6 => a \in fstab
  BY <1>2 DEF Position
<1>7. Here(a) = "parent" => p = 1
  BY <1>3, PhaseNames DEF Here
<1>8. /\ step' \in [Attempts -> [phase: 0 .. Len(Phases), at: Places]]
      /\ \A b \in Attempts : ~At(b, "idle")' <=> holder' = b
      /\ step'[a].phase = p /\ step'[a].at = "observe"
      /\ \A b \in Attempts : b # a => At(b, "idle")'
  BY <1>1, <1>2, <1>3, Moved DEF Places
<1>9. TypeOK'
  BY <1>1, <1>2, <1>3, <1>8 DEF TypeOK
<1>10. EffectsAreIntended' /\ ObservationsAreTrue'
  BY <1>1, <1>3 DEF IInv, EffectsAreIntended, ObservationsAreTrue
<1>11. OneImage'
  BY <1>1, <1>5, PhaseNames DEF Here, OneImage, IInv
<1>12. ExcludedBeforeMounted'
  BY <1>1, <1>3, <1>6, PhaseNames DEF Here, ExcludedBeforeMounted, IInv
<1>13. FstabKeepsEdits' /\ (edits \subseteq Lines)' /\ Late' /\ Dated'
  BY <1>1 DEF IInv, FstabKeepsEdits, Late, Dated
<1>14. Position(a)'
  BY <1>1, <1>3, <1>4, <1>5, <1>6, <1>8 DEF Position, At, Here
<1>15. \A b \in Attempts : Position(b)'
  BY <1>8, <1>14 DEF Position
<1>. QED
  BY <1>9, <1>10, <1>11, <1>12, <1>13, <1>15 DEF IInv

LEMMA GiveUpStep == ASSUME IInv, NEW a \in Attempts, GiveUp(a) PROVE IInv'
<1>. DEFINE p == step[a].phase
<1>1. /\ At(a, "act") /\ Here(a) \in Commands /\ surviving' = surviving \cup {<<a, Here(a)>>}
      /\ step' = [step EXCEPT ![a] = Idle] /\ holder' = None
      /\ UNCHANGED <<boot, effects, unresolved, fstab, evidence, edits>>
  BY DEF GiveUp, Keep
<1>2. TypeOK /\ ~At(a, "idle") /\ Position(a) /\ None \notin Attempts
  BY <1>1, PreparationConstants DEF IInv, At
<1>3. p \in {3, 4, 7} /\ evidence[a] # None /\ Here(a) \in evidence[a].intents /\ unresolved = a
  BY <1>1, <1>2, PhaseNames DEF Position, Here, At
<1>4. Here(a) = "mount" => a \in fstab
  BY <1>2, <1>3, PhaseNames DEF Position, Here
<1>5. /\ step' \in [Attempts -> [phase: 0 .. Len(Phases), at: Places]]
      /\ \A b \in Attempts : ~At(b, "idle")' <=> holder' = b
      /\ \A b \in Attempts : At(b, "idle")'
  BY <1>1, <1>2, Ended
<1>6. TypeOK'
  BY <1>1, <1>2, <1>5 DEF TypeOK
<1>7. EffectsAreIntended' /\ OneImage'
  BY <1>1, <1>3 DEF IInv, EffectsAreIntended, OneImage
<1>8. ObservationsAreTrue' /\ ExcludedBeforeMounted' /\ FstabKeepsEdits' /\ (edits \subseteq Lines)' /\ Dated'
  BY <1>1 DEF IInv, ObservationsAreTrue, ExcludedBeforeMounted, FstabKeepsEdits, Dated
<1>9. Late'
  BY <1>1, <1>4 DEF IInv, Late
<1>10. \A b \in Attempts : Position(b)'
  BY <1>5 DEF Position
<1>. QED
  BY <1>6, <1>7, <1>8, <1>9, <1>10 DEF IInv

LEMMA StageEntryStep == ASSUME IInv, NEW a \in Attempts, StageEntry(a) PROVE IInv'
<1>1. /\ At(a, "act") /\ Here(a) = "fstab" /\ Go(a, step[a].phase, "replace")
      /\ UNCHANGED <<boot, holder, effects, unresolved, fstab, evidence, surviving, edits>>
  BY DEF StageEntry, Keep
<1>2. TypeOK /\ ~At(a, "idle") /\ Position(a)
  BY <1>1 DEF IInv, At
<1>3. step[a].phase = 6 /\ evidence[a] # None /\ Here(a) \in evidence[a].intents /\ unresolved = a
  BY <1>1, <1>2, PhaseNames DEF Position, Here, At
<1>4. /\ step' \in [Attempts -> [phase: 0 .. Len(Phases), at: Places]]
      /\ \A b \in Attempts : ~At(b, "idle")' <=> holder' = b
      /\ step'[a].phase = 6 /\ step'[a].at = "replace"
      /\ \A b \in Attempts : b # a => At(b, "idle")'
  BY <1>1, <1>2, <1>3, Moved DEF Places
<1>5. TypeOK'
  BY <1>1, <1>2, <1>4 DEF TypeOK
<1>6. /\ EffectsAreIntended' /\ ObservationsAreTrue' /\ OneImage' /\ ExcludedBeforeMounted'
      /\ FstabKeepsEdits' /\ (edits \subseteq Lines)' /\ Late' /\ Dated'
  BY <1>1 DEF IInv, EffectsAreIntended, ObservationsAreTrue, OneImage, ExcludedBeforeMounted, FstabKeepsEdits,
              Late, Dated
<1>7. Position(a)'
  BY <1>1, <1>3, <1>4 DEF Position, At, Here
<1>8. \A b \in Attempts : Position(b)'
  BY <1>4, <1>7 DEF Position
<1>. QED
  BY <1>5, <1>6, <1>8 DEF IInv

LEMMA ReplaceFstabStep == ASSUME IInv, NEW a \in Attempts, ReplaceFstab(a) PROVE IInv'
<1>. DEFINE entries == evidence[a].before \cup {a}
            new == [evidence[a] EXCEPT !.after = entries]
<1>1. /\ At(a, "replace") /\ fstab = evidence[a].before /\ fstab' = fstab \cup {a}
      /\ evidence' = [evidence EXCEPT ![a] = new]
      /\ effects' = effects \cup {<<a, "fstab">>} /\ Go(a, step[a].phase, "observe")
      /\ UNCHANGED <<boot, holder, unresolved, surviving, edits>>
  BY DEF ReplaceFstab, Unchanged, Keep
<1>2. TypeOK /\ ~At(a, "idle") /\ Position(a)
  BY <1>1 DEF IInv, At
<1>3. /\ step[a].phase = 6 /\ Here(a) = "fstab" /\ evidence[a] # None
      /\ Here(a) \in evidence[a].intents /\ Here(a) \in Phase
  BY <1>1, <1>2, PhaseNames DEF Position, Here, At
<1>4. unresolved = a
  BY <1>2, <1>3 DEF Position
<1>5. evidence[a] \in Evidence /\ None \notin Evidence
  BY <1>2, <1>3, PreparationConstants DEF TypeOK
<1>6. /\ new \in Evidence /\ new.intents = evidence[a].intents
      /\ new.observed = evidence[a].observed /\ new.boot = evidence[a].boot
  BY <1>5 DEF Evidence
<1>. HIDE DEF new
<1>7. /\ evidence' \in [Attempts -> Evidence \cup {None}]
      /\ evidence'[a] = new /\ \A b \in Attempts : b # a => evidence'[b] = evidence[b]
  BY <1>1, <1>2, <1>6 DEF TypeOK
<1>8. /\ step' \in [Attempts -> [phase: 0 .. Len(Phases), at: Places]]
      /\ \A b \in Attempts : ~At(b, "idle")' <=> holder' = b
      /\ step'[a].phase = 6 /\ step'[a].at = "observe"
      /\ \A b \in Attempts : b # a => At(b, "idle")'
  BY <1>1, <1>2, <1>3, Moved DEF Places
<1>9. TypeOK'
  BY <1>1, <1>2, <1>3, <1>7, <1>8 DEF TypeOK
<1>10. EffectsAreIntended'
  BY <1>1, <1>2, <1>3, <1>5, <1>6, <1>7, PhaseNames DEF EffectsAreIntended, IInv, TypeOK
<1>11. ObservationsAreTrue'
  BY <1>1, <1>3, <1>6, <1>7 DEF ObservationsAreTrue, IInv
<1>12. OneImage'
  BY <1>1, <1>4 DEF IInv, OneImage
<1>13. ExcludedBeforeMounted' /\ FstabKeepsEdits' /\ (edits \subseteq Lines)' /\ Late'
  BY <1>1 DEF IInv, ExcludedBeforeMounted, FstabKeepsEdits, Late
<1>14. Dated'
  BY <1>1, <1>3, <1>6, <1>7 DEF Dated, IInv
<1>15. Position(a)'
  BY <1>1, <1>3, <1>4, <1>5, <1>6, <1>7, <1>8 DEF Position, At, Here
<1>16. \A b \in Attempts : Position(b)'
  BY <1>8, <1>15 DEF Position
<1>. QED
  BY <1>9, <1>10, <1>11, <1>12, <1>13, <1>14, <1>16 DEF IInv

LEMMA ObserveStep == ASSUME IInv, NEW a \in Attempts, Observe(a) PROVE IInv'
<1>. DEFINE p == step[a].phase
            new == [evidence[a] EXCEPT !.observed = @ \cup {Here(a)}]
<1>1. /\ At(a, "observe") /\ Verified(a) /\ evidence' = [evidence EXCEPT ![a] = new]
      /\ IF p = 8 THEN Go(a, p, "terminal") ELSE Go(a, p + 1, "intent")
      /\ UNCHANGED <<boot, holder, effects, unresolved, fstab, surviving, edits>>
  BY PhaseNames DEF Observe, NextPhase, Keep
<1>2. TypeOK /\ ~At(a, "idle") /\ Position(a)
  BY <1>1 DEF IInv, At
<1>3. /\ p \in 1 .. 8 /\ evidence[a] # None /\ Here(a) \in evidence[a].intents /\ Here(a) \in Phase
      /\ p >= 2 => unresolved = a
      /\ p >= 6 => a \in fstab
  BY <1>1, <1>2, PhaseNames DEF Position, Here, At
<1>4. <<a, Here(a)>> \in effects
  BY <1>1, <1>2 DEF Verified, Position
<1>5. evidence[a] \in Evidence /\ None \notin Evidence
  BY <1>2, <1>3, PreparationConstants DEF TypeOK
<1>6. /\ new \in Evidence /\ new.intents = evidence[a].intents
      /\ new.observed = evidence[a].observed \cup {Here(a)} /\ new.boot = evidence[a].boot
  BY <1>3, <1>5 DEF Evidence
<1>. HIDE DEF new
<1>7. /\ evidence' \in [Attempts -> Evidence \cup {None}]
      /\ evidence'[a] = new /\ \A b \in Attempts : b # a => evidence'[b] = evidence[b]
  BY <1>1, <1>2, <1>6 DEF TypeOK
<1>8. /\ step' \in [Attempts -> [phase: 0 .. Len(Phases), at: Places]]
      /\ \A b \in Attempts : ~At(b, "idle")' <=> holder' = b
      /\ \/ p = 8 /\ step'[a].phase = 8 /\ step'[a].at = "terminal"
         \/ p < 8 /\ step'[a].phase = p + 1 /\ step'[a].at = "intent"
      /\ \A b \in Attempts : b # a => At(b, "idle")'
  BY <1>1, <1>2, <1>3, Moved DEF Places
<1>9. TypeOK'
  BY <1>1, <1>2, <1>7, <1>8 DEF TypeOK
<1>10. EffectsAreIntended'
  BY <1>1, <1>2, <1>3, <1>5, <1>6, <1>7, PhaseNames DEF EffectsAreIntended, IInv, TypeOK
<1>11. ObservationsAreTrue'
  BY <1>1, <1>3, <1>4, <1>6, <1>7 DEF ObservationsAreTrue, IInv
<1>12. /\ OneImage' /\ ExcludedBeforeMounted' /\ FstabKeepsEdits' /\ (edits \subseteq Lines)' /\ Late'
  BY <1>1 DEF IInv, OneImage, ExcludedBeforeMounted, FstabKeepsEdits, Late
<1>13. Dated'
  BY <1>1, <1>3, <1>6, <1>7 DEF Dated, IInv
<1>14. Position(a)'
  <2>1. evidence'[a] # None
    BY <1>5, <1>6, <1>7
  <2>2. CASE p = 8
    <3>1. /\ step'[a].phase = 8 /\ step'[a].at = "terminal" /\ Here(a)' = Here(a)
          /\ unresolved' = a /\ a \in fstab'
      BY <1>1, <1>3, <1>8, <2>2 DEF Here
    <3>. QED
      BY <1>3, <1>6, <1>7, <2>1, <3>1 DEF Position, At
  <2>3. CASE p < 8
    BY <1>1, <1>3, <1>8, <2>1, <2>3 DEF Position, At
  <2>. QED
    BY <1>3, <2>2, <2>3
<1>15. \A b \in Attempts : Position(b)'
  BY <1>8, <1>14 DEF Position
<1>. QED
  BY <1>9, <1>10, <1>11, <1>12, <1>13, <1>15 DEF IInv

LEMMA TerminateStep == ASSUME IInv, NEW a \in Attempts, Terminate(a) PROVE IInv'
<1>. DEFINE new == [evidence[a] EXCEPT !.terminal = TRUE]
<1>1. /\ At(a, "terminal") /\ evidence' = [evidence EXCEPT ![a] = new]
      /\ step' = [step EXCEPT ![a] = Idle] /\ holder' = None
      /\ UNCHANGED <<boot, effects, unresolved, fstab, surviving, edits>>
  BY DEF Terminate, Keep
<1>2. TypeOK /\ ~At(a, "idle") /\ Position(a) /\ None \notin Attempts
  BY <1>1, PreparationConstants DEF IInv, At
<1>3. evidence[a] # None
  BY <1>2 DEF Position
<1>4. evidence[a] \in Evidence /\ None \notin Evidence
  BY <1>2, <1>3, PreparationConstants DEF TypeOK
<1>5. /\ new \in Evidence /\ new.intents = evidence[a].intents
      /\ new.observed = evidence[a].observed /\ new.boot = evidence[a].boot
  BY <1>4 DEF Evidence
<1>. HIDE DEF new
<1>6. /\ evidence' \in [Attempts -> Evidence \cup {None}]
      /\ evidence'[a] = new /\ \A b \in Attempts : b # a => evidence'[b] = evidence[b]
  BY <1>1, <1>2, <1>5 DEF TypeOK
<1>7. /\ step' \in [Attempts -> [phase: 0 .. Len(Phases), at: Places]]
      /\ \A b \in Attempts : ~At(b, "idle")' <=> holder' = b
      /\ \A b \in Attempts : At(b, "idle")'
  BY <1>1, <1>2, Ended
<1>8. TypeOK'
  BY <1>1, <1>2, <1>6, <1>7 DEF TypeOK
<1>9. EffectsAreIntended'
  BY <1>1, <1>2, <1>4, <1>5, <1>6, PhaseNames DEF EffectsAreIntended, IInv, TypeOK
<1>10. ObservationsAreTrue' /\ Dated'
  BY <1>1, <1>3, <1>5, <1>6 DEF ObservationsAreTrue, Dated, IInv
<1>11. OneImage' /\ ExcludedBeforeMounted' /\ FstabKeepsEdits' /\ (edits \subseteq Lines)' /\ Late'
  BY <1>1 DEF IInv, OneImage, ExcludedBeforeMounted, FstabKeepsEdits, Late
<1>12. \A b \in Attempts : Position(b)'
  BY <1>7 DEF Position
<1>. QED
  BY <1>8, <1>9, <1>10, <1>11, <1>12 DEF IInv

LEMMA StopStep == ASSUME IInv, NEW a \in Attempts, Stop(a) PROVE IInv'
<1>1. /\ ~At(a, "idle") /\ step' = [step EXCEPT ![a] = Idle] /\ holder' = None
      /\ UNCHANGED <<boot, effects, unresolved, fstab, evidence, surviving, edits>>
  BY DEF Stop
<1>2. TypeOK /\ None \notin Attempts
  BY PreparationConstants DEF IInv
<1>3. /\ step' \in [Attempts -> [phase: 0 .. Len(Phases), at: Places]]
      /\ \A b \in Attempts : ~At(b, "idle")' <=> holder' = b
      /\ \A b \in Attempts : At(b, "idle")'
  BY <1>1, <1>2, Ended
<1>4. TypeOK'
  BY <1>1, <1>2, <1>3 DEF TypeOK
<1>5. /\ EffectsAreIntended' /\ ObservationsAreTrue' /\ OneImage' /\ ExcludedBeforeMounted'
      /\ FstabKeepsEdits' /\ (edits \subseteq Lines)' /\ Late' /\ Dated'
  BY <1>1 DEF IInv, EffectsAreIntended, ObservationsAreTrue, OneImage, ExcludedBeforeMounted, FstabKeepsEdits,
              Late, Dated
<1>6. \A b \in Attempts : Position(b)'
  BY <1>3 DEF Position
<1>. QED
  BY <1>4, <1>5, <1>6 DEF IInv

\* A late child acts: it was intended, it is of the attempt the marker names, and its entry is there.
LEMMA SurvivorStep == ASSUME IInv, Survivor PROVE IInv'
<1>1. PICK s \in surviving : /\ surviving' = surviving \ {s}
                             /\ effects' = effects \cup {s} \/ UNCHANGED effects
  BY DEF Survivor
<1>2. UNCHANGED <<boot, holder, unresolved, fstab, evidence, step, edits>>
  BY DEF Survivor
<1>3. effects \subseteq effects' /\ effects' \subseteq effects \cup surviving /\ surviving' \subseteq surviving
  BY <1>1
<1>4. surviving \subseteq Attempts \X Phase
  BY PhaseNames DEF IInv, TypeOK
<1>5. TypeOK'
  BY <1>2, <1>3, <1>4 DEF IInv, TypeOK, At
<1>6. EffectsAreIntended' /\ OneImage'
  BY <1>2, <1>3 DEF IInv, EffectsAreIntended, OneImage
<1>7. ObservationsAreTrue' /\ FstabKeepsEdits' /\ (edits \subseteq Lines)' /\ Dated'
  BY <1>2, <1>3 DEF IInv, ObservationsAreTrue, FstabKeepsEdits, Dated
<1>8. ExcludedBeforeMounted' /\ Late'
  BY <1>2, <1>3 DEF IInv, ExcludedBeforeMounted, Late
<1>9. \A b \in Attempts : Position(b)'
  BY <1>2, <1>3 DEF IInv, Position, At, Here
<1>. QED
  BY <1>5, <1>6, <1>7, <1>8, <1>9 DEF IInv

\* What a reboot takes away was attached or mounted in a boot that is over.
LEMMA RebootStep == ASSUME IInv, Reboot PROVE IInv'
<1>1. /\ boot < MaxBoots /\ boot' = boot + 1 /\ holder' = None /\ step' = [a \in Attempts |-> Idle]
      /\ surviving' = {} /\ effects' = {e \in effects : e[2] \notin Volatile}
      /\ UNCHANGED <<unresolved, fstab, evidence, edits>>
  BY DEF Reboot
<1>2. TypeOK /\ None \notin Attempts /\ MaxBoots \in Nat
  BY PreparationConstants DEF IInv
<1>3. \A a \in Attempts : At(a, "idle")'
  BY <1>1 DEF At, Idle
<1>4. TypeOK'
  BY <1>1, <1>2, <1>3, PhaseNames DEF TypeOK, Idle, Places
<1>5. EffectsAreIntended' /\ OneImage' /\ ExcludedBeforeMounted' /\ FstabKeepsEdits' /\ (edits \subseteq Lines)'
      /\ Late'
  BY <1>1 DEF IInv, EffectsAreIntended, OneImage, ExcludedBeforeMounted, FstabKeepsEdits, Late
<1>6. \A a \in Attempts : evidence[a] # None => evidence[a].boot \in Nat /\ evidence[a].boot <= boot
  BY <1>2, PreparationConstants DEF IInv, TypeOK, Dated, Evidence
<1>7. boot \in Nat /\ boot' = boot + 1
  BY <1>1, <1>2 DEF TypeOK
<1>8. Dated' /\ \A a \in Attempts : evidence[a] # None => evidence[a].boot # boot'
  BY <1>1, <1>6, <1>7 DEF Dated
<1>9. ObservationsAreTrue'
  BY <1>1, <1>8 DEF ObservationsAreTrue, IInv
<1>10. \A a \in Attempts : Position(a)'
  BY <1>3 DEF Position
<1>. QED
  BY <1>4, <1>5, <1>8, <1>9, <1>10 DEF IInv

LEMMA EditStep == ASSUME IInv, Edit PROVE IInv'
<1>1. PICK line \in Lines : fstab' = fstab \cup {line} /\ edits' = edits \cup {line}
  BY DEF Edit
<1>2. UNCHANGED <<boot, holder, effects, unresolved, evidence, step, surviving>>
  BY DEF Edit
<1>3. TypeOK'
  BY <1>1, <1>2 DEF IInv, TypeOK, At
<1>4. EffectsAreIntended' /\ ObservationsAreTrue' /\ OneImage' /\ Dated'
  BY <1>2 DEF IInv, EffectsAreIntended, ObservationsAreTrue, OneImage, Dated
<1>5. ExcludedBeforeMounted' /\ FstabKeepsEdits' /\ (edits \subseteq Lines)' /\ Late'
  BY <1>1, <1>2 DEF IInv, ExcludedBeforeMounted, FstabKeepsEdits, Late
<1>6. \A a \in Attempts : Position(a)'
  BY <1>1, <1>2 DEF IInv, Position, At, Here
<1>. QED
  BY <1>3, <1>4, <1>5, <1>6 DEF IInv

(***************************************************************************)
(* The theorems                                                            *)
(***************************************************************************)

\* The inductive invariant holds in every reachable state of production_one_shot.py, whatever number of
\* preparations, kills, late children, editors and reboots.
THEOREM PreparationInvariant == Spec => []IInv
<1>1. Init => IInv
  <2>1. SUFFICES ASSUME Init PROVE IInv
    OBVIOUS
  <2>2. Init /\ None \notin Attempts /\ MaxBoots \in Nat
    BY <2>1, PreparationConstants
  <2>3. \A a \in Attempts : At(a, "idle") /\ evidence[a] = None
    BY <2>2 DEF Init, At, Idle
  <2>4. TypeOK
    BY <2>2, <2>3, PhaseNames DEF Idle, Places, Init, TypeOK
  <2>. QED
    BY <2>2, <2>3, <2>4 DEF Init, IInv, EffectsAreIntended, ObservationsAreTrue, OneImage,
                            ExcludedBeforeMounted, FstabKeepsEdits, Dated, Late, Position
<1>2. IInv /\ [Next]_vars => IInv'
  <2>1. SUFFICES ASSUME IInv, [Next]_vars PROVE IInv'
    OBVIOUS
  <2>2. ASSUME NEW a \in Attempts, Begin(a) PROVE IInv'
    BY <2>1, <2>2, BeginStep
  <2>3. ASSUME NEW a \in Attempts, Intend(a) PROVE IInv'
    BY <2>1, <2>3, IntendStep
  <2>4. ASSUME NEW a \in Attempts, ClaimImage(a) PROVE IInv'
    BY <2>1, <2>4, ClaimImageStep
  <2>5. ASSUME NEW a \in Attempts, Act(a) PROVE IInv'
    BY <2>1, <2>5, ActStep
  <2>6. ASSUME NEW a \in Attempts, GiveUp(a) PROVE IInv'
    BY <2>1, <2>6, GiveUpStep
  <2>7. ASSUME NEW a \in Attempts, StageEntry(a) PROVE IInv'
    BY <2>1, <2>7, StageEntryStep
  <2>8. ASSUME NEW a \in Attempts, ReplaceFstab(a) PROVE IInv'
    BY <2>1, <2>8, ReplaceFstabStep
  <2>9. ASSUME NEW a \in Attempts, Observe(a) PROVE IInv'
    BY <2>1, <2>9, ObserveStep
  <2>10. ASSUME NEW a \in Attempts, Terminate(a) PROVE IInv'
    BY <2>1, <2>10, TerminateStep
  <2>11. ASSUME NEW a \in Attempts, Stop(a) PROVE IInv'
    BY <2>1, <2>11, StopStep
  <2>12. CASE Survivor
    BY <2>1, <2>12, SurvivorStep
  <2>13. CASE Reboot
    BY <2>1, <2>13, RebootStep
  <2>14. CASE Edit
    BY <2>1, <2>14, EditStep
  <2>15. CASE UNCHANGED vars
    BY <2>1, <2>15 DEF vars, IInv, TypeOK, EffectsAreIntended, ObservationsAreTrue, OneImage,
                       ExcludedBeforeMounted, FstabKeepsEdits, Dated, Late, Position, At, Here
  <2>. QED
    BY <2>1, <2>2, <2>3, <2>4, <2>5, <2>6, <2>7, <2>8, <2>9, <2>10, <2>11, <2>12, <2>13, <2>14, <2>15 DEF Next
<1>. QED
  BY <1>1, <1>2, PTL DEF Spec

\* Everything a preparation did, or a child of it may still do, is named by an intent in its evidence
\* directory: a kill or a reboot between two records leaves no mutation the operator cannot read of.
THEOREM EffectsIntended == Spec => []EffectsAreIntended
<1>1. IInv => EffectsAreIntended
  BY DEF IInv
<1>. QED
  BY <1>1, PreparationInvariant, PTL

\* What an attempt recorded as observed exists; an attachment or a mount at least until the boot it was
\* observed in is over.
THEOREM TrueObservations == Spec => []ObservationsAreTrue
<1>1. IInv => ObservationsAreTrue
  BY DEF IInv
<1>. QED
  BY <1>1, PreparationInvariant, PTL

\* An interrupted preparation leaves one image under one name, in /etc/fstab before it is mounted, and
\* every entry another editor wrote there.
THEOREM IntactHost == Spec => []HostStaysIntact
<1>1. IInv => HostStaysIntact
  BY DEF IInv, HostStaysIntact
<1>. QED
  BY <1>1, PreparationInvariant, PTL

\* The marker of an unresolved image, once written, names the same attempt for ever; an entry of
\* /etc/fstab is never taken out again; and an evidence directory only gains records.
Irrevocable ==
    /\ unresolved # None => unresolved' = unresolved
    /\ fstab \subseteq fstab'
    /\ \A a \in Attempts : evidence[a] # None =>
          /\ evidence'[a] # None
          /\ evidence[a].intents \subseteq evidence'[a].intents
          /\ evidence[a].observed \subseteq evidence'[a].observed

\* What a preparation leaves for the operator is never taken back by a later step of anybody.
THEOREM NothingIsTakenBack == Spec => [][Irrevocable]_vars
<1>1. IInv /\ IInv' /\ [Next]_vars => [Irrevocable]_vars
  <2>1. SUFFICES ASSUME IInv, IInv', Next PROVE Irrevocable
    OBVIOUS
  <2>2. /\ evidence \in [Attempts -> Evidence \cup {None}] /\ evidence' \in [Attempts -> Evidence \cup {None}]
        /\ None \notin Evidence
    BY <2>1, PreparationConstants DEF IInv, TypeOK
  <2>3. ASSUME UNCHANGED evidence, unresolved # None => unresolved' = unresolved, fstab \subseteq fstab'
        PROVE  Irrevocable
    BY <2>3 DEF Irrevocable
  <2>4. ASSUME NEW a \in Attempts, NEW new, evidence[a] # None,
               evidence' = [evidence EXCEPT ![a] = new],
               evidence[a].intents \subseteq new.intents, evidence[a].observed \subseteq new.observed,
               new \in Evidence, unresolved' = unresolved, fstab \subseteq fstab'
        PROVE  Irrevocable
    BY <2>2, <2>4 DEF Irrevocable
  <2>5. ASSUME NEW a \in Attempts, ~At(a, "idle")
        PROVE  evidence[a] # None /\ evidence[a] \in Evidence /\ Here(a) \in Phase
    BY <2>1, <2>2, <2>5, PhaseNames DEF IInv, Position, Here
  <2>6. ASSUME NEW a \in Attempts, Begin(a) PROVE Irrevocable
    BY <2>2, <2>6 DEF Begin, Irrevocable
  <2>7. ASSUME NEW a \in Attempts, Intend(a) PROVE Irrevocable
    <3>. DEFINE new == [evidence[a] EXCEPT !.intents = @ \cup {Here(a)},
                                           !.before = IF Here(a) = "allocation" THEN fstab ELSE @]
    <3>1. At(a, "intent") /\ evidence' = [evidence EXCEPT ![a] = new] /\ UNCHANGED <<unresolved, fstab>>
      BY <2>7 DEF Intend
    <3>2. evidence[a] # None /\ evidence[a] \in Evidence /\ Here(a) \in Phase /\ fstab \subseteq Attempts \cup Lines
      BY <2>1, <2>5, <3>1 DEF At, IInv, TypeOK
    <3>3. new \in Evidence /\ evidence[a].intents \subseteq new.intents /\ evidence[a].observed \subseteq new.observed
      BY <3>2 DEF Evidence
    <3>. HIDE DEF new
    <3>. QED
      BY <2>4, <3>1, <3>2, <3>3
  <2>8. ASSUME NEW a \in Attempts, ClaimImage(a) PROVE Irrevocable
    BY <2>3, <2>8 DEF ClaimImage
  <2>9. ASSUME NEW a \in Attempts, Act(a) \/ GiveUp(a) \/ StageEntry(a) \/ Stop(a) PROVE Irrevocable
    BY <2>3, <2>9 DEF Act, GiveUp, StageEntry, Stop
  <2>10. ASSUME NEW a \in Attempts, ReplaceFstab(a) PROVE Irrevocable
    <3>. DEFINE new == [evidence[a] EXCEPT !.after = evidence[a].before \cup {a}]
    <3>1. /\ At(a, "replace") /\ evidence' = [evidence EXCEPT ![a] = new] /\ unresolved' = unresolved
          /\ fstab \subseteq fstab'
      BY <2>10 DEF ReplaceFstab, Unchanged
    <3>2. evidence[a] # None /\ evidence[a] \in Evidence
      BY <2>5, <3>1 DEF At
    <3>3. new \in Evidence /\ evidence[a].intents \subseteq new.intents /\ evidence[a].observed \subseteq new.observed
      BY <3>2 DEF Evidence
    <3>. HIDE DEF new
    <3>. QED
      BY <2>4, <3>1, <3>2, <3>3
  <2>11. ASSUME NEW a \in Attempts, Observe(a) PROVE Irrevocable
    <3>. DEFINE new == [evidence[a] EXCEPT !.observed = @ \cup {Here(a)}]
    <3>1. At(a, "observe") /\ evidence' = [evidence EXCEPT ![a] = new] /\ UNCHANGED <<unresolved, fstab>>
      BY <2>11 DEF Observe
    <3>2. evidence[a] # None /\ evidence[a] \in Evidence /\ Here(a) \in Phase
      BY <2>5, <3>1 DEF At
    <3>3. new \in Evidence /\ evidence[a].intents \subseteq new.intents /\ evidence[a].observed \subseteq new.observed
      BY <3>2 DEF Evidence
    <3>. HIDE DEF new
    <3>. QED
      BY <2>4, <3>1, <3>2, <3>3
  <2>12. ASSUME NEW a \in Attempts, Terminate(a) PROVE Irrevocable
    <3>. DEFINE new == [evidence[a] EXCEPT !.terminal = TRUE]
    <3>1. At(a, "terminal") /\ evidence' = [evidence EXCEPT ![a] = new] /\ UNCHANGED <<unresolved, fstab>>
      BY <2>12 DEF Terminate
    <3>2. evidence[a] # None /\ evidence[a] \in Evidence
      BY <2>5, <3>1 DEF At
    <3>3. new \in Evidence /\ evidence[a].intents \subseteq new.intents /\ evidence[a].observed \subseteq new.observed
      BY <3>2 DEF Evidence
    <3>. HIDE DEF new
    <3>. QED
      BY <2>4, <3>1, <3>2, <3>3
  <2>13. CASE Survivor \/ Reboot \/ Edit
    BY <2>3, <2>13 DEF Survivor, Reboot, Edit
  <2>. QED
    BY <2>1, <2>6, <2>7, <2>8, <2>9, <2>10, <2>11, <2>12, <2>13 DEF Next
<1>. QED
  BY <1>1, PreparationInvariant, PTL DEF Spec

-----------------------------------------------------------------------------
(* The approval of one run (RunApproval).                                  *)

CONSTANTS
    Nonces, Operators, MaxAttempts, MaxLosses

VARIABLES
    mem, disk, expired, attempts, root, op, audit, output, scope, losses

N == INSTANCE RunApproval

\* The variables have their types; a process that is not idle has read or issued an approval.
Numbers == 1 .. MaxAttempts
Kept == [current : N!Approvals \cup {None},
         claims : [Nonces -> [kind : {"none", "partial", "claim", "tombstone"}, attempt : Numbers \cup {None}]],
         history : [Nonces -> {{}, {"approval"}, {"approval", "terminal"}}]]
RootPlaces == {"idle", "issued", "tombstone", "again", "link", "linked", "terminal", "unlink", "unlinked"}
RunPlaces == {"idle", "schedule", "audit", "intent", "checks", "preflight", "final", "claim",
           "sync", "handoff", "marker", "spawn", "wait", "ended"}
Process(places) ==
    {p \in [at : places, nonce : Nonces \cup {None}, attempt : Numbers \cup {None}] :
        p.at # "idle" => p.nonce \in Nonces /\ p.attempt \in Numbers}
ApprovalTyped ==
    /\ mem \in Kept /\ disk \in Kept
    /\ expired \in SUBSET Numbers /\ attempts \in 0 .. MaxAttempts /\ losses \in 0 .. MaxLosses
    /\ root \in Process(RootPlaces) /\ op \in [Operators -> Process(RunPlaces)]
    /\ audit \in [Nonces -> (SUBSET N!Records) \cup {None}]
    /\ output \in [Nonces -> {"none", "empty", "marked", "result"}]
    /\ scope \in [Nonces -> [by : Numbers \cup {None}, state : {"none", "alive", "gone"}]]

\* The places at which a run may yet start its scope under the claim it made.
Launching == {"sync", "handoff", "marker", "spawn"}
Synced == {"handoff", "marker", "spawn", "wait"}
Audited == {"intent", "checks", "preflight", "final", "claim", "wait"} \cup Launching

\* What a run has written by the place it is at: its audit records, and from the claim on a
\* claim of its own, on the disk once it was synchronised.
RunHolds(p) ==
    /\ p.at \in Launching \cup Synced =>
          mem.claims[p.nonce] = [kind |-> "claim", attempt |-> p.attempt]
    /\ p.at \in Synced => disk.claims[p.nonce] = mem.claims[p.nonce]
    /\ p.at \in Audited => audit[p.nonce] # None
    /\ p.at \in Audited \ {"intent"} => "intent" \in audit[p.nonce]
    /\ p.at \in {"marker", "spawn", "wait"} => "handoff" \in audit[p.nonce]

\* One run at most may yet start the scope of a nonce, and none once it was started.
OneLaunch ==
    /\ \A o, q \in Operators :
          o # q /\ op[o].at \in Launching /\ op[q].at \in Launching => op[o].nonce # op[q].nonce
    /\ \A n \in Nonces, o \in Operators :
          scope[n].by # None /\ op[o].nonce = n => op[o].at \notin Launching
    /\ \A n \in Nonces : scope[n].state = "none" <=> scope[n].by = None

\* How far the retirement is: it is of the current approval; once it has decided to leave, the
\* nonce is claimed for good and nothing of it runs or will; history has what it linked and wrote.
RootHolds ==
    LET n == root.nonce
    IN /\ root.at \in {"tombstone", "again", "link", "linked", "terminal", "unlink"} =>
              mem.current # None /\ mem.current.nonce = n
       /\ root.at = "again" => mem.claims[n].kind = "tombstone"
       /\ root.at = "link" =>
              /\ mem.claims[n].kind # "none" /\ scope[n].state # "alive"
              /\ \A o \in Operators : op[o].nonce = n => op[o].at \notin Launching
       /\ root.at \in {"linked", "terminal"} => "approval" \in mem.history[n]
       /\ root.at = "linked" => scope[n].state # "alive"
       /\ root.at = "terminal" => "terminal" \in mem.history[n]
       /\ root.at = "unlink" => {"approval", "terminal"} \subseteq disk.history[n]

\* The inductive invariant of the approvals.
ApprovalInv ==
    /\ ApprovalTyped
    /\ \A o \in Operators : RunHolds(op[o])
    /\ OneLaunch /\ RootHolds
    /\ N!ScopeIsClaimed /\ N!AuditPrecedesScope /\ N!RetiredIsOver

\* What the assumption says.
LEMMA ApprovalNulls ==
    ASSUME N!ApprovalConstants
    PROVE  /\ MaxAttempts \in Nat /\ MaxLosses \in Nat
           /\ None \notin Nonces /\ None \notin Numbers /\ None \notin N!Approvals
           /\ None \notin SUBSET N!Records
BY DEF N!ApprovalConstants, Numbers

\* The first state has no approval.
LEMMA ApprovalStarts ==
    ASSUME N!ApprovalConstants, N!Init PROVE ApprovalInv
<1> USE ApprovalNulls
<1>1. ApprovalTyped
  <2>1. mem \in Kept /\ disk \in Kept
    BY DEF N!Init, N!NoClaim, Kept
  <2>2. N!Free \in Process(RootPlaces) /\ N!Free \in Process(RunPlaces)
    BY DEF N!Free, Process, RunPlaces, RootPlaces
  <2>3. root \in Process(RootPlaces) /\ op \in [Operators -> Process(RunPlaces)]
    BY <2>2 DEF N!Init
  <2>4. /\ audit \in [Nonces -> (SUBSET N!Records) \cup {None}]
        /\ output \in [Nonces -> {"none", "empty", "marked", "result"}]
        /\ scope \in [Nonces -> [by : Numbers \cup {None}, state : {"none", "alive", "gone"}]]
    BY DEF N!Init
  <2>5. attempts \in 0 .. MaxAttempts /\ losses \in 0 .. MaxLosses /\ expired \in SUBSET Numbers
    BY DEF N!Init
  <2> QED
    BY <2>1, <2>3, <2>4, <2>5 DEF ApprovalTyped
<1>2. \A o \in Operators : RunHolds(op[o])
  BY DEF N!Init, N!Free, RunHolds, Launching, Synced, Audited
<1>3. OneLaunch /\ RootHolds
  BY DEF N!Init, N!Free, OneLaunch, RootHolds, Launching
<1>4. N!ScopeIsClaimed /\ N!AuditPrecedesScope /\ N!RetiredIsOver
  BY DEF N!Init, N!ScopeIsClaimed, N!AuditPrecedesScope, N!RetiredIsOver
<1> QED
  BY <1>1, <1>2, <1>3, <1>4 DEF ApprovalInv

\* Whatever was started or may yet start has claimed its nonce.
LEMMA ClaimedBefore ==
    ASSUME ApprovalInv
    PROVE  /\ \A n \in Nonces : scope[n].by # None => mem.claims[n].kind = "claim"
           /\ \A o \in Operators : op[o].at \in Launching \cup Synced => mem.claims[op[o].nonce].kind = "claim"
<1>1. ASSUME NEW n \in Nonces, scope[n].by # None PROVE mem.claims[n].kind = "claim"
  <2>1. mem.claims[n] = [kind |-> "claim", attempt |-> scope[n].by]
    BY <1>1 DEF ApprovalInv, N!ScopeIsClaimed
  <2> QED
    BY <2>1
<1>2. ASSUME NEW o \in Operators, op[o].at \in Launching \cup Synced
      PROVE  mem.claims[op[o].nonce].kind = "claim"
  <2>1. mem.claims[op[o].nonce] = [kind |-> "claim", attempt |-> op[o].attempt]
    BY <1>2 DEF ApprovalInv, RunHolds
  <2> QED
    BY <2>1
<1> QED
  BY <1>1, <1>2

\* A run moves on: it leaves the store and the scope alone, only adds to the audit, and gets
\* nearer to its launch only from the step before.
LEMMA RunMoves ==
    ASSUME N!ApprovalConstants, ApprovalInv, NEW o \in Operators, NEW p \in Process(RunPlaces),
           op' = [op EXCEPT ![o] = p], UNCHANGED <<mem, disk, expired, attempts, root, scope, losses>>,
           output' \in [Nonces -> {"none", "empty", "marked", "result"}],
           audit' \in [Nonces -> (SUBSET N!Records) \cup {None}],
           \A n \in Nonces : audit[n] # None => audit'[n] # None /\ audit[n] \subseteq audit'[n],
           p.at \in Launching => op[o].at \in Launching /\ p.nonce = op[o].nonce,
           RunHolds(p)'
    PROVE  ApprovalInv'
<1> USE ApprovalNulls
<1>1. ApprovalTyped'
  BY DEF ApprovalInv, ApprovalTyped
<1>2. ASSUME NEW q \in Operators PROVE RunHolds(op[q])'
  BY DEF ApprovalInv, ApprovalTyped, RunHolds, Process, Audited, Launching
<1>3. OneLaunch'
  BY DEF ApprovalInv, ApprovalTyped, OneLaunch
<1>4. RootHolds'
  BY DEF ApprovalInv, ApprovalTyped, RootHolds
<1>5. N!ScopeIsClaimed' /\ N!RetiredIsOver'
  BY DEF ApprovalInv, N!ScopeIsClaimed, N!RetiredIsOver
<1>6. N!AuditPrecedesScope'
  BY DEF ApprovalInv, N!AuditPrecedesScope
<1> QED
  BY <1>1, <1>2, <1>3, <1>4, <1>5, <1>6 DEF ApprovalInv

\* A run before its claim and after it, and its end.
LEMMA RunsPreserve ==
    ASSUME N!ApprovalConstants, ApprovalInv, NEW o \in Operators,
           \/ N!Start(o) \/ N!Wait(o) \/ N!CreateAudit(o) \/ N!Intent(o) \/ N!Early(o) \/ N!Preflight(o)
           \/ N!FinalChecks(o) \/ N!Handoff(o) \/ N!Marker(o) \/ N!Result(o) \/ N!Blocks(o)
    PROVE  ApprovalInv'
<1> USE ApprovalNulls
<1> DEFINE n == op[o].nonce
           to(place) == [op[o] EXCEPT !.at = place]
<1>1. op \in [Operators -> Process(RunPlaces)] /\ op[o] \in Process(RunPlaces) /\ RunHolds(op[o])
      /\ audit \in [Nonces -> (SUBSET N!Records) \cup {None}]
      /\ output \in [Nonces -> {"none", "empty", "marked", "result"}]
  BY DEF ApprovalInv, ApprovalTyped
<1>2. ASSUME NEW place \in RunPlaces, op[o].at # "idle"
      PROVE  /\ to(place) \in Process(RunPlaces) /\ to(place).at = place
             /\ to(place).nonce = n /\ to(place).attempt = op[o].attempt
             /\ n \in Nonces
  BY <1>1, <1>2 DEF Process
<1>3. ASSUME NEW place \in RunPlaces, op[o].at # "idle", op' = [op EXCEPT ![o].at = place],
             UNCHANGED <<mem, disk, expired, attempts, root, scope, losses>>,
             output' \in [Nonces -> {"none", "empty", "marked", "result"}],
             \/ audit' = audit
             \/ audit[n] = None /\ audit' = [audit EXCEPT ![n] = {}]
             \/ audit[n] # None /\ \E name \in N!Records : audit' = [audit EXCEPT ![n] = audit[n] \cup {name}],
             place \in Launching => op[o].at \in Launching,
             place \in Synced => op[o].at \in Synced,
             place \in Audited => audit'[n] # None,
             place \in Audited \ {"intent"} => "intent" \in audit'[n],
             place \in {"marker", "spawn", "wait"} => "handoff" \in audit'[n]
      PROVE  ApprovalInv'
  <2>1. PICK p \in Process(RunPlaces) : p = to(place)
    BY <1>2, <1>3
  <2>2. p.at = place /\ p.nonce = n /\ p.attempt = op[o].attempt /\ n \in Nonces
        /\ op' = [op EXCEPT ![o] = p]
    BY <1>1, <1>2, <1>3, <2>1
  <2>3. /\ audit' \in [Nonces -> (SUBSET N!Records) \cup {None}]
        /\ \A m \in Nonces : audit[m] # None => audit'[m] # None /\ audit[m] \subseteq audit'[m]
    BY <1>1, <1>3, <2>2
  <2>4. RunHolds(p)'
    BY <1>1, <1>3, <2>2 DEF RunHolds, Launching, Synced
  <2>5. p.at \in Launching => op[o].at \in Launching /\ p.nonce = op[o].nonce
    BY <1>3, <2>2
  <2> HIDE DEF n
  <2> QED
    BY <1>3, <2>2, <2>3, <2>4, <2>5, RunMoves
<1>4. CASE N!Start(o)
  <2>1. [at |-> "schedule", nonce |-> mem.current.nonce, attempt |-> mem.current.attempt] \in Process(RunPlaces)
    BY <1>4 DEF N!Start, N!Readable, ApprovalInv, ApprovalTyped, Kept, N!Approvals, Process, RunPlaces, Numbers
  <2>2. PICK p \in Process(RunPlaces) : p.at = "schedule" /\ op' = [op EXCEPT ![o] = p]
    BY <1>4, <2>1 DEF N!Start
  <2>3. RunHolds(p)'
    BY <2>2 DEF RunHolds, Launching, Synced, Audited
  <2> QED
    BY <1>1, <1>4, <2>2, <2>3, RunMoves DEF N!Start, Launching, N!store
<1>5. CASE N!Wait(o)
  BY <1>1, <1>3, <1>5 DEF N!Wait, N!Step, RunPlaces, Launching, Synced, Audited, N!store
<1>6. CASE N!CreateAudit(o)
  <2>1. n \in Nonces
    BY <1>1, <1>2, <1>6 DEF N!CreateAudit, RunPlaces
  <2>2. CASE audit[n] = None
    BY <1>1, <1>3, <1>6, <2>1, <2>2 DEF N!CreateAudit, N!Step, RunPlaces, Launching, Synced, Audited, N!store
  <2>3. CASE audit[n] # None
    BY <1>1, <1>3, <1>6, <2>1, <2>3 DEF N!CreateAudit, N!Ends, RunPlaces, Launching, Synced, Audited, N!store
  <2> QED
    BY <2>2, <2>3
<1>7. CASE N!Intent(o)
  <2>1. n \in Nonces /\ audit[n] # None
    BY <1>1, <1>2, <1>7 DEF N!Intent, N!Step, RunPlaces, RunHolds, Audited
  <2>2. audit' = [audit EXCEPT ![n] = audit[n] \cup {"intent"}] /\ audit'[n] = audit[n] \cup {"intent"}
    BY <1>1, <1>7, <2>1 DEF N!Intent, N!Record
  <2>3. audit'[n] # None
    BY <1>1, <2>1, <2>2 DEF N!Records
  <2> QED
    BY <1>1, <1>3, <1>7, <2>1, <2>2, <2>3 DEF N!Intent, N!Step, N!Records, RunPlaces, Launching, Synced, Audited, N!store
<1>8. CASE N!Early(o) \/ N!Preflight(o) \/ N!FinalChecks(o)
  BY <1>1, <1>3, <1>8 DEF N!Early, N!Preflight, N!FinalChecks, N!Step, RunPlaces, RunHolds, Launching, Synced,
                          Audited, N!store
<1>9. CASE N!Handoff(o)
  <2>1. n \in Nonces /\ audit[n] # None /\ "intent" \in audit[n]
    BY <1>1, <1>2, <1>9 DEF N!Handoff, N!Step, RunPlaces, RunHolds, Audited, Launching
  <2>2. audit' = [audit EXCEPT ![n] = audit[n] \cup {"handoff"}] /\ audit'[n] = audit[n] \cup {"handoff"}
    BY <1>1, <1>9, <2>1 DEF N!Handoff, N!Record
  <2>3. audit'[n] # None
    <3>1. audit[n] \in SUBSET N!Records
      BY <1>1, <2>1
    <3>2. audit'[n] \in SUBSET N!Records
      BY <2>2, <3>1 DEF N!Records
    <3> QED
      BY <3>2
  <2> QED
    BY <1>1, <1>3, <1>9, <2>1, <2>2, <2>3 DEF N!Handoff, N!Step, N!Records, RunPlaces, Launching, Synced, N!store
<1>10. CASE N!Marker(o)
  <2>1. n \in Nonces
    BY <1>1, <1>2, <1>10 DEF N!Marker, N!Step, RunPlaces
  <2> QED
    BY <1>1, <1>3, <1>10, <2>1 DEF N!Marker, N!Step, RunPlaces, RunHolds, Launching, Synced, Audited, N!store
<1>11. CASE N!Result(o)
  <2>1. n \in Nonces /\ audit[n] # None
    BY <1>1, <1>2, <1>11 DEF N!Result, N!Step, RunPlaces, RunHolds, Audited
  <2> QED
    BY <1>1, <1>3, <1>11, <2>1 DEF N!Result, N!Step, N!Record, N!Records, RunPlaces, Launching, Synced, Audited, N!store
<1>12. CASE N!Blocks(o)
  <2>1. n \in Nonces /\ (op[o].at \in Audited => audit[n] # None)
    BY <1>1, <1>2, <1>12 DEF N!Blocks, RunPlaces, RunHolds
  <2>2. op[o].at \notin {"idle", "ended", "schedule", "audit"} => op[o].at \in Audited
    BY <1>1 DEF Process, RunPlaces, Audited, Launching
  <2> QED
    BY <1>1, <1>3, <1>12, <2>1, <2>2 DEF N!Blocks, N!Ends, N!Record, N!Records, RunPlaces, Launching, Synced, Audited, N!store
<1> QED
  BY <1>4, <1>5, <1>6, <1>7, <1>8, <1>9, <1>10, <1>11, <1>12

\* The claim takes a free name; what it leaves is a claim of its own or a partial one.
LEMMA ClaimPreserves ==
    ASSUME N!ApprovalConstants, ApprovalInv, NEW o \in Operators, N!Claim(o) PROVE ApprovalInv'
<1> USE ApprovalNulls
<1>0. op[o].nonce \in Nonces /\ op[o].attempt \in Numbers
  BY DEF N!Claim, N!Step, ApprovalInv, ApprovalTyped, Process
<1>1. PICK n \in Nonces, a \in Numbers, kind \in {"claim", "partial"} :
          /\ n = op[o].nonce /\ a = op[o].attempt
          /\ mem' = [mem EXCEPT !.claims[n] = [kind |-> kind, attempt |-> a]]
          /\ op' = [op EXCEPT ![o].at = IF kind = "claim" THEN "sync" ELSE "ended"]
  <2>1. PICK kind \in {"claim", "partial"} :
          /\ mem' = [mem EXCEPT !.claims[op[o].nonce] = [kind |-> kind, attempt |-> op[o].attempt]]
          /\ op' = [op EXCEPT ![o].at = IF kind = "claim" THEN "sync" ELSE "ended"]
    BY DEF N!Claim, N!Step
  <2>2. PICK n \in Nonces, a \in Numbers : n = op[o].nonce /\ a = op[o].attempt
    BY <1>0
  <2> QED
    BY <2>1, <2>2
<1>2. PICK place \in {"sync", "ended"} :
          op' = [op EXCEPT ![o].at = place] /\ (place = "sync" <=> kind = "claim")
  BY <1>1
<1>3. /\ op[o].at = "claim" /\ mem.claims[n].kind = "none"
      /\ UNCHANGED <<disk, expired, attempts, root, audit, output, scope, losses>>
  BY <1>1 DEF N!Claim, N!Step
<1>4. /\ mem' \in Kept /\ mem'.current = mem.current /\ mem'.history = mem.history
      /\ mem'.claims[n] = [kind |-> kind, attempt |-> a]
      /\ \A m \in Nonces \ {n} : mem'.claims[m] = mem.claims[m]
  BY <1>1 DEF ApprovalInv, ApprovalTyped, Kept
<1>5. /\ op' \in [Operators -> Process(RunPlaces)]
      /\ op'[o].at = place /\ op'[o].nonce = n /\ op'[o].attempt = a
      /\ \A q \in Operators \ {o} : op'[q] = op[q]
  BY <1>1, <1>2 DEF ApprovalInv, ApprovalTyped, Process, RunPlaces
<1>6. ApprovalTyped'
  BY <1>3, <1>4, <1>5 DEF ApprovalInv, ApprovalTyped
<1>7. ASSUME NEW q \in Operators PROVE RunHolds(op[q])'
  <2>1. CASE q = o
    BY <1>2, <1>3, <1>4, <1>5, <2>1 DEF ApprovalInv, RunHolds, Launching, Synced, Audited
  <2>2. CASE q # o
    <3>1. RunHolds(op[q]) /\ op[q] \in Process(RunPlaces)
      BY DEF ApprovalInv, ApprovalTyped
    <3>2. op[q].at \in Launching \cup Synced => op[q].nonce \in Nonces \ {n}
      BY <1>3, <3>1 DEF RunHolds, Process, Launching, Synced
    <3> QED
      BY <1>3, <1>4, <1>5, <2>2, <3>1, <3>2 DEF RunHolds, Synced
  <2> QED
    BY <2>1, <2>2
<1>8. OneLaunch'
  BY <1>2, <1>3, <1>5, ClaimedBefore DEF ApprovalInv, OneLaunch, Launching
<1>9. RootHolds'
  <2>1. \A q \in Operators : op'[q].nonce = root.nonce /\ op'[q].at \in Launching =>
            root.nonce = n \/ (op[q].nonce = root.nonce /\ op[q].at \in Launching)
    BY <1>5
  <2>2. root.at = "again" \/ root.at = "link" => root.nonce \in Nonces \ {n}
    BY <1>3 DEF ApprovalInv, ApprovalTyped, RootHolds, Process
  <2> QED
    BY <1>3, <1>4, <2>1, <2>2 DEF ApprovalInv, RootHolds
<1>10. N!ScopeIsClaimed'
  BY <1>3, <1>4, ClaimedBefore DEF ApprovalInv, N!ScopeIsClaimed
<1>11. N!AuditPrecedesScope' /\ N!RetiredIsOver'
  BY <1>3, <1>4 DEF ApprovalInv, N!AuditPrecedesScope, N!RetiredIsOver
<1> QED
  BY <1>6, <1>7, <1>8, <1>9, <1>10, <1>11 DEF ApprovalInv

\* A claim reaches the disk with its directory.
LEMMA ClaimSyncPreserves ==
    ASSUME N!ApprovalConstants, ApprovalInv, NEW o \in Operators, N!SyncClaim(o) PROVE ApprovalInv'
<1> USE ApprovalNulls
<1>1. PICK n \in Nonces, a \in Numbers : n = op[o].nonce /\ a = op[o].attempt
  BY DEF N!SyncClaim, N!Step, ApprovalInv, ApprovalTyped, Process
<1>2. /\ op[o].at = "sync" /\ op' = [op EXCEPT ![o].at = "handoff"]
      /\ UNCHANGED <<mem, expired, attempts, root, audit, output, scope, losses>>
      /\ disk' = [disk EXCEPT !.claims = mem.claims]
  BY DEF N!SyncClaim, N!Step, N!Sync
<1>3. disk' \in Kept /\ disk'.claims = mem.claims /\ disk'.history = disk.history
  BY <1>2 DEF ApprovalInv, ApprovalTyped, Kept
<1>4. /\ op' \in [Operators -> Process(RunPlaces)]
      /\ op'[o].at = "handoff" /\ op'[o].nonce = n /\ op'[o].attempt = a
      /\ \A q \in Operators \ {o} : op'[q] = op[q]
  BY <1>1, <1>2 DEF ApprovalInv, ApprovalTyped, Process, RunPlaces
<1>5. ApprovalTyped'
  BY <1>2, <1>3, <1>4 DEF ApprovalInv, ApprovalTyped
<1>6. ASSUME NEW q \in Operators PROVE RunHolds(op[q])'
  BY <1>1, <1>2, <1>3, <1>4 DEF ApprovalInv, RunHolds, Launching, Synced, Audited
<1>7. OneLaunch' /\ RootHolds'
  BY <1>1, <1>2, <1>3, <1>4 DEF Launching, ApprovalInv, OneLaunch, RootHolds
<1>8. N!ScopeIsClaimed' /\ N!AuditPrecedesScope' /\ N!RetiredIsOver'
  BY <1>2, <1>3 DEF ApprovalInv, N!ScopeIsClaimed, N!AuditPrecedesScope, N!RetiredIsOver
<1> QED
  BY <1>5, <1>6, <1>7, <1>8 DEF ApprovalInv

\* The scope starts under the one claim of its nonce, which no retirement has reached.
LEMMA SpawnPreserves ==
    ASSUME N!ApprovalConstants, ApprovalInv, NEW o \in Operators, N!Spawn(o) PROVE ApprovalInv'
<1> USE ApprovalNulls
<1>1. PICK n \in Nonces, a \in Numbers : n = op[o].nonce /\ a = op[o].attempt
  BY DEF N!Spawn, N!Step, ApprovalInv, ApprovalTyped, Process
<1>2. /\ op[o].at = "spawn" /\ op' = [op EXCEPT ![o].at = "wait"]
      /\ scope' = [scope EXCEPT ![n] = [by |-> a, state |-> "alive"]]
      /\ UNCHANGED <<mem, disk, expired, attempts, root, audit, output, losses>>
      /\ mem.current.nonce = n /\ "approval" \notin mem.history[n]
  BY <1>1 DEF N!Spawn, N!Step, N!Valid, N!Reads, N!Readable, N!store
<1>3. /\ scope' \in [Nonces -> [by : Numbers \cup {None}, state : {"none", "alive", "gone"}]]
      /\ scope'[n].by = a /\ scope'[n].state = "alive" /\ a # None
      /\ \A m \in Nonces \ {n} : scope'[m] = scope[m]
  BY <1>1, <1>2 DEF ApprovalInv, ApprovalTyped
<1>4. /\ op' \in [Operators -> Process(RunPlaces)]
      /\ op'[o].at = "wait" /\ op'[o].nonce = n /\ op'[o].attempt = a
      /\ \A q \in Operators \ {o} : op'[q] = op[q]
  BY <1>1, <1>2 DEF ApprovalInv, ApprovalTyped, Process, RunPlaces
<1>5. ApprovalTyped'
  BY <1>2, <1>3, <1>4 DEF ApprovalInv, ApprovalTyped
<1>6. ASSUME NEW q \in Operators PROVE RunHolds(op[q])'
  BY <1>1, <1>2, <1>4 DEF ApprovalInv, RunHolds, Launching, Synced, Audited
<1>7. OneLaunch'
  BY <1>1, <1>2, <1>3, <1>4 DEF ApprovalInv, OneLaunch, Launching
<1>8. RootHolds'
  BY <1>1, <1>2, <1>3, <1>4 DEF ApprovalInv, RootHolds, Launching, ApprovalTyped, Process
<1>9. N!ScopeIsClaimed' /\ N!AuditPrecedesScope'
  <2>1. /\ mem.claims[n] = [kind |-> "claim", attempt |-> a] /\ disk.claims[n] = mem.claims[n]
        /\ audit[n] # None /\ {"intent", "handoff"} \subseteq audit[n]
    BY <1>1, <1>2 DEF ApprovalInv, RunHolds, Synced, Audited, Launching
  <2>2. ASSUME NEW m \in Nonces, scope'[m].by # None
        PROVE  /\ mem.claims[m] = [kind |-> "claim", attempt |-> scope'[m].by] /\ disk.claims[m] = mem.claims[m]
               /\ audit[m] # None /\ {"intent", "handoff"} \subseteq audit[m]
    BY <1>3, <2>1, <2>2 DEF ApprovalInv, N!ScopeIsClaimed, N!AuditPrecedesScope
  <2> QED
    BY <1>2, <2>2 DEF N!ScopeIsClaimed, N!AuditPrecedesScope
<1>10. N!RetiredIsOver'
  <2>1. "terminal" \notin mem.history[n]
    BY <1>2 DEF ApprovalInv, ApprovalTyped, Kept
  <2> QED
    BY <1>2, <1>3, <2>1 DEF ApprovalInv, N!RetiredIsOver
<1> QED
  BY <1>5, <1>6, <1>7, <1>8, <1>9, <1>10 DEF ApprovalInv

\* The retirement moves on, with the store: the claims stay or get a tombstone, the current
\* approval leaves only at the end, and the history grows.
LEMMA RootMoves ==
    ASSUME N!ApprovalConstants, ApprovalInv, UNCHANGED <<op, audit, scope>>,
           mem' \in Kept, disk' \in Kept, root' \in Process(RootPlaces), RootHolds',
           expired' \in SUBSET Numbers, attempts' \in 0 .. MaxAttempts, losses' \in 0 .. MaxLosses,
           output' \in [Nonces -> {"none", "empty", "marked", "result"}],
           \A n \in Nonces : mem.claims[n].kind = "claim" => mem'.claims[n] = mem.claims[n],
           \A n \in Nonces : disk'.claims[n] = disk.claims[n] \/ disk'.claims[n] = mem'.claims[n],
           \A n \in Nonces : "terminal" \in mem'.history[n] =>
               "terminal" \in mem.history[n] \/ scope[n].state # "alive"
    PROVE  ApprovalInv'
<1>1. ApprovalTyped'
  BY DEF ApprovalInv, ApprovalTyped
<1>2. ASSUME NEW q \in Operators PROVE RunHolds(op[q])'
  <2>1. RunHolds(op[q]) /\ op[q] \in Process(RunPlaces)
    BY DEF ApprovalInv, ApprovalTyped
  <2>2. op[q].at \in Launching \cup Synced =>
            op[q].nonce \in Nonces /\ mem'.claims[op[q].nonce] = mem.claims[op[q].nonce]
    BY <2>1, ClaimedBefore DEF Process, Launching, Synced
  <2>3. op[q].at \in Synced => disk'.claims[op[q].nonce] = mem'.claims[op[q].nonce]
    BY <2>1, <2>2 DEF RunHolds
  <2> QED
    BY <2>1, <2>2, <2>3 DEF RunHolds
<1>3. OneLaunch'
  BY DEF ApprovalInv, OneLaunch
<1>4. N!ScopeIsClaimed'
  BY ClaimedBefore DEF N!ScopeIsClaimed, ApprovalInv
<1>5. N!AuditPrecedesScope' /\ N!RetiredIsOver'
  BY DEF ApprovalInv, N!AuditPrecedesScope, N!RetiredIsOver
<1> QED
  BY <1>1, <1>2, <1>3, <1>4, <1>5 DEF ApprovalInv

\* An approval is issued when none is current, and its directory is prepared.
LEMMA IssuePreserves ==
    ASSUME N!ApprovalConstants, ApprovalInv, \/ \E n \in Nonces : N!Issue(n)
                                             \/ N!SyncIssue \/ N!PrepareOutput \/ N!RootStops
    PROVE  ApprovalInv'
<1> USE ApprovalNulls
<1>1. ApprovalTyped /\ N!Free \in Process(RootPlaces)
  BY DEF ApprovalInv, N!Free, Process, RootPlaces
<1>2. ASSUME NEW n \in Nonces, N!Issue(n) PROVE ApprovalInv'
  <2>1. PICK whole \in BOOLEAN :
            /\ mem' = [mem EXCEPT !.current = [nonce |-> n, attempt |-> attempts', whole |-> whole]]
            /\ root' = IF whole THEN [at |-> "issued", nonce |-> n, attempt |-> attempts'] ELSE N!Free
    BY <1>2 DEF N!Issue
  <2>2. attempts' \in Numbers /\ attempts' \in 0 .. MaxAttempts
    BY <1>1, <1>2 DEF N!Issue, ApprovalTyped, Numbers
  <2>3. mem' \in Kept /\ mem'.claims = mem.claims /\ mem'.history = mem.history
    BY <1>1, <2>1, <2>2 DEF N!Approvals, Numbers, ApprovalTyped, Kept
  <2>4. root' \in Process(RootPlaces) /\ root'.at \in {"idle", "issued"}
    BY <2>1, <2>2 DEF N!Free, Process, RootPlaces
  <2>5. RootHolds'
    BY <2>4 DEF RootHolds
  <2>6. UNCHANGED <<disk, expired, op, audit, output, scope, losses>>
    BY <1>2 DEF N!Issue, N!run
  <2> QED
    BY <1>1, <2>2, <2>3, <2>4, <2>5, <2>6, RootMoves DEF ApprovalTyped
<1>3. CASE N!SyncIssue
  <2>1. /\ root' = N!Free /\ UNCHANGED <<mem, expired, attempts, op, audit, output, scope, losses>>
        /\ disk' = [disk EXCEPT !.current = mem.current]
    BY <1>3 DEF N!SyncIssue, N!Sync, N!run
  <2>2. disk' \in Kept /\ disk'.claims = disk.claims
    BY <1>1, <2>1 DEF ApprovalTyped, Kept
  <2>3. RootHolds'
    BY <2>1 DEF RootHolds, N!Free
  <2> QED
    BY <1>1, <2>1, <2>2, <2>3, RootMoves DEF ApprovalTyped
<1>4. CASE N!PrepareOutput
  BY <1>1, <1>4, RootMoves DEF N!PrepareOutput, RootHolds, N!store, ApprovalTyped
<1>5. CASE N!RootStops
  BY <1>1, <1>5, RootMoves DEF N!RootStops, RootHolds, N!Free, N!store, N!run, ApprovalTyped
<1> QED
  BY <1>2, <1>3, <1>4, <1>5

\* A retirement begins with a claimed approval of which nothing runs, or with one it takes the
\* name of before it looks again; no run gets past a claim that is not its own.
LEMMA RetirementBegins ==
    ASSUME N!ApprovalConstants, ApprovalInv,
           N!RetireClaimed \/ N!RetireUnclaimed \/ N!Tombstone \/ N!ObserveAgain
    PROVE  ApprovalInv'
<1> USE ApprovalNulls
<1>1. ApprovalTyped /\ N!Free \in Process(RootPlaces)
  BY DEF ApprovalInv, N!Free, Process, RootPlaces
<1>2. N!Readable => mem.current.nonce \in Nonces /\ mem.current.attempt \in Numbers /\ mem.current # None
  BY <1>1 DEF N!Readable, ApprovalTyped, Kept, N!Approvals, Numbers
<1>3. CASE N!RetireClaimed
  <2>1. PICK n \in Nonces, a \in Numbers :
            n = mem.current.nonce /\ a = mem.current.attempt /\ mem.current # None
    BY <1>2, <1>3 DEF N!RetireClaimed
  <2>2. root' = [at |-> "link", nonce |-> n, attempt |-> a]
        /\ UNCHANGED <<mem, disk, expired, attempts, op, audit, output, scope, losses>>
    BY <1>3, <2>1 DEF N!RetireClaimed, N!store, N!run
  <2>3. /\ mem.claims[n] = [kind |-> "claim", attempt |-> a] /\ scope[n].state # "alive"
        /\ \A o \in Operators : op[o].nonce = n => op[o].at = "ended"
    BY <1>3, <2>1 DEF N!RetireClaimed, N!Reviewed
  <2>4. root' \in Process(RootPlaces)
    BY <2>2 DEF Process, RootPlaces
  <2>5. RootHolds'
    BY <2>1, <2>2, <2>3 DEF RootHolds, Launching
  <2> QED
    BY <1>1, <2>2, <2>4, <2>5, RootMoves DEF ApprovalTyped
<1>4. CASE N!RetireUnclaimed
  <2>1. PICK n \in Nonces, a \in Numbers :
            n = mem.current.nonce /\ a = mem.current.attempt /\ mem.current # None
    BY <1>2, <1>4 DEF N!RetireUnclaimed
  <2>2. root' = [at |-> "tombstone", nonce |-> n, attempt |-> a]
        /\ UNCHANGED <<mem, disk, expired, attempts, op, audit, output, scope, losses>>
    BY <1>4, <2>1 DEF N!RetireUnclaimed, N!store, N!run
  <2>3. root' \in Process(RootPlaces)
    BY <2>2 DEF Process, RootPlaces
  <2>4. RootHolds'
    BY <2>1, <2>2 DEF RootHolds
  <2> QED
    BY <1>1, <2>2, <2>3, <2>4, RootMoves DEF ApprovalTyped
<1>5. CASE N!Tombstone
  <2>1. PICK n \in Nonces, a \in Numbers : n = root.nonce /\ a = root.attempt
    BY <1>1, <1>5 DEF N!Tombstone, ApprovalTyped, Process
  <2>2. PICK kind \in {"tombstone", "partial"} :
            /\ mem' = [mem EXCEPT !.claims[n] = [kind |-> kind, attempt |-> a]]
            /\ root' = IF kind = "tombstone" THEN [root EXCEPT !.at = "again"] ELSE N!Free
    BY <1>5, <2>1 DEF N!Tombstone, N!At
  <2>3. /\ root.at = "tombstone" /\ mem.claims[n].kind = "none"
        /\ UNCHANGED <<disk, expired, attempts, op, audit, output, scope, losses>>
    BY <1>5, <2>1 DEF N!Tombstone, N!run
  <2>4. /\ mem' \in Kept /\ mem'.current = mem.current /\ mem'.history = mem.history
        /\ mem'.claims[n].kind = kind /\ \A m \in Nonces \ {n} : mem'.claims[m] = mem.claims[m]
    BY <1>1, <2>2 DEF ApprovalTyped, Kept
  <2>5. root' \in Process(RootPlaces)
    BY <1>1, <2>2, <2>3 DEF ApprovalTyped, Process, RootPlaces
  <2>6. RootHolds'
    <3>1. CASE kind = "tombstone"
      <4>1. root'.at = "again" /\ root'.nonce = n
        BY <1>1, <2>1, <2>2, <3>1 DEF ApprovalTyped, Process
      <4> QED
        BY <2>1, <2>3, <2>4, <3>1, <4>1 DEF RootHolds, ApprovalInv
    <3>2. CASE kind # "tombstone"
      BY <2>2, <3>2 DEF RootHolds, N!Free
    <3> QED
      BY <3>1, <3>2
  <2> QED
    BY <1>1, <2>3, <2>4, <2>5, <2>6, RootMoves DEF ApprovalTyped
<1>6. CASE N!ObserveAgain
  <2>1. PICK n \in Nonces : n = root.nonce
    BY <1>1, <1>6 DEF N!ObserveAgain, ApprovalTyped, Process
  <2>2. /\ root.at = "again" /\ UNCHANGED <<mem, expired, attempts, op, audit, output, scope, losses>>
        /\ disk' = [disk EXCEPT !.claims = mem.claims]
        /\ \/ root' = [root EXCEPT !.at = "link"] /\ scope[n].state # "alive"
           \/ root' = N!Free
    BY <1>6, <2>1 DEF N!ObserveAgain, N!At, N!Sync, N!Observed, N!run
  <2>3. disk' \in Kept /\ disk'.claims = mem.claims
    BY <1>1, <2>2 DEF ApprovalTyped, Kept
  <2>4. root' \in Process(RootPlaces) /\ (root'.at = "idle" \/ (root'.at = "link" /\ root'.nonce = n))
    BY <1>1, <2>1, <2>2 DEF ApprovalTyped, Process, RootPlaces, N!Free
  <2>5. RootHolds'
    BY <2>1, <2>2, <2>4, ClaimedBefore DEF RootHolds, N!Free, ApprovalInv
  <2> QED
    BY <1>1, <2>2, <2>3, <2>4, <2>5, RootMoves DEF ApprovalTyped
<1> QED
  BY <1>3, <1>4, <1>5, <1>6

\* It links the approval into history, writes the terminal record there, and lets the current
\* approval go when both are on the disk.
LEMMA RetirementEnds ==
    ASSUME N!ApprovalConstants, ApprovalInv,
           N!Link \/ N!Terminal \/ N!SyncTerminal \/ N!Unlink \/ N!SyncUnlink
    PROVE  ApprovalInv'
<1> USE ApprovalNulls
<1>1. ApprovalTyped /\ N!Free \in Process(RootPlaces) /\ RootHolds
  BY DEF ApprovalInv, N!Free, Process, RootPlaces
<1>2. root.at # "idle" /\ UNCHANGED <<expired, attempts, op, audit, output, scope, losses>>
  BY DEF N!Link, N!Terminal, N!SyncTerminal, N!Unlink, N!SyncUnlink, N!run
<1>3. PICK n \in Nonces : n = root.nonce
  BY <1>1, <1>2 DEF ApprovalTyped, Process
<1>4. ASSUME NEW place \in RootPlaces \ {"idle"}, root' = [root EXCEPT !.at = place]
      PROVE  root' \in Process(RootPlaces) /\ root'.at = place /\ root'.nonce = n
  BY <1>1, <1>2, <1>3, <1>4 DEF ApprovalTyped, Process
<1>5. CASE N!Link
  <2>1. /\ root.at = "link" /\ "approval" \notin mem.history[n] /\ disk' = disk
        /\ mem' = [mem EXCEPT !.history[n] = mem.history[n] \cup {"approval"}]
        /\ root' = [root EXCEPT !.at = "linked"]
    BY <1>3, <1>5 DEF N!Link, N!At
  <2>2. mem.history[n] = {}
    <3>1. mem.history[n] \in {{}, {"approval"}, {"approval", "terminal"}}
      BY <1>1 DEF ApprovalTyped, Kept
    <3> QED
      BY <2>1, <3>1
  <2>3. mem' = [mem EXCEPT !.history[n] = {"approval"}]
    BY <2>1, <2>2
  <2>4. /\ mem' \in Kept /\ mem'.current = mem.current /\ mem'.claims = mem.claims
        /\ mem'.history[n] = {"approval"} /\ \A m \in Nonces \ {n} : mem'.history[m] = mem.history[m]
    BY <1>1, <2>3 DEF ApprovalTyped, Kept
  <2>5. root' \in Process(RootPlaces) /\ root'.at = "linked" /\ root'.nonce = n
    BY <1>4, <2>1 DEF RootPlaces
  <2>6. RootHolds'
    BY <1>1, <1>2, <1>3, <2>1, <2>4, <2>5 DEF RootHolds
  <2> QED
    BY <1>1, <1>2, <2>1, <2>4, <2>5, <2>6, RootMoves DEF ApprovalTyped
<1>6. CASE N!Terminal
  <2>1. /\ root.at = "linked"
        /\ mem' = [mem EXCEPT !.history[n] = mem.history[n] \cup {"terminal"}]
        /\ disk' = [disk EXCEPT !.history = mem.history]
        /\ root' = [root EXCEPT !.at = "terminal"]
    BY <1>3, <1>6 DEF N!Terminal, N!At
  <2>2. mem.history[n] \cup {"terminal"} = {"approval", "terminal"}
    <3>1. "approval" \in mem.history[n] /\ mem.history[n] \in {{}, {"approval"}, {"approval", "terminal"}}
      BY <1>1, <1>3, <2>1 DEF RootHolds, ApprovalTyped, Kept
    <3> QED
      BY <3>1
  <2>3. mem' = [mem EXCEPT !.history[n] = {"approval", "terminal"}]
    BY <2>1, <2>2
  <2>4. /\ mem' \in Kept /\ mem'.current = mem.current /\ mem'.claims = mem.claims
        /\ mem'.history[n] = {"approval", "terminal"}
        /\ \A m \in Nonces \ {n} : mem'.history[m] = mem.history[m]
    BY <1>1, <2>3 DEF ApprovalTyped, Kept
  <2>5. disk' \in Kept /\ disk'.claims = disk.claims
    BY <1>1, <2>1 DEF ApprovalTyped, Kept
  <2>6. root' \in Process(RootPlaces) /\ root'.at = "terminal" /\ root'.nonce = n
    BY <1>4, <2>1 DEF RootPlaces
  <2>7. RootHolds' /\ scope[n].state # "alive"
    BY <1>1, <1>2, <1>3, <2>1, <2>4, <2>6 DEF RootHolds
  <2> QED
    BY <1>1, <1>2, <2>1, <2>4, <2>5, <2>6, <2>7, RootMoves DEF ApprovalTyped
<1>7. CASE N!SyncTerminal
  <2>1. /\ root.at = "terminal" /\ mem' = mem /\ disk' = [disk EXCEPT !.history = mem.history]
        /\ root' = [root EXCEPT !.at = "unlink"]
    BY <1>7 DEF N!SyncTerminal, N!Sync, N!At
  <2>2. disk' \in Kept /\ disk'.claims = disk.claims /\ disk'.history = mem.history
    BY <1>1, <2>1 DEF ApprovalTyped, Kept
  <2>3. root' \in Process(RootPlaces) /\ root'.at = "unlink" /\ root'.nonce = n
    BY <1>4, <2>1 DEF RootPlaces
  <2>4. RootHolds'
    BY <1>1, <1>2, <1>3, <2>1, <2>2, <2>3 DEF RootHolds
  <2> QED
    BY <1>1, <1>2, <2>1, <2>2, <2>3, <2>4, RootMoves DEF ApprovalTyped
<1>8. CASE N!Unlink
  <2>1. /\ root.at = "unlink" /\ disk' = disk /\ mem' = [mem EXCEPT !.current = None]
        /\ root' = [root EXCEPT !.at = "unlinked"]
    BY <1>8 DEF N!Unlink, N!At
  <2>2. mem' \in Kept /\ mem'.claims = mem.claims /\ mem'.history = mem.history
    BY <1>1, <2>1 DEF ApprovalTyped, Kept
  <2>3. root' \in Process(RootPlaces) /\ root'.at = "unlinked"
    BY <1>4, <2>1 DEF RootPlaces
  <2>4. RootHolds'
    BY <2>3 DEF RootHolds
  <2> QED
    BY <1>1, <1>2, <2>1, <2>2, <2>3, <2>4, RootMoves DEF ApprovalTyped
<1>9. CASE N!SyncUnlink
  <2>1. mem' = mem /\ disk' = [disk EXCEPT !.current = mem.current] /\ root' = N!Free
    BY <1>9 DEF N!SyncUnlink, N!Sync
  <2>2. disk' \in Kept /\ disk'.claims = disk.claims
    BY <1>1, <2>1 DEF ApprovalTyped, Kept
  <2>3. RootHolds'
    BY <2>1 DEF RootHolds, N!Free
  <2> QED
    BY <1>1, <1>2, <2>1, <2>2, <2>3, RootMoves DEF ApprovalTyped
<1> QED
  BY <1>5, <1>6, <1>7, <1>8, <1>9

\* An approval expires, a scope ends.
LEMMA TimePreserves ==
    ASSUME N!ApprovalConstants, ApprovalInv,
           (\E a \in Numbers : N!Expire(a)) \/ (\E n \in Nonces : N!ScopeEnds(n))
    PROVE  ApprovalInv'
<1> USE ApprovalNulls
<1>1. ASSUME NEW a \in Numbers, N!Expire(a) PROVE ApprovalInv'
  BY <1>1, RootMoves DEF N!Expire, N!store, N!run, RootHolds, ApprovalInv, ApprovalTyped
<1>2. ASSUME NEW n \in Nonces, N!ScopeEnds(n) PROVE ApprovalInv'
  <2>1. /\ scope[n].state = "alive" /\ scope' = [scope EXCEPT ![n].state = "gone"]
        /\ UNCHANGED <<mem, disk, expired, attempts, root, op, audit, output, losses>>
    BY <1>2 DEF N!ScopeEnds, N!store
  <2>2. /\ scope' \in [Nonces -> [by : Numbers \cup {None}, state : {"none", "alive", "gone"}]]
        /\ \A m \in Nonces : scope'[m].by = scope[m].by
        /\ \A m \in Nonces : scope'[m].state = "none" <=> scope[m].state = "none"
        /\ \A m \in Nonces : scope'[m].state = "alive" => scope[m].state = "alive"
    BY <2>1 DEF ApprovalInv, ApprovalTyped
  <2>3. ApprovalTyped' /\ \A o \in Operators : RunHolds(op[o])'
    BY <2>1, <2>2 DEF ApprovalInv, ApprovalTyped, RunHolds
  <2>4. OneLaunch'
    BY <2>1, <2>2 DEF ApprovalInv, OneLaunch
  <2>5. RootHolds'
    BY <2>1, <2>2 DEF ApprovalInv, ApprovalTyped, Process, RootHolds
  <2>6. N!ScopeIsClaimed' /\ N!AuditPrecedesScope' /\ N!RetiredIsOver'
    BY <2>1, <2>2 DEF ApprovalInv, N!ScopeIsClaimed, N!AuditPrecedesScope, N!RetiredIsOver
  <2> QED
    BY <2>3, <2>4, <2>5, <2>6 DEF ApprovalInv
<1> QED
  BY <1>1, <1>2

\* The host loses power: what was started is claimed on the disk, and nothing runs any more.
LEMMA PowerLossPreserves ==
    ASSUME N!ApprovalConstants, ApprovalInv, N!PowerLoss PROVE ApprovalInv'
<1> USE ApprovalNulls
<1>1. PICK current \in {mem.current, disk.current}, lost \in SUBSET Nonces, gone \in SUBSET Nonces :
          mem' = [current |-> current,
                  claims |-> [n \in Nonces |-> IF n \in lost THEN disk.claims[n] ELSE mem.claims[n]],
                  history |-> [n \in Nonces |-> IF n \in gone THEN disk.history[n] ELSE mem.history[n]]]
  BY DEF N!PowerLoss
<1>2. /\ disk' = mem' /\ root' = N!Free /\ losses' = losses + 1 /\ losses < MaxLosses
      /\ UNCHANGED <<expired, attempts, audit, output>>
      /\ op' = [o \in Operators |-> IF op[o].at = "idle" THEN op[o] ELSE [op[o] EXCEPT !.at = "ended"]]
      /\ scope' = [n \in Nonces |->
                      IF scope[n].state = "alive" THEN [scope[n] EXCEPT !.state = "gone"] ELSE scope[n]]
  BY DEF N!PowerLoss
<1>3. /\ mem' \in Kept
      /\ \A n \in Nonces : mem'.claims[n] \in {disk.claims[n], mem.claims[n]}
  BY <1>1 DEF ApprovalInv, ApprovalTyped, Kept
<1>4. /\ op' \in [Operators -> Process(RunPlaces)]
      /\ \A o \in Operators : op'[o].at \in {"idle", "ended"}
  BY <1>2 DEF ApprovalInv, ApprovalTyped, Process, RunPlaces
<1>5. /\ scope' \in [Nonces -> [by : Numbers \cup {None}, state : {"none", "alive", "gone"}]]
      /\ \A n \in Nonces : scope'[n].by = scope[n].by /\ scope'[n].state # "alive"
                           /\ (scope'[n].state = "none" <=> scope[n].state = "none")
  BY <1>2 DEF ApprovalInv, ApprovalTyped
<1>6. ApprovalTyped'
  BY <1>2, <1>3, <1>4, <1>5 DEF N!Free, Process, RootPlaces, ApprovalInv, ApprovalTyped
<1>7. \A o \in Operators : RunHolds(op[o])'
  BY <1>4 DEF RunHolds, Launching, Synced, Audited
<1>8. OneLaunch' /\ RootHolds'
  BY <1>2, <1>4, <1>5 DEF ApprovalInv, OneLaunch, RootHolds, N!Free, Launching
<1>9. N!ScopeIsClaimed'
  <2>1. ASSUME NEW n \in Nonces, scope[n].by # None
        PROVE  mem'.claims[n] = [kind |-> "claim", attempt |-> scope[n].by]
    BY <1>3, <2>1 DEF ApprovalInv, N!ScopeIsClaimed
  <2>2. disk'.claims = mem'.claims
    BY <1>2
  <2> QED
    BY <1>5, <2>1, <2>2 DEF N!ScopeIsClaimed
<1>10. N!AuditPrecedesScope' /\ N!RetiredIsOver'
  BY <1>2, <1>5 DEF ApprovalInv, N!AuditPrecedesScope, N!RetiredIsOver
<1> QED
  BY <1>6, <1>7, <1>8, <1>9, <1>10 DEF ApprovalInv

\* The inductive invariant: what a run has claimed and recorded by its place, and how far the
\* retirement is, through kills, expiry and losses of power.
THEOREM ApprovalSafety ==
    ASSUME N!ApprovalConstants
    PROVE  N!Spec => []ApprovalInv
<1>1. N!Init => ApprovalInv
  BY ApprovalStarts
<1>2. ApprovalInv /\ [N!Next]_N!vars => ApprovalInv'
  <2> SUFFICES ASSUME ApprovalInv, [N!Next]_N!vars PROVE ApprovalInv'
    OBVIOUS
  <2>1. CASE N!Root \/ \E n \in Nonces : N!Issue(n)
    BY <2>1, IssuePreserves, RetirementBegins, RetirementEnds DEF N!Root
  <2>2. ASSUME NEW o \in Operators, N!Operator(o) PROVE ApprovalInv'
    BY <2>2, RunsPreserve, ClaimPreserves, ClaimSyncPreserves, SpawnPreserves DEF N!Operator
  <2>3. CASE (\E a \in Numbers : N!Expire(a)) \/ (\E n \in Nonces : N!ScopeEnds(n))
    BY <2>3, TimePreserves
  <2>4. CASE N!PowerLoss
    BY <2>4, PowerLossPreserves
  <2>5. CASE UNCHANGED N!vars
    BY <2>5, RootMoves DEF N!vars, RootHolds, ApprovalInv, ApprovalTyped
  <2> QED
    BY <2>1, <2>2, <2>3, <2>4, <2>5 DEF N!Next, Numbers
<1> QED
  BY <1>1, <1>2, PTL DEF N!Spec

\* A step issues no approval of a nonce that has a claim, lets no scope change its approval and
\* starts none again: a run that may yet start one is the only one and has not (guarded_spawn).
LEMMA StepsAdmit ==
    ASSUME N!ApprovalConstants, ApprovalInv, [N!Next]_N!vars
    PROVE  N!ApprovedOnce \/ UNCHANGED N!vars
<1> USE ApprovalNulls
<1>1. ApprovalTyped
  BY DEF ApprovalInv
<1> DEFINE Calm == scope' = scope
           Same == mem'.current = mem.current \/ mem'.current = None
<1>2. Calm /\ Same => N!ApprovedOnce
  BY DEF N!ApprovedOnce
<1>3. ASSUME NEW n \in Nonces, N!Issue(n) PROVE N!ApprovedOnce
  BY <1>1, <1>3 DEF N!Issue, N!Unclaimed, N!run, ApprovalTyped, Kept, N!ApprovedOnce
<1>4. CASE N!Root
  <2>1. Calm
    BY <1>4 DEF N!Root, N!SyncIssue, N!PrepareOutput, N!RetireClaimed, N!RetireUnclaimed, N!Tombstone,
                N!ObserveAgain, N!Link, N!Terminal, N!SyncTerminal, N!Unlink, N!SyncUnlink, N!RootStops, N!run
  <2>2. Same
    BY <1>1, <1>4 DEF N!Root, N!SyncIssue, N!PrepareOutput, N!RetireClaimed, N!RetireUnclaimed, N!Tombstone,
                N!ObserveAgain, N!Link, N!Terminal, N!SyncTerminal, N!Unlink, N!SyncUnlink, N!RootStops,
                N!store, N!Sync, ApprovalTyped, Kept
  <2> QED
    BY <1>2, <2>1, <2>2
<1>5. ASSUME NEW o \in Operators, N!Operator(o) PROVE N!ApprovedOnce
  <2>1. CASE N!Spawn(o)
    <3>1. PICK n \in Nonces : n = op[o].nonce
      BY <1>1, <2>1 DEF N!Spawn, N!Step, ApprovalTyped, Process
    <3>2. /\ op[o].at = "spawn" /\ mem' = mem
          /\ scope' = [scope EXCEPT ![n] = [by |-> op[o].attempt, state |-> "alive"]]
      BY <2>1, <3>1 DEF N!Spawn, N!Step, N!store
    <3>3. scope[n].by = None /\ scope[n].state = "none"
      BY <3>1, <3>2 DEF ApprovalInv, OneLaunch, Launching
    <3> QED
      BY <1>1, <3>2, <3>3 DEF N!ApprovedOnce, ApprovalTyped
  <2>2. CASE ~N!Spawn(o)
    <3>1. Calm
      BY <1>5, <2>2 DEF N!Operator, N!Start, N!Wait, N!CreateAudit, N!Intent, N!Early, N!Preflight, N!FinalChecks,
                        N!Claim, N!SyncClaim, N!Handoff, N!Marker, N!Result, N!Blocks
    <3>2. Same
      BY <1>1, <1>5, <2>2 DEF N!Operator, N!Start, N!Wait, N!CreateAudit, N!Intent, N!Early, N!Preflight,
                        N!FinalChecks, N!Claim, N!SyncClaim, N!Handoff, N!Marker, N!Result, N!Blocks,
                        N!store, N!Sync, ApprovalTyped, Kept
    <3> QED
      BY <1>2, <3>1, <3>2
  <2> QED
    BY <2>1, <2>2
<1>6. ASSUME NEW a \in Numbers, N!Expire(a) PROVE N!ApprovedOnce
  BY <1>2, <1>6 DEF N!Expire, N!store, N!run
<1>7. ASSUME NEW n \in Nonces, N!ScopeEnds(n) PROVE N!ApprovedOnce
  BY <1>1, <1>7 DEF N!ScopeEnds, N!store, N!ApprovedOnce, ApprovalTyped
<1>8. CASE N!PowerLoss
  BY <1>1, <1>8 DEF N!PowerLoss, N!ApprovedOnce, ApprovalTyped
<1> QED
  BY <1>3, <1>4, <1>5, <1>6, <1>7, <1>8 DEF N!Next, N!Root, Numbers

\* An approval that is durable stays current until both of its records are durable in history.
LEMMA StepsKeepApproval ==
    ASSUME N!ApprovalConstants, ApprovalInv, [N!Next]_N!vars
    PROVE  N!ApprovalSurvives
<1> USE ApprovalNulls
<1>1. ApprovalTyped
  BY DEF ApprovalInv
<1>2. mem'.current = mem.current => N!ApprovalSurvives
  BY DEF N!ApprovalSurvives
<1>3. ASSUME NEW n \in Nonces, N!Issue(n) PROVE N!ApprovalSurvives
  BY <1>3 DEF N!Issue, N!ApprovalSurvives
<1>4. CASE N!Unlink
  BY <1>4 DEF N!Unlink, N!ApprovalSurvives, ApprovalInv, RootHolds
<1>5. CASE N!Root /\ ~N!Unlink
  BY <1>1, <1>2, <1>5 DEF N!Root, N!SyncIssue, N!PrepareOutput, N!RetireClaimed, N!RetireUnclaimed, N!Tombstone,
                N!ObserveAgain, N!Link, N!Terminal, N!SyncTerminal, N!SyncUnlink, N!RootStops,
                N!store, N!Sync, ApprovalTyped, Kept
<1>6. ASSUME NEW o \in Operators, N!Operator(o) PROVE N!ApprovalSurvives
  BY <1>1, <1>2, <1>6 DEF N!Operator, N!Start, N!Wait, N!CreateAudit, N!Intent, N!Early, N!Preflight, N!FinalChecks,
                N!Claim, N!SyncClaim, N!Handoff, N!Marker, N!Spawn, N!Result, N!Blocks,
                N!store, N!Sync, ApprovalTyped, Kept
<1>7. CASE N!PowerLoss
  BY <1>7 DEF N!PowerLoss, N!ApprovalSurvives
<1>8. ASSUME NEW a \in Numbers, N!Expire(a) PROVE N!ApprovalSurvives
  BY <1>2, <1>8 DEF N!Expire, N!store
<1>9. ASSUME NEW n \in Nonces, N!ScopeEnds(n) PROVE N!ApprovalSurvives
  BY <1>2, <1>9 DEF N!ScopeEnds, N!store
<1>10. CASE UNCHANGED N!vars
  BY <1>2, <1>10 DEF N!vars
<1> QED
  BY <1>3, <1>4, <1>5, <1>6, <1>7, <1>8, <1>9, <1>10 DEF N!Next, Numbers

\* A scope runs only for a claimed approval that was not retired, with its intent and handoff in
\* the audit; it starts once; and a durable approval leaves only into history (binding_store.py,
\* operator_once.py, launch_once.py).
THEOREM ApprovalHolds ==
    ASSUME N!ApprovalConstants
    PROVE  N!Spec => /\ [](/\ N!TypeOK /\ N!ScopeIsClaimed /\ N!TombstoneExcludesScope
                           /\ N!RetiredIsOver /\ N!AuditPrecedesScope)
                     /\ [][N!ApprovalSurvives /\ N!ApprovedOnce]_N!vars
<1>1. ApprovalInv => N!TypeOK
  BY DEF ApprovalInv, ApprovalTyped, Kept, Process, RunPlaces, RootPlaces, Numbers, N!TypeOK
<1>2. ApprovalInv => N!TombstoneExcludesScope
  BY ClaimedBefore DEF N!TombstoneExcludesScope
<1>3. ApprovalInv => N!ScopeIsClaimed /\ N!RetiredIsOver /\ N!AuditPrecedesScope
  BY DEF ApprovalInv
<1>4. ApprovalInv /\ [N!Next]_N!vars => [N!ApprovalSurvives /\ N!ApprovedOnce]_N!vars
  BY StepsAdmit, StepsKeepApproval
<1> QED
  BY <1>1, <1>2, <1>3, <1>4, ApprovalSafety, PTL DEF N!Spec

-----------------------------------------------------------------------------
(* One attempt of a bounded task (BoundedTask).                            *)

CONSTANTS
    Callers, Tasks, Stored, Edits, MaxFaults

VARIABLES
    storage, binary, files, unit, checkout, call, starts, ranOn, ranWith, faults

K == INSTANCE BoundedTask

Mounts == {"first", "other"}
FileKinds ==
    [admission: {None, "first", "other"}, phase: {None, "directory", "reserved", "launching", "finished"},
     attempt: BOOLEAN, unit: BOOLEAN, diff: K!Content \cup {None},
     result: [status: K!Final \cup {"blocked"}, diff: K!Content \cup {None}] \cup {None}]
UnitKinds == {"none", "queued", "running", "surviving", "gone"}
CallKinds ==
    [task: Tasks \cup {None}, step: K!Steps, stage: 0 .. Len(K!Stages), started: BOOLEAN,
     observed: K!Final \cup {None}, snapshot: K!Content \cup {None}]
TaskTyped ==
    /\ storage \in Mounts /\ binary \in {"pinned", "replaced"}
    /\ files \in [Tasks -> FileKinds] /\ unit \in [Tasks -> UnitKinds]
    /\ checkout \in [Tasks -> [content: K!Content, outside: BOOLEAN]]
    /\ call \in [Callers -> CallKinds]
    /\ starts \in [Tasks -> Nat]
    /\ ranOn \in [Tasks -> SUBSET Mounts] /\ ranWith \in [Tasks -> SUBSET {"pinned", "replaced"}]

\* Where an invocation is once the directory of the task is its own, and in particular before and after
\* it asked systemd for the unit.
Before == {"reserve", "configure", "attempt", "record", "start"}
Ending == {"collect", "diff", "result", "finish"}
After == {"confirm", "run", "terminate", "verify", "give up"} \cup Ending
Owners == Before \cup After
Owns(c, t) == call[c].step \in Owners /\ call[c].task = t

\* A worker started: on the admitted storage.
Bound(t) == ranWith[t] # {} /\ (Stored => ranOn[t] = {files[t].admission})

\* What the records of a task say of its unit, and what a finished task has established.
TaskHolds(t) ==
    /\ Stored /\ files[t].phase # None => files[t].admission \in Mounts
    /\ binary = "pinned" => ranWith[t] \subseteq {"pinned"}
    /\ unit[t] = "none" => starts[t] = 0
    /\ unit[t] # "none" =>
          starts[t] = 1 /\ files[t].unit /\ files[t].attempt /\ files[t].phase \in {"launching", "finished"}
    /\ unit[t] \in {"none", "queued"} => ranOn[t] = {}
    /\ unit[t] \in {"running", "surviving"} => Bound(t)
    /\ files[t].phase = "finished" =>
          /\ unit[t] = "gone" /\ files[t].result # None /\ files[t].result.status \in K!Final
          /\ files[t].result.status = "completed" =>
                /\ files[t].result.diff = files[t].diff /\ Bound(t) /\ ranWith[t] = {"pinned"}
                /\ checkout[t] = [content |-> files[t].diff, outside |-> FALSE]

\* What an invocation has established by the step it is at: the phase it wrote, no unit before it asked for
\* one, a worker that started once it saw it running, the pinned executable once the turn completed, nothing
\* that can still change the checkout from the collection on, and the records it wrote.
Established(m, t) ==
       /\ m.step # "idle" => t \in Tasks /\ (Stored => files[t].admission \in Mounts)
       /\ m.step = "reserve" => files[t].phase = "directory"
       /\ m.step = "configure" => files[t].phase = "reserved"
       /\ m.step \in {"attempt", "record", "start"} \cup After => files[t].phase = "launching"
       /\ m.step \in Before => unit[t] = "none"
       /\ m.step \in {"record", "start"} => files[t].attempt
       /\ m.step = "start" => files[t].unit
       /\ m.step \in After => unit[t] # "none"
       /\ m.step \in {"run", "verify"} \cup Ending => m.started
       /\ m.started /\ m.step # "idle" => Bound(t) /\ unit[t] \notin {"none", "queued"}
       /\ m.step \in Before \cup {"claim", "confirm"} => ~m.started
       /\ m.step \in Before \cup {"claim", "confirm", "run"} => m.observed = None
       /\ m.step # "idle" /\ m.observed # None => m.started
       /\ m.step # "idle" /\ m.observed = "completed" => ranWith[t] = {"pinned"}
       /\ m.step \in Ending => unit[t] = "gone" /\ m.observed # None
       /\ m.step = "diff" =>
             m.observed = "completed" /\ checkout[t] = [content |-> m.snapshot, outside |-> FALSE]
       /\ m.step \in {"result", "finish"} /\ m.observed = "completed" =>
             checkout[t] = [content |-> files[t].diff, outside |-> FALSE]
       /\ m.step = "finish" => files[t].result = [status |-> m.observed, diff |-> files[t].diff]
CallHolds(c) == Established(call[c], call[c].task)

\* The inductive invariant of the bounded tasks: besides, a task has one owner.
TaskInv ==
    /\ TaskTyped
    /\ \A c \in Callers : CallHolds(c)
    /\ \A t \in Tasks : TaskHolds(t)
    /\ \A c, d \in Callers, t \in Tasks : Owns(c, t) /\ Owns(d, t) => c = d

LEMMA IdleKind ==
    /\ K!Idle \in CallKinds /\ K!Idle.step = "idle" /\ K!Idle.observed = None /\ ~K!Idle.started
    /\ "idle" \notin Owners
<1>1. Len(K!Stages) = 6
  BY DEF K!Stages
<1>. QED
  BY <1>1 DEF K!Idle, CallKinds, K!Steps, Owners, Before, After, Ending

LEMMA TasksStart ==
    ASSUME K!TaskConstants, K!Init PROVE TaskInv
<1>1. K!NoFiles \in FileKinds /\ K!Idle \in CallKinds
  BY DEF K!NoFiles, K!Idle, FileKinds, CallKinds, K!Steps, K!Stages, K!Content
<1>2. TaskTyped
  BY <1>1 DEF K!Init, TaskTyped, Mounts, UnitKinds, K!Content
<1>3. \A c \in Callers : call[c] = K!Idle /\ call[c].step = "idle"
  BY DEF K!Init, K!Idle
<1>4. \A c \in Callers : CallHolds(c) /\ \A t \in Tasks : ~Owns(c, t)
  BY <1>3 DEF CallHolds, Established, Owns, Owners, Before, After, Ending, K!Idle
<1>5. \A t \in Tasks : TaskHolds(t)
  BY DEF K!Init, K!NoFiles, TaskHolds, K!TaskConstants
<1>. QED
  BY <1>2, <1>4, <1>5 DEF TaskInv

\* What an invocation has established is of its task alone.
LEMMA TaskAlone ==
    ASSUME NEW m, NEW t, Established(m, t), files'[t] = files[t], unit'[t] = unit[t], UNCHANGED <<checkout, ranOn, ranWith>>
    PROVE  Established(m, t)'
BY DEF Bound, Established

\* One invocation moves, on one task: what the others hold is undisturbed if it owns the task, or changes
\* nothing of it, or nobody else owns it.
LEMMA OneCallMoves ==
    ASSUME K!TaskConstants, TaskInv, NEW c \in Callers, NEW t \in Tasks, NEW m \in CallKinds,
           call' = [call EXCEPT ![c] = m], m.step # "idle" => m.task = t,
           UNCHANGED <<storage, binary, checkout, ranOn, ranWith>>,
           files' \in [Tasks -> FileKinds], unit' \in [Tasks -> UnitKinds], starts' \in [Tasks -> Nat],
           \A s \in Tasks \ {t} : files'[s] = files[s] /\ unit'[s] = unit[s] /\ starts'[s] = starts[s],
           \A d \in Callers \ {c} : Owns(d, t) =>
               UNCHANGED <<files, unit, starts>> /\ m.step \notin Owners,
           \A d \in Callers \ {c} : call[d].step # "idle" /\ call[d].task = t =>
               files'[t].admission = files[t].admission,
           CallHolds(c)', TaskHolds(t)'
    PROVE  TaskInv'
<1>1. TaskTyped'
  BY DEF TaskInv, TaskTyped
<1>2. call'[c] = m /\ \A d \in Callers \ {c} : call'[d] = call[d]
  BY DEF TaskInv, TaskTyped
<1>3. ASSUME NEW s \in Tasks PROVE TaskHolds(s)'
  <2>1. CASE s = t
    BY <2>1
  <2>2. CASE s # t
    BY <2>2 DEF TaskInv, TaskHolds, Bound
  <2>. QED
    BY <2>1, <2>2
<1>4. ASSUME NEW d \in Callers PROVE CallHolds(d)'
  <2>1. CASE d = c
    BY <2>1
  <2>2. CASE d # c
    <3>1. PICK own : own = call[d] /\ own = call'[d] /\ Established(own, own.task)
      BY <1>2, <2>2 DEF TaskInv, CallHolds
    <3>2. CASE own.step = "idle"
      BY <3>1, <3>2 DEF Established, Before, After, Ending, CallHolds
    <3>3. CASE own.step # "idle" /\ (own.task # t \/ Owns(d, t))
      <4>1. own.task \in Tasks
        BY <3>1, <3>3 DEF Established
      <4>2. files'[own.task] = files[own.task] /\ unit'[own.task] = unit[own.task]
        BY <2>2, <3>1, <3>3, <4>1 DEF Owns
      <4>3. Established(own, own.task)'
        BY <3>1, <4>2, TaskAlone
      <4>. QED
        BY <3>1, <4>3 DEF CallHolds
    <3>4. CASE own.step = "claim" /\ own.task = t
      <4>1. files'[t].admission = files[t].admission
        BY <2>2, <3>1, <3>4
      <4>2. ~own.started /\ own.observed = None
        BY <3>1, <3>4 DEF Established
      <4>3. Established(own, t)'
        BY <3>1, <3>4, <4>1, <4>2 DEF Established, Before, After, Ending, K!TaskConstants, K!Final
      <4>. QED
        BY <3>1, <3>4, <4>3 DEF CallHolds
    <3>5. own.step \in K!Steps
      BY <3>1 DEF TaskInv, TaskTyped, CallKinds
    <3>. QED
      BY <3>1, <3>2, <3>3, <3>4, <3>5 DEF Owns, Owners, Before, After, Ending, K!Steps
  <2>. QED
    BY <2>1, <2>2
<1>5. ASSUME NEW d \in Callers, NEW e \in Callers, NEW s \in Tasks, Owns(d, s)', Owns(e, s)' PROVE d = e
  <2>1. d # c /\ e # c => Owns(d, s) /\ Owns(e, s)
    BY <1>2, <1>5 DEF Owns
  <2>2. \A x \in Callers \ {c} : ~(Owns(c, s)' /\ Owns(x, s)')
    BY <1>2 DEF Owns, Owners, Before, After, Ending
  <2>. QED
    BY <1>5, <2>1, <2>2 DEF TaskInv
<1>. QED
  BY <1>1, <1>3, <1>4, <1>5 DEF TaskInv

\* The owner of a task moves.
LEMMA OwnerMoves ==
    ASSUME K!TaskConstants, TaskInv, NEW c \in Callers, NEW t \in Tasks, Owns(c, t), NEW m \in CallKinds,
           call' = [call EXCEPT ![c] = m], m.step # "idle" => m.task = t,
           UNCHANGED <<storage, binary, checkout, ranOn, ranWith>>,
           NEW f \in FileKinds, files' = [files EXCEPT ![t] = f], f.admission = files[t].admission,
           NEW u \in UnitKinds, unit' = [unit EXCEPT ![t] = u],
           NEW n \in Nat, starts' = [starts EXCEPT ![t] = n],
           Established(m, t)', TaskHolds(t)'
    PROVE  TaskInv'
<1>1. /\ files' \in [Tasks -> FileKinds] /\ unit' \in [Tasks -> UnitKinds] /\ starts' \in [Tasks -> Nat]
      /\ \A s \in Tasks \ {t} : files'[s] = files[s] /\ unit'[s] = unit[s] /\ starts'[s] = starts[s]
      /\ files'[t].admission = files[t].admission
  BY DEF TaskInv, TaskTyped
<1>2. \A d \in Callers \ {c} : ~Owns(d, t)
  BY DEF TaskInv
<1>3. CallHolds(c)'
  <2>1. call'[c] = m
    BY DEF TaskInv, TaskTyped
  <2>2. CASE m.step # "idle"
    BY <2>1, <2>2 DEF CallHolds
  <2>3. CASE m.step = "idle"
    BY <2>1, <2>3 DEF Established, Before, After, Ending, CallHolds
  <2>. QED
    BY <2>2, <2>3
<1>. QED
  BY <1>1, <1>2, <1>3, OneCallMoves

\* What is known of an invocation that owns its task.
LEMMA OwnerKnows ==
    ASSUME TaskInv, NEW c \in Callers, call[c].step \in Owners
    PROVE  \E t \in Tasks, own \in CallKinds, f \in FileKinds :
              /\ own = call[c] /\ own.task = t /\ Owns(c, t) /\ Established(own, t)
              /\ f = files[t] /\ TaskHolds(t) /\ unit[t] \in UnitKinds /\ starts[t] \in Nat
BY DEF TaskInv, CallHolds, Established, Owners, Before, After, Ending, TaskTyped, Owns

LEMMA Admits ==
    ASSUME K!TaskConstants, TaskInv, NEW c \in Callers, K!Admit(c) PROVE TaskInv'
<1>1. PICK t \in Tasks :
      /\ Stored => files[t].admission = None
      /\ files' = IF Stored THEN [files EXCEPT ![t].admission = storage] ELSE files
      /\ call' = [call EXCEPT ![c] = [K!Idle EXCEPT !.task = t, !.step = "claim"]]
  BY DEF K!Admit
<1>2. call[c].step = "idle" /\ UNCHANGED <<storage, binary, unit, checkout, starts, ranOn, ranWith>>
  BY DEF K!Admit, K!At, K!Host, K!Observed
<1>3. PICK m \in CallKinds :
      /\ call' = [call EXCEPT ![c] = m] /\ m.task = t /\ m.step = "claim"
      /\ ~m.started /\ m.observed = None
  <2>1. PICK m \in CallKinds : m = [K!Idle EXCEPT !.task = t, !.step = "claim"]
    BY IdleKind DEF CallKinds, K!Steps
  <2>. QED
    BY <1>1, <2>1, IdleKind DEF CallKinds
<1>4. files[t] \in FileKinds /\ storage \in Mounts
  BY DEF TaskInv, TaskTyped
<1>5. PICK f \in FileKinds :
      /\ f.phase = files[t].phase /\ f.attempt = files[t].attempt /\ f.unit = files[t].unit
      /\ f.diff = files[t].diff /\ f.result = files[t].result
      /\ files' = [files EXCEPT ![t] = f]
      /\ Stored => f.admission = storage
      /\ ~Stored => f = files[t]
  BY <1>1, <1>4 DEF FileKinds, Mounts, TaskInv, TaskTyped
<1>6. /\ files' \in [Tasks -> FileKinds] /\ files'[t] = f /\ \A s \in Tasks \ {t} : files'[s] = files[s]
  BY <1>5 DEF TaskInv, TaskTyped
<1>7. Stored => \A d \in Callers : call[d].step # "idle" => call[d].task # t
  BY <1>1, <1>4 DEF TaskInv, CallHolds, Established, K!TaskConstants, Mounts
<1>8. TaskHolds(t)'
  <2>1. TaskHolds(t) /\ (Stored => files[t].phase = None)
    BY <1>1, <1>4 DEF TaskInv, TaskHolds, K!TaskConstants, Mounts
  <2>2. CASE Stored
    BY <1>2, <1>4, <1>5, <1>6, <2>1, <2>2 DEF TaskHolds, K!TaskConstants
  <2>3. CASE ~Stored
    BY <1>2, <1>5, <1>6, <2>1, <2>3 DEF TaskHolds, Bound
  <2>. QED
    BY <2>2, <2>3
<1>9. Established(m, t)'
  BY <1>2, <1>3, <1>4, <1>5, <1>6 DEF Established, Before, After, Ending, K!TaskConstants, K!Final
<1>10. CallHolds(c)'
  BY <1>3, <1>9 DEF CallHolds, TaskInv, TaskTyped
<1>11. \A d \in Callers \ {c} : Owns(d, t) => UNCHANGED files
  BY <1>1, <1>7 DEF Owns, Owners, Before, After, Ending
<1>12. unit' \in [Tasks -> UnitKinds] /\ starts' \in [Tasks -> Nat]
  BY <1>2 DEF TaskInv, TaskTyped
<1>13. m.step \notin Owners
  BY <1>3 DEF Owners, Before, After, Ending
<1>. QED
  BY <1>2, <1>3, <1>5, <1>6, <1>7, <1>8, <1>10, <1>11, <1>12, <1>13, OneCallMoves

LEMMA Claims ==
    ASSUME K!TaskConstants, TaskInv, NEW c \in Callers, K!Claim(c) PROVE TaskInv'
<1>1. PICK own \in CallKinds, t \in Tasks : t = own.task /\ own = call[c] /\ own.step = "claim" /\ Established(own, t)
  BY DEF K!Claim, K!At, TaskInv, TaskTyped, CallHolds, Established
<1>2. UNCHANGED <<storage, binary, unit, checkout, starts, ranOn, ranWith>>
  BY DEF K!Claim, K!Host, K!Observed
<1>3. /\ unit' \in [Tasks -> UnitKinds] /\ starts' \in [Tasks -> Nat] /\ TaskHolds(t) /\ files[t] \in FileKinds
      /\ files \in [Tasks -> FileKinds]
  BY <1>1, <1>2 DEF TaskInv, TaskTyped
<1>4. CASE files[t].phase = None
  <2>1. PICK m \in CallKinds : m = [own EXCEPT !.step = "reserve"] /\ call' = [call EXCEPT ![c] = m]
    BY <1>1, <1>4 DEF K!Claim, K!Claimable, K!T, K!Go, CallKinds, K!Steps
  <2>2. PICK f \in FileKinds : f = [files[t] EXCEPT !.phase = "directory"] /\ files' = [files EXCEPT ![t] = f]
    <3>1. files' = [files EXCEPT ![t] = [files[t] EXCEPT !.phase = "directory"]]
      BY <1>1, <1>3, <1>4 DEF K!Claim, K!Claimable, K!T, K!Write
    <3>2. [files[t] EXCEPT !.phase = "directory"] \in FileKinds
      BY <1>3 DEF FileKinds
    <3>. QED
      BY <3>1, <3>2
  <2>3. files' \in [Tasks -> FileKinds] /\ files'[t] = f /\ \A s \in Tasks \ {t} : files'[s] = files[s]
    BY <1>3, <2>2
  <2>4. \A d \in Callers \ {c} : ~Owns(d, t)
    BY <1>4 DEF TaskInv, CallHolds, Established, Owns, Owners, Before, After, Ending, K!TaskConstants
  <2>5. unit[t] = "none"
    BY <1>3, <1>4 DEF TaskHolds, K!TaskConstants
  <2>6. TaskHolds(t)'
    BY <1>1, <1>2, <1>3, <2>2, <2>3, <2>5 DEF TaskHolds, FileKinds, Established
  <2>7. Established(m, t)'
    BY <1>1, <1>2, <1>3, <2>1, <2>2, <2>3, <2>5 DEF Established, CallKinds, FileKinds, Before, After, Ending, K!TaskConstants, K!Final
  <2>8. CallHolds(c)' /\ m.task = t
    BY <1>1, <2>1, <2>7 DEF CallHolds, TaskInv, TaskTyped, CallKinds
  <2>9. files'[t].admission = files[t].admission
    BY <1>3, <2>2, <2>3 DEF FileKinds
  <2>. QED
    BY <1>1, <1>2, <1>3, <2>1, <2>3, <2>4, <2>6, <2>8, <2>9, OneCallMoves
<1>5. CASE files[t].phase # None
  <2>1. files' = files /\ call' = [call EXCEPT ![c] = K!Idle]
    BY <1>1, <1>5 DEF K!Claim, K!Claimable, K!T, K!Block
  <2>2. K!Idle \in CallKinds /\ K!Idle.step = "idle" /\ K!Idle.step \notin Owners
    BY IdleKind
  <2>3. CallHolds(c)'
    BY <2>1, <2>2 DEF CallHolds, Established, Before, After, Ending, TaskInv, TaskTyped
  <2>4. TaskHolds(t)'
    BY <1>1, <1>2, <1>3, <2>1 DEF TaskHolds, Bound
  <2>. QED
    BY <1>1, <1>2, <1>3, <2>1, <2>2, <2>3, <2>4, OneCallMoves
<1>. QED
  BY <1>4, <1>5

\* An invocation moves, and nothing else changes.
LEMMA CallMoves ==
    ASSUME K!TaskConstants, TaskInv, NEW c \in Callers, NEW t \in Tasks, NEW m \in CallKinds,
           call' = [call EXCEPT ![c] = m], m.step \in Owners => Owns(c, t),
           UNCHANGED <<storage, binary, files, unit, checkout, starts, ranOn, ranWith>>,
           m.step # "idle" => m.task = t /\ Established(m, t)
    PROVE  TaskInv'
<1>1. /\ files' \in [Tasks -> FileKinds] /\ unit' \in [Tasks -> UnitKinds] /\ starts' \in [Tasks -> Nat]
      /\ TaskHolds(t)
  BY DEF TaskInv, TaskTyped
<1>2. \A d \in Callers \ {c} : Owns(d, t) => m.step \notin Owners
  BY DEF TaskInv
<1>3. call'[c] = m
  BY DEF TaskInv, TaskTyped
<1>4. CallHolds(c)'
  <2>1. CASE m.step # "idle"
    BY <1>3, <2>1, TaskAlone DEF CallHolds
  <2>2. CASE m.step = "idle"
    BY <1>3, <2>2 DEF CallHolds, Established, Before, After, Ending
  <2>. QED
    BY <2>1, <2>2
<1>5. TaskHolds(t)'
  BY <1>1 DEF TaskHolds, Bound
<1>. QED
  BY <1>1, <1>2, <1>4, <1>5, OneCallMoves

LEMMA CallEnds ==
    ASSUME K!TaskConstants, TaskInv, NEW c \in Callers, call[c].step # "idle", K!Block(c),
           UNCHANGED <<storage, binary, files, unit, checkout, starts, ranOn, ranWith>>
    PROVE  TaskInv'
BY IdleKind, CallMoves DEF TaskInv, CallHolds, Established, K!Block

\* Before the unit is asked for, an invocation writes its records one after the other.
LEMMA BeforeUnit ==
    ASSUME K!TaskConstants, TaskInv, NEW c \in Callers, NEW t \in Tasks, Owns(c, t), call[c].step \in Before,
           NEW onto \in Before, NEW g \in FileKinds,
           call' = [call EXCEPT ![c].step = onto], files' = [files EXCEPT ![t] = g],
           UNCHANGED <<storage, binary, unit, checkout, starts, ranOn, ranWith>>,
           g.admission = files[t].admission, g.phase \in {"directory", "reserved", "launching"},
           onto = "reserve" => g.phase = "directory", onto = "configure" => g.phase = "reserved",
           onto \in {"attempt", "record", "start"} => g.phase = "launching",
           onto \in {"record", "start"} => g.attempt, onto = "start" => g.unit
    PROVE  TaskInv'
<1>1. PICK own \in CallKinds, f \in FileKinds :
        /\ own = call[c] /\ own.task = t /\ Established(own, t)
        /\ f = files[t] /\ TaskHolds(t) /\ unit[t] \in UnitKinds /\ starts[t] \in Nat
  BY OwnerKnows DEF Owners, Owns
<1>2. PICK m \in CallKinds : m = [own EXCEPT !.step = onto]
  BY DEF CallKinds, K!Steps, Before
<1>3. /\ call' = [call EXCEPT ![c] = m]
      /\ files'[t] = g /\ unit' = [unit EXCEPT ![t] = unit[t]] /\ starts' = [starts EXCEPT ![t] = starts[t]]
  BY <1>1, <1>2 DEF TaskInv, TaskTyped
<1>4. m.step = onto /\ m.task = t /\ m.started = own.started /\ m.observed = own.observed
  BY <1>1, <1>2 DEF CallKinds
<1>5. unit[t] = "none" /\ ~m.started /\ m.observed = None /\ (Stored => g.admission \in Mounts)
  BY <1>1, <1>4 DEF Established, Before
<1>6. Established(m, t)'
  BY <1>3, <1>4, <1>5 DEF Established, Before, After, Ending, K!TaskConstants, K!Final
<1>7. TaskHolds(t)'
  BY <1>1, <1>3, <1>5 DEF TaskHolds
<1>. QED
  BY <1>1, <1>3, <1>4, <1>6, <1>7, OwnerMoves

LEMMA Reserves ==
    ASSUME K!TaskConstants, TaskInv, NEW c \in Callers, K!Reserve(c) PROVE TaskInv'
<1>1. call[c].step = "reserve" /\ UNCHANGED <<storage, binary, unit, checkout, starts, ranOn, ranWith>>
  BY DEF K!Reserve, K!At, K!Host, K!Observed
<1>2. PICK t \in Tasks, f \in FileKinds : Owns(c, t) /\ t = call[c].task /\ f = files[t]
  BY <1>1, OwnerKnows DEF Owners, Before
<1>3. PICK g \in FileKinds : g = [f EXCEPT !.phase = "reserved"]
  BY DEF FileKinds
<1>4. call' = [call EXCEPT ![c].step = "configure"] /\ files' = [files EXCEPT ![t] = g]
  BY <1>2, <1>3 DEF K!Reserve, K!Go, K!Write, K!T, TaskInv, TaskTyped
<1>5. g.admission = files[t].admission /\ g.phase = "reserved"
  BY <1>2, <1>3 DEF FileKinds
<1>. QED
  BY <1>1, <1>2, <1>4, <1>5, BeforeUnit DEF Before

LEMMA Configures ==
    ASSUME K!TaskConstants, TaskInv, NEW c \in Callers, K!Configure(c) PROVE TaskInv'
<1>1. call[c].step = "configure" /\ UNCHANGED <<storage, binary, unit, checkout, starts, ranOn, ranWith>>
  BY DEF K!Configure, K!At, K!Host, K!Observed
<1>2. CASE ~K!Admitted(K!T(c))
  BY <1>1, <1>2, CallEnds DEF K!Configure
<1>3. CASE K!Admitted(K!T(c))
  <2>1. PICK t \in Tasks, f \in FileKinds : Owns(c, t) /\ t = call[c].task /\ f = files[t]
    BY <1>1, OwnerKnows DEF Owners, Before
  <2>2. PICK g \in FileKinds : g = [f EXCEPT !.phase = "launching"]
    BY DEF FileKinds
  <2>3. call' = [call EXCEPT ![c].step = "attempt"] /\ files' = [files EXCEPT ![t] = g]
    BY <1>3, <2>1, <2>2 DEF K!Configure, K!Go, K!Write, K!T, TaskInv, TaskTyped
  <2>4. g.admission = files[t].admission /\ g.phase = "launching"
    BY <2>1, <2>2 DEF FileKinds
  <2>. QED
    BY <1>1, <2>1, <2>3, <2>4, BeforeUnit DEF Before
<1>. QED
  BY <1>2, <1>3

LEMMA AttemptIsMade ==
    ASSUME K!TaskConstants, TaskInv, NEW c \in Callers, K!Attempt(c) PROVE TaskInv'
<1>1. call[c].step = "attempt" /\ UNCHANGED <<storage, binary, unit, checkout, starts, ranOn, ranWith>>
  BY DEF K!Attempt, K!At, K!Host, K!Observed
<1>2. CASE UNCHANGED files /\ K!Block(c)
  BY <1>1, <1>2, CallEnds
<1>3. CASE K!Write(K!T(c), "attempt", TRUE) /\ K!Go(c, "record")
  <2>1. PICK t \in Tasks, f \in FileKinds :
          Owns(c, t) /\ t = call[c].task /\ f = files[t] /\ Established(call[c], t)
    BY <1>1, OwnerKnows DEF Owners, Before
  <2>2. PICK g \in FileKinds : g = [f EXCEPT !.attempt = TRUE]
    BY DEF FileKinds
  <2>3. call' = [call EXCEPT ![c].step = "record"] /\ files' = [files EXCEPT ![t] = g]
    BY <1>3, <2>1, <2>2 DEF K!Go, K!Write, K!T, TaskInv, TaskTyped
  <2>4. g.admission = files[t].admission /\ g.phase = "launching" /\ g.attempt
    BY <1>1, <2>1, <2>2 DEF FileKinds, Established
  <2>. QED
    BY <1>1, <2>1, <2>3, <2>4, BeforeUnit DEF Before
<1>. QED
  BY <1>2, <1>3 DEF K!Attempt

LEMMA UnitIsRecorded ==
    ASSUME K!TaskConstants, TaskInv, NEW c \in Callers, K!RecordUnit(c) PROVE TaskInv'
<1>1. call[c].step = "record" /\ UNCHANGED <<storage, binary, unit, checkout, starts, ranOn, ranWith>>
  BY DEF K!RecordUnit, K!At, K!Host, K!Observed
<1>2. CASE UNCHANGED files /\ K!Block(c)
  BY <1>1, <1>2, CallEnds
<1>3. CASE K!Write(K!T(c), "unit", TRUE) /\ K!Go(c, "start")
  <2>1. PICK t \in Tasks, f \in FileKinds :
          Owns(c, t) /\ t = call[c].task /\ f = files[t] /\ Established(call[c], t)
    BY <1>1, OwnerKnows DEF Owners, Before
  <2>2. PICK g \in FileKinds : g = [f EXCEPT !.unit = TRUE]
    BY DEF FileKinds
  <2>3. call' = [call EXCEPT ![c].step = "start"] /\ files' = [files EXCEPT ![t] = g]
    BY <1>3, <2>1, <2>2 DEF K!Go, K!Write, K!T, TaskInv, TaskTyped
  <2>4. g.admission = files[t].admission /\ g.phase = "launching" /\ g.attempt /\ g.unit
    BY <1>1, <2>1, <2>2 DEF FileKinds, Established
  <2>. QED
    BY <1>1, <2>1, <2>3, <2>4, BeforeUnit DEF Before
<1>. QED
  BY <1>2, <1>3 DEF K!RecordUnit

LEMMA Starts ==
    ASSUME K!TaskConstants, TaskInv, NEW c \in Callers, K!Start(c) PROVE TaskInv'
<1>1. call[c].step = "start" /\ UNCHANGED <<storage, binary, files, checkout, ranOn, ranWith>>
  BY DEF K!Start, K!At, K!Host
<1>2. PICK t \in Tasks, own \in CallKinds, f \in FileKinds :
        /\ own = call[c] /\ own.task = t /\ Owns(c, t) /\ Established(own, t)
        /\ f = files[t] /\ TaskHolds(t) /\ unit[t] \in UnitKinds /\ starts[t] \in Nat
  BY <1>1, OwnerKnows DEF Owners, Before
<1>3. PICK m \in CallKinds : m = [own EXCEPT !.step = "confirm"]
  BY DEF CallKinds, K!Steps
<1>4. /\ call' = [call EXCEPT ![c] = m] /\ unit' = [unit EXCEPT ![t] = "queued"]
      /\ starts' = [starts EXCEPT ![t] = starts[t] + 1] /\ files' = [files EXCEPT ![t] = f]
  BY <1>1, <1>2, <1>3 DEF K!Start, K!Go, K!T, TaskInv, TaskTyped
<1>5. /\ unit[t] = "none" /\ starts[t] = 0 /\ f.phase = "launching" /\ f.attempt /\ f.unit
      /\ ~own.started /\ own.observed = None /\ (Stored => f.admission \in Mounts)
  BY <1>1, <1>2 DEF Established, TaskHolds, Before
<1>6. m.step = "confirm" /\ m.task = t /\ ~m.started /\ m.observed = None
  BY <1>2, <1>3, <1>5 DEF CallKinds
<1>7. unit'[t] = "queued" /\ starts'[t] = 1 /\ files'[t] = f
  BY <1>2, <1>4, <1>5 DEF TaskInv, TaskTyped
<1>8. Established(m, t)'
  BY <1>5, <1>6, <1>7 DEF Established, Before, After, Ending, K!TaskConstants, K!Final
<1>9. TaskHolds(t)'
  BY <1>1, <1>2, <1>5, <1>7 DEF TaskHolds
<1>10. "queued" \in UnitKinds /\ starts[t] + 1 \in Nat
  BY <1>2 DEF UnitKinds
<1>. QED
  BY <1>1, <1>2, <1>3, <1>4, <1>6, <1>8, <1>9, <1>10, OwnerMoves

\* An owner goes on, and changes nothing of its task.
LEMMA OwnerGoes ==
    ASSUME K!TaskConstants, TaskInv, NEW c \in Callers, NEW t \in Tasks, Owns(c, t), NEW m \in CallKinds,
           call' = [call EXCEPT ![c] = m], m.task = t, Established(m, t),
           UNCHANGED <<storage, binary, files, unit, checkout, starts, ranOn, ranWith>>
    PROVE  TaskInv'
  BY CallMoves

LEMMA Confirms ==
    ASSUME K!TaskConstants, TaskInv, NEW c \in Callers, K!Confirm(c) PROVE TaskInv'
<1>1. call[c].step = "confirm" /\ UNCHANGED <<storage, binary, files, unit, checkout, starts, ranOn, ranWith>>
  BY DEF K!Confirm, K!At, K!Host, K!Observed
<1>2. PICK t \in Tasks, own \in CallKinds, f \in FileKinds :
        /\ own = call[c] /\ own.task = t /\ Owns(c, t) /\ Established(own, t)
        /\ f = files[t] /\ TaskHolds(t) /\ unit[t] \in UnitKinds /\ starts[t] \in Nat
  BY <1>1, OwnerKnows DEF Owners, After
<1>3. own.step = "confirm" /\ f.phase = "launching" /\ unit[t] # "none" /\ ~own.started /\ own.observed = None
      /\ (Stored => f.admission \in Mounts)
  BY <1>1, <1>2 DEF Established, After
<1>4. CASE unit[t] = "running" /\ call' = [call EXCEPT ![c].step = "run", ![c].started = TRUE, ![c].stage = 1]
  <2>1. PICK m \in CallKinds : m = [own EXCEPT !.step = "run", !.started = TRUE, !.stage = 1]
    <3>1. Len(K!Stages) = 6 /\ 1 \in 0 .. 6
      BY DEF K!Stages
    <3>. QED
      BY <3>1 DEF CallKinds, K!Steps
  <2>2. call' = [call EXCEPT ![c] = m]
    BY <1>2, <1>4, <2>1 DEF TaskInv, TaskTyped
  <2>3. m.step = "run" /\ m.task = t /\ m.started /\ m.observed = None
    BY <1>2, <1>3, <2>1 DEF CallKinds
  <2>4. Established(m, t)
    BY <1>2, <1>3, <1>4, <2>3 DEF Established, Before, After, Ending, TaskHolds, K!TaskConstants, K!Final
  <2>. QED
    BY <1>1, <1>2, <2>2, <2>3, <2>4, OwnerGoes
<1>5. CASE K!Go(c, "terminate")
  <2>1. PICK m \in CallKinds : m = [own EXCEPT !.step = "terminate"]
    BY DEF CallKinds, K!Steps
  <2>2. call' = [call EXCEPT ![c] = m]
    BY <1>2, <1>5, <2>1 DEF K!Go, TaskInv, TaskTyped
  <2>3. m.step = "terminate" /\ m.task = t /\ ~m.started /\ m.observed = None
    BY <1>2, <1>3, <2>1 DEF CallKinds
  <2>4. Established(m, t)
    BY <1>2, <1>3, <2>3 DEF Established, Before, After, Ending, TaskHolds, K!TaskConstants, K!Final
  <2>. QED
    BY <1>1, <1>2, <2>2, <2>3, <2>4, OwnerGoes
<1>. QED
  BY <1>2, <1>4, <1>5 DEF K!Confirm, K!T

LEMMA Exchanges ==
    ASSUME K!TaskConstants, TaskInv, NEW c \in Callers, K!Exchange(c) PROVE TaskInv'
<1>1. call[c].step = "run" /\ UNCHANGED <<storage, binary, files, unit, checkout, starts, ranOn, ranWith>>
  BY DEF K!Exchange, K!At, K!Host, K!Observed
<1>2. PICK t \in Tasks, own \in CallKinds, f \in FileKinds :
        /\ own = call[c] /\ own.task = t /\ Owns(c, t) /\ Established(own, t)
        /\ f = files[t] /\ TaskHolds(t) /\ unit[t] \in UnitKinds /\ starts[t] \in Nat
  BY <1>1, OwnerKnows DEF Owners, After
<1>3. /\ own.step = "run" /\ f.phase = "launching" /\ own.started /\ own.observed = None
      /\ Bound(t) /\ unit[t] \notin {"none", "queued"} /\ (Stored => f.admission \in Mounts)
  BY <1>1, <1>2 DEF Established, After
<1>4. Len(K!Stages) = 6 /\ K!Stages[6] = "finalize"
  BY DEF K!Stages
<1>5. CASE own.stage = 6
  <2>1. PICK m \in CallKinds : m = [own EXCEPT !.step = "terminate", !.observed = "completed"]
    BY DEF CallKinds, K!Steps, K!Final
  <2>2. call' = [call EXCEPT ![c] = m]
    BY <1>2, <1>4, <1>5, <2>1 DEF K!Exchange, TaskInv, TaskTyped
  <2>3. m.step = "terminate" /\ m.task = t /\ m.started /\ m.observed = "completed"
    BY <1>2, <1>3, <2>1 DEF CallKinds
  <2>4. ranWith[t] = {"pinned"}
    BY <1>2, <1>3, <1>4, <1>5 DEF K!Exchange, K!Measured, TaskHolds, Bound
  <2>5. Established(m, t)
    BY <1>2, <1>3, <2>3, <2>4 DEF Established, Before, After, Ending
  <2>. QED
    BY <1>1, <1>2, <2>2, <2>3, <2>5, OwnerGoes
<1>6. CASE own.stage # 6
  <2>1. PICK m \in CallKinds : m = [own EXCEPT !.stage = own.stage + 1]
    <3>1. own.stage \in 0 .. 6
      BY <1>4 DEF CallKinds
    <3>2. own.stage + 1 \in 0 .. Len(K!Stages)
      BY <1>4, <1>6, <3>1
    <3>. QED
      BY <3>2 DEF CallKinds
  <2>2. call' = [call EXCEPT ![c] = m]
    BY <1>2, <1>4, <1>6, <2>1 DEF K!Exchange, TaskInv, TaskTyped
  <2>3. m.step = "run" /\ m.task = t /\ m.started /\ m.observed = None
    BY <1>2, <1>3, <2>1 DEF CallKinds
  <2>4. Established(m, t)
    BY <1>2, <1>3, <2>3 DEF Established, Before, After, Ending, K!TaskConstants, K!Final
  <2>. QED
    BY <1>1, <1>2, <2>2, <2>3, <2>4, OwnerGoes
<1>. QED
  BY <1>5, <1>6

LEMMA Fails ==
    ASSUME K!TaskConstants, TaskInv, NEW c \in Callers, K!Fail(c) PROVE TaskInv'
<1>1. call[c].step = "run" /\ UNCHANGED <<storage, binary, files, unit, checkout, starts, ranOn, ranWith>>
  BY DEF K!Fail, K!At, K!Host, K!Observed
<1>2. PICK t \in Tasks, own \in CallKinds, f \in FileKinds :
        /\ own = call[c] /\ own.task = t /\ Owns(c, t) /\ Established(own, t)
        /\ f = files[t] /\ TaskHolds(t) /\ unit[t] \in UnitKinds /\ starts[t] \in Nat
  BY <1>1, OwnerKnows DEF Owners, After
<1>3. PICK outcome \in {"failed", "timeout", None} :
        call' = [call EXCEPT ![c].step = "terminate", ![c].observed = outcome]
  BY DEF K!Fail
<1>4. PICK m \in CallKinds : m = [own EXCEPT !.step = "terminate", !.observed = outcome]
  BY DEF CallKinds, K!Steps, K!Final
<1>5. call' = [call EXCEPT ![c] = m]
  BY <1>2, <1>3, <1>4 DEF TaskInv, TaskTyped
<1>6. m.step = "terminate" /\ m.task = t /\ m.started = own.started /\ m.observed # "completed"
  BY <1>2, <1>4 DEF CallKinds, K!TaskConstants, K!Final
<1>7. Established(m, t)
  BY <1>1, <1>2, <1>6 DEF Established, Before, After, Ending
<1>. QED
  BY <1>1, <1>2, <1>5, <1>6, <1>7, OwnerGoes

LEMMA Verifies ==
    ASSUME K!TaskConstants, TaskInv, NEW c \in Callers, K!VerifyEmpty(c) PROVE TaskInv'
<1>1. call[c].step = "verify" /\ UNCHANGED <<storage, binary, files, unit, checkout, starts, ranOn, ranWith>>
  BY DEF K!VerifyEmpty, K!At, K!Host, K!Observed
<1>2. PICK t \in Tasks, own \in CallKinds, f \in FileKinds :
        /\ own = call[c] /\ own.task = t /\ Owns(c, t) /\ Established(own, t)
        /\ f = files[t] /\ TaskHolds(t) /\ unit[t] \in UnitKinds /\ starts[t] \in Nat
  BY <1>1, OwnerKnows DEF Owners, After
<1>3. PICK onto \in {"collect", "give up"} :
        K!Go(c, onto) /\ (onto = "collect" => unit[t] = "gone" /\ own.observed # None)
  BY <1>2 DEF K!VerifyEmpty, K!Empty, K!T
<1>4. PICK m \in CallKinds : m = [own EXCEPT !.step = onto]
  BY DEF CallKinds, K!Steps
<1>5. call' = [call EXCEPT ![c] = m]
  BY <1>2, <1>3, <1>4 DEF K!Go, TaskInv, TaskTyped
<1>6. m.step = onto /\ m.task = t /\ m.started = own.started /\ m.observed = own.observed
  BY <1>2, <1>4 DEF CallKinds
<1>7. Established(m, t)
  BY <1>1, <1>2, <1>3, <1>6 DEF Established, Before, After, Ending
<1>. QED
  BY <1>1, <1>2, <1>5, <1>6, <1>7, OwnerGoes

LEMMA Collects ==
    ASSUME K!TaskConstants, TaskInv, NEW c \in Callers, K!Collect(c) PROVE TaskInv'
<1>1. call[c].step = "collect" /\ UNCHANGED <<storage, binary, files, unit, checkout, starts, ranOn, ranWith>>
  BY DEF K!Collect, K!At, K!Host, K!Observed
<1>2. PICK t \in Tasks, own \in CallKinds, f \in FileKinds :
        /\ own = call[c] /\ own.task = t /\ Owns(c, t) /\ Established(own, t)
        /\ f = files[t] /\ TaskHolds(t) /\ unit[t] \in UnitKinds /\ starts[t] \in Nat
  BY <1>1, OwnerKnows DEF Owners, After, Ending
<1>3. PICK verdict \in K!Final :
        /\ verdict = IF checkout[t].outside THEN "rejected" ELSE own.observed
        /\ call' = [call EXCEPT ![c].step = IF verdict = "completed" THEN "diff" ELSE "result",
                                ![c].observed = verdict, ![c].snapshot = checkout[t].content]
  <2>1. own.observed \in K!Final
    BY <1>1, <1>2 DEF Established, Ending, CallKinds
  <2>2. K!Verdict(c) = IF checkout[t].outside THEN "rejected" ELSE own.observed
    BY <1>2 DEF K!Verdict, K!T
  <2>3. K!Verdict(c) \in K!Final
    BY <2>1, <2>2 DEF K!Final
  <2>4. call' = [call EXCEPT ![c].step = IF K!Verdict(c) = "completed" THEN "diff" ELSE "result",
                            ![c].observed = K!Verdict(c), ![c].snapshot = checkout[t].content]
    BY <1>2 DEF K!Collect, K!T
  <2>. QED
    BY <2>2, <2>3, <2>4
<1>4. PICK onto \in {"diff", "result"} : onto = IF verdict = "completed" THEN "diff" ELSE "result"
  OBVIOUS
<1>5. checkout[t] \in [content: K!Content, outside: BOOLEAN]
  BY DEF TaskInv, TaskTyped
<1>6. PICK m \in CallKinds : m = [own EXCEPT !.step = onto, !.observed = verdict, !.snapshot = checkout[t].content]
  BY <1>5 DEF CallKinds, K!Steps
<1>7. call' = [call EXCEPT ![c] = m]
  BY <1>2, <1>3, <1>4, <1>6 DEF TaskInv, TaskTyped
<1>8. /\ m.step = onto /\ m.task = t /\ m.started = own.started /\ m.observed = verdict
      /\ m.snapshot = checkout[t].content
  BY <1>2, <1>6 DEF CallKinds
<1>9. verdict = "completed" => own.observed = "completed" /\ checkout[t] = [content |-> m.snapshot, outside |-> FALSE]
  BY <1>3, <1>5, <1>8
<1>10. Established(m, t)
  BY <1>1, <1>2, <1>4, <1>8, <1>9 DEF Established, Before, After, Ending, K!TaskConstants
<1>. QED
  BY <1>1, <1>2, <1>7, <1>8, <1>10, OwnerGoes

LEMMA Dies ==
    ASSUME K!TaskConstants, TaskInv, NEW c \in Callers, K!Die(c) PROVE TaskInv'
  BY CallEnds DEF K!Die, K!At, K!Observed

LEMMA Terminates ==
    ASSUME K!TaskConstants, TaskInv, NEW c \in Callers, K!Terminate(c) PROVE TaskInv'
<1>1. call[c].step = "terminate" /\ UNCHANGED <<storage, binary, files, checkout, starts, ranOn, ranWith>>
  BY DEF K!Terminate, K!At, K!Host, K!Observed
<1>2. PICK t \in Tasks, own \in CallKinds, f \in FileKinds :
        /\ own = call[c] /\ own.task = t /\ Owns(c, t) /\ Established(own, t)
        /\ f = files[t] /\ TaskHolds(t) /\ unit[t] \in UnitKinds /\ starts[t] \in Nat
  BY <1>1, OwnerKnows DEF Owners, After
<1>3. PICK onto \in {"verify", "give up"} : K!Go(c, onto) /\ (onto = "verify" => own.started)
  BY <1>2 DEF K!Terminate
<1>4. PICK m \in CallKinds : m = [own EXCEPT !.step = onto]
  BY DEF CallKinds, K!Steps
<1>5. call' = [call EXCEPT ![c] = m]
  BY <1>2, <1>3, <1>4 DEF K!Go, TaskInv, TaskTyped
<1>6. m.step = onto /\ m.task = t /\ m.started = own.started /\ m.observed = own.observed
  BY <1>2, <1>4 DEF CallKinds
<1>7. PICK u \in UnitKinds :
        /\ unit' = [unit EXCEPT ![t] = u]
        /\ \/ u = unit[t]
           \/ unit[t] \in {"running", "gone"} /\ u = "gone"
           \/ unit[t] = "running" /\ u = "surviving"
  BY <1>2 DEF TaskInv, TaskTyped, UnitKinds, K!Terminate, K!T
<1>8. unit'[t] = u /\ files' = [files EXCEPT ![t] = f] /\ starts' = [starts EXCEPT ![t] = starts[t]]
  BY <1>1, <1>2, <1>7 DEF TaskInv, TaskTyped
<1>9. Bound(t)' <=> Bound(t)
  BY <1>1 DEF Bound
<1>10. Established(m, t)'
  BY ZenonT(60), <1>1, <1>2, <1>3, <1>6, <1>7, <1>8, <1>9 DEF Established, Before, After, Ending
<1>11. TaskHolds(t)'
  <2>1. f.phase = "launching"
    BY <1>1, <1>2 DEF Established, After
  <2>. QED
    BY <1>1, <1>2, <1>7, <1>8, <1>9, <2>1 DEF TaskHolds
<1>. QED
  BY <1>1, <1>2, <1>3, <1>4, <1>5, <1>6, <1>7, <1>8, <1>10, <1>11, OwnerMoves

\* The records an owner writes at the end.
LEMMA GivesUp ==
    ASSUME K!TaskConstants, TaskInv, NEW c \in Callers, K!GiveUp(c) PROVE TaskInv'
<1>1. call[c].step = "give up" /\ UNCHANGED <<storage, binary, unit, checkout, starts, ranOn, ranWith>>
  BY DEF K!GiveUp, K!At, K!Host, K!Observed
<1>2. PICK t \in Tasks, own \in CallKinds, f \in FileKinds :
        /\ own = call[c] /\ own.task = t /\ Owns(c, t) /\ Established(own, t)
        /\ f = files[t] /\ TaskHolds(t) /\ unit[t] \in UnitKinds /\ starts[t] \in Nat
  BY <1>1, OwnerKnows DEF Owners, After
<1>3. PICK g \in FileKinds : g = [f EXCEPT !.result = [status |-> "blocked", diff |-> None]]
  BY DEF FileKinds
<1>4. call' = [call EXCEPT ![c] = K!Idle] /\ files' = [files EXCEPT ![t] = g]
  BY <1>2, <1>3 DEF K!GiveUp, K!Block, K!Write, K!T, TaskInv, TaskTyped
<1>5. /\ files'[t] = g /\ unit' = [unit EXCEPT ![t] = unit[t]] /\ starts' = [starts EXCEPT ![t] = starts[t]]
  BY <1>1, <1>4 DEF TaskInv, TaskTyped
<1>6. /\ g.admission = f.admission /\ g.phase = f.phase /\ g.attempt = f.attempt /\ g.unit = f.unit
      /\ f.phase = "launching"
  BY <1>1, <1>2, <1>3 DEF FileKinds, Established, After
<1>7. Bound(t)' <=> Bound(t)
  BY <1>1, <1>2, <1>5, <1>6 DEF Bound
<1>8. TaskHolds(t)'
  BY <1>1, <1>2, <1>5, <1>6, <1>7 DEF TaskHolds
<1>9. \A rest \in {K!Idle} : Established(rest, t)'
  BY IdleKind DEF Established, Before, After, Ending
<1>. QED
  BY <1>1, <1>2, <1>4, <1>5, <1>6, <1>8, <1>9, IdleKind, OwnerMoves

LEMMA WritesDiff ==
    ASSUME K!TaskConstants, TaskInv, NEW c \in Callers, K!WriteDiff(c) PROVE TaskInv'
<1>1. call[c].step = "diff" /\ UNCHANGED <<storage, binary, unit, checkout, starts, ranOn, ranWith>>
  BY DEF K!WriteDiff, K!At, K!Host, K!Observed
<1>2. PICK t \in Tasks, own \in CallKinds, f \in FileKinds :
        /\ own = call[c] /\ own.task = t /\ Owns(c, t) /\ Established(own, t)
        /\ f = files[t] /\ TaskHolds(t) /\ unit[t] \in UnitKinds /\ starts[t] \in Nat
  BY <1>1, OwnerKnows DEF Owners, After, Ending
<1>3. PICK g \in FileKinds : g = [f EXCEPT !.diff = own.snapshot]
  BY DEF FileKinds, CallKinds
<1>4. PICK m \in CallKinds : m = [own EXCEPT !.step = "result"]
  BY DEF CallKinds, K!Steps
<1>5. call' = [call EXCEPT ![c] = m] /\ files' = [files EXCEPT ![t] = g]
  BY <1>2, <1>3, <1>4 DEF K!WriteDiff, K!Go, K!Write, K!T, TaskInv, TaskTyped
<1>6. /\ files'[t] = g /\ unit' = [unit EXCEPT ![t] = unit[t]] /\ starts' = [starts EXCEPT ![t] = starts[t]]
  BY <1>1, <1>5 DEF TaskInv, TaskTyped
<1>7. /\ g.admission = f.admission /\ g.phase = "launching" /\ g.attempt = f.attempt /\ g.unit = f.unit
      /\ f.phase = "launching" /\ g.diff = own.snapshot
      /\ checkout[t] = [content |-> own.snapshot, outside |-> FALSE]
  BY ZenonT(60), <1>1, <1>2, <1>3 DEF FileKinds, Established, After, Ending
<1>8. m.step = "result" /\ m.task = t /\ m.started = own.started /\ m.observed = own.observed
  BY <1>2, <1>4 DEF CallKinds
<1>9. Bound(t)' <=> Bound(t)
  BY <1>1, <1>2, <1>6, <1>7 DEF Bound
<1>10. TaskHolds(t)'
  BY <1>1, <1>2, <1>6, <1>7, <1>9 DEF TaskHolds
<1>11. Established(m, t)'
  BY <1>1, <1>2, <1>6, <1>7, <1>8, <1>9 DEF Established, Before, After, Ending
<1>. QED
  BY <1>1, <1>2, <1>5, <1>6, <1>7, <1>8, <1>10, <1>11, OwnerMoves

LEMMA WritesResult ==
    ASSUME K!TaskConstants, TaskInv, NEW c \in Callers, K!WriteResult(c) PROVE TaskInv'
<1>1. call[c].step = "result" /\ UNCHANGED <<storage, binary, unit, checkout, starts, ranOn, ranWith>>
  BY DEF K!WriteResult, K!At, K!Host, K!Observed
<1>2. PICK t \in Tasks, own \in CallKinds, f \in FileKinds :
        /\ own = call[c] /\ own.task = t /\ Owns(c, t) /\ Established(own, t)
        /\ f = files[t] /\ TaskHolds(t) /\ unit[t] \in UnitKinds /\ starts[t] \in Nat
  BY <1>1, OwnerKnows DEF Owners, After, Ending
<1>3. own.observed \in K!Final
  BY <1>1, <1>2 DEF Established, Ending, CallKinds
<1>4. PICK g \in FileKinds : g = [f EXCEPT !.result = [status |-> own.observed, diff |-> f.diff]]
  BY <1>3 DEF FileKinds
<1>5. PICK m \in CallKinds : m = [own EXCEPT !.step = "finish"]
  BY DEF CallKinds, K!Steps
<1>6. call' = [call EXCEPT ![c] = m] /\ files' = [files EXCEPT ![t] = g]
  BY <1>2, <1>4, <1>5 DEF K!WriteResult, K!Go, K!Write, K!T, TaskInv, TaskTyped
<1>7. /\ files'[t] = g /\ unit' = [unit EXCEPT ![t] = unit[t]] /\ starts' = [starts EXCEPT ![t] = starts[t]]
  BY <1>1, <1>6 DEF TaskInv, TaskTyped
<1>8. /\ g.admission = f.admission /\ g.phase = "launching" /\ g.attempt = f.attempt /\ g.unit = f.unit
      /\ f.phase = "launching" /\ g.diff = f.diff /\ g.result = [status |-> own.observed, diff |-> f.diff]
  <2>1. f.phase = "launching"
    BY <1>1, <1>2 DEF Established, After, Ending
  <2>. QED
    BY <1>4, <2>1 DEF FileKinds
<1>9. m.step = "finish" /\ m.task = t /\ m.started = own.started /\ m.observed = own.observed
  BY <1>2, <1>5 DEF CallKinds
<1>10. Bound(t)' <=> Bound(t)
  BY <1>1, <1>2, <1>7, <1>8 DEF Bound
<1>11. TaskHolds(t)'
  BY <1>1, <1>2, <1>7, <1>8, <1>10 DEF TaskHolds
<1>12. Established(m, t)'
  BY <1>1, <1>2, <1>7, <1>8, <1>9, <1>10 DEF Established, Before, After, Ending
<1>. QED
  BY <1>1, <1>2, <1>6, <1>7, <1>8, <1>9, <1>11, <1>12, OwnerMoves

LEMMA Finishes ==
    ASSUME K!TaskConstants, TaskInv, NEW c \in Callers, K!Finish(c) PROVE TaskInv'
<1>1. call[c].step = "finish" /\ UNCHANGED <<storage, binary, unit, checkout, starts, ranOn, ranWith>>
  BY DEF K!Finish, K!At, K!Host, K!Observed
<1>2. PICK t \in Tasks, own \in CallKinds, f \in FileKinds :
        /\ own = call[c] /\ own.task = t /\ Owns(c, t) /\ Established(own, t)
        /\ f = files[t] /\ TaskHolds(t) /\ unit[t] \in UnitKinds /\ starts[t] \in Nat
  BY <1>1, OwnerKnows DEF Owners, After, Ending
<1>3. PICK g \in FileKinds : g = [f EXCEPT !.phase = "finished"]
  BY DEF FileKinds
<1>4. call' = [call EXCEPT ![c] = K!Idle] /\ files' = [files EXCEPT ![t] = g]
  BY <1>2, <1>3 DEF K!Finish, K!Block, K!Write, K!T, TaskInv, TaskTyped
<1>5. /\ files'[t] = g /\ unit' = [unit EXCEPT ![t] = unit[t]] /\ starts' = [starts EXCEPT ![t] = starts[t]]
  BY <1>1, <1>4 DEF TaskInv, TaskTyped
<1>6. /\ g.admission = f.admission /\ g.phase = "finished" /\ g.attempt = f.attempt /\ g.unit = f.unit
      /\ g.diff = f.diff /\ g.result = f.result
  BY <1>2, <1>3 DEF FileKinds
<1>7. /\ f.result = [status |-> own.observed, diff |-> f.diff] /\ own.observed \in K!Final /\ unit[t] = "gone"
      /\ Bound(t) /\ f.diff \in K!Content \cup {None} /\ f.phase = "launching"
      /\ own.observed = "completed" =>
            ranWith[t] = {"pinned"} /\ checkout[t] = [content |-> f.diff, outside |-> FALSE]
  BY <1>1, <1>2 DEF Established, Ending, After, CallKinds, FileKinds
<1>8. f.result # None
  BY <1>7 DEF K!TaskConstants, K!Content
<1>9. Bound(t)'
  BY <1>1, <1>2, <1>5, <1>6, <1>7 DEF Bound
<1>10. TaskHolds(t)'
  <2>1. g.result # None /\ g.result.status = own.observed /\ g.result.diff = g.diff
    BY <1>6, <1>7, <1>8
  <2>2. /\ unit'[t] = "gone" /\ unit'[t] # "none" /\ ranWith' = ranWith /\ ranOn' = ranOn /\ binary' = binary
        /\ checkout' = checkout /\ starts'[t] = starts[t]
    BY <1>1, <1>7
  <2>3. /\ starts[t] = 1 /\ f.unit /\ f.attempt /\ (Stored => f.admission \in Mounts)
        /\ (binary = "pinned" => ranWith[t] \subseteq {"pinned"})
    BY <1>1, <1>2, <1>7 DEF TaskHolds, Established
  <2>. QED
    BY <1>5, <1>6, <1>7, <1>9, <2>1, <2>2, <2>3 DEF TaskHolds
<1>11. \A rest \in {K!Idle} : Established(rest, t)'
  BY IdleKind DEF Established, Before, After, Ending
<1>. QED
  BY <1>1, <1>2, <1>4, <1>5, <1>6, <1>10, <1>11, IdleKind, OwnerMoves

\* The unit and the host change while the invocations stand still: every task and every invocation keeps
\* what it has established.
LEMMA UnitsMove ==
    ASSUME TaskInv, TaskTyped', UNCHANGED call,
           \A t \in Tasks : TaskHolds(t)', \A m \in CallKinds, t \in Tasks :
               (\E c \in Callers : call[c] = m /\ m.task = t /\ m.step # "idle") => Established(m, t)'
    PROVE  TaskInv'
<1>1. ASSUME NEW c \in Callers PROVE CallHolds(c)'
  <2>1. PICK m \in CallKinds : m = call[c] /\ m = call'[c] /\ Established(m, m.task)
    BY DEF TaskInv, TaskTyped, CallHolds
  <2>. PICK t : t = m.task
    OBVIOUS
  <2>2. CASE m.step # "idle"
    <3>1. t \in Tasks
      BY <2>1, <2>2 DEF Established
    <3>. QED
      BY <2>1, <2>2, <3>1 DEF CallHolds
  <2>3. CASE m.step = "idle"
    BY <2>1, <2>3 DEF Established, Before, After, Ending, CallHolds
  <2>. QED
    BY <2>2, <2>3
<1>2. \A c, d \in Callers, t \in Tasks : Owns(c, t)' /\ Owns(d, t)' => c = d
  BY DEF TaskInv, Owns
<1>. QED
  BY <1>1, <1>2 DEF TaskInv

LEMMA WorkerStarts ==
    ASSUME K!TaskConstants, TaskInv, K!UnitStarts PROVE TaskInv'
<1>1. PICK s \in Tasks :
        /\ unit[s] = "queued"
        /\ IF K!Guard(s)
           THEN /\ unit' = [unit EXCEPT ![s] = "running"]
                /\ ranOn' = [ranOn EXCEPT ![s] = @ \cup {storage}] /\ ranWith' = [ranWith EXCEPT ![s] = @ \cup {binary}]
           ELSE unit' = [unit EXCEPT ![s] = "gone"] /\ UNCHANGED <<ranOn, ranWith>>
  BY DEF K!UnitStarts
<1>2. UNCHANGED <<storage, binary, files, checkout, call, starts>>
  BY DEF K!UnitStarts, K!Host
<1>3. TaskTyped /\ TaskHolds(s)
  BY DEF TaskInv
<1>4. PICK u \in {"running", "gone"} :
        /\ unit' = [unit EXCEPT ![s] = u] /\ unit'[s] = u
        /\ u = "gone" => UNCHANGED <<ranOn, ranWith>>
        /\ u = "running" =>
              /\ Stored => storage = files[s].admission
              /\ ranOn' = [ranOn EXCEPT ![s] = @ \cup {storage}]
              /\ ranWith' = [ranWith EXCEPT ![s] = @ \cup {binary}]
  BY <1>1, <1>3 DEF K!Guard, K!Admitted, TaskTyped
<1>5. TaskTyped' /\ \A t \in Tasks \ {s} : unit'[t] = unit[t] /\ ranOn'[t] = ranOn[t] /\ ranWith'[t] = ranWith[t]
  <2>1. unit' \in [Tasks -> UnitKinds] /\ \A t \in Tasks \ {s} : unit'[t] = unit[t]
    BY <1>3, <1>4 DEF TaskTyped, UnitKinds
  <2>2. /\ ranOn' \in [Tasks -> SUBSET Mounts] /\ ranWith' \in [Tasks -> SUBSET {"pinned", "replaced"}]
        /\ \A t \in Tasks \ {s} : ranOn'[t] = ranOn[t] /\ ranWith'[t] = ranWith[t]
    <3>1. CASE u = "gone"
      BY <1>3, <1>4, <3>1 DEF TaskTyped
    <3>2. CASE u = "running"
      BY <1>3, <1>4, <3>2 DEF TaskTyped
    <3>. QED
      BY <3>1, <3>2
  <2>. QED
    BY <1>2, <1>3, <2>1, <2>2 DEF TaskTyped
<1>6. ASSUME NEW t \in Tasks PROVE TaskHolds(t)'
  <2>1. CASE t = s
    <3>1. CASE u = "gone"
      BY <1>1, <1>2, <1>3, <1>4, <2>1, <3>1 DEF TaskHolds
    <3>2. CASE u = "running"
      <4>1. ranWith'[s] = ranWith[s] \cup {binary} /\ ranOn'[s] = {storage} /\ (Stored => storage = files[s].admission)
        BY <1>1, <1>3, <1>4, <3>2 DEF TaskHolds, TaskTyped
      <4>2. Bound(s)'
        BY <1>2, <4>1 DEF Bound
      <4>. QED
        BY <1>1, <1>2, <1>3, <1>4, <2>1, <3>2, <4>1, <4>2 DEF TaskHolds
    <3>. QED
      BY <3>1, <3>2
  <2>2. CASE t # s
    BY <1>2, <1>5, <2>2 DEF TaskInv, Bound, TaskHolds
  <2>. QED
    BY <2>1, <2>2
<1>7. ASSUME NEW m \in CallKinds, NEW t \in Tasks, \E c \in Callers : call[c] = m /\ m.task = t /\ m.step # "idle"
      PROVE  Established(m, t)'
  <2>1. Established(m, t) /\ m.task = t /\ m.step # "idle"
    BY <1>7 DEF TaskInv, CallHolds
  <2>2. CASE t = s
    <3>1. ~m.started /\ m.observed = None /\ m.step \notin Before \cup Ending
      BY <1>1, <2>1, <2>2 DEF Established
    <3>. QED
      BY <1>2, <1>4, <2>1, <2>2, <3>1 DEF Established, Before, After, Ending, K!TaskConstants, K!Final
  <2>3. CASE t # s
    BY <1>2, <1>5, <2>1, <2>3 DEF Bound, Established
  <2>. QED
    BY <2>2, <2>3
<1>. QED
  BY <1>2, <1>5, <1>6, <1>7, UnitsMove

LEMMA Works ==
    ASSUME K!TaskConstants, TaskInv, K!Work PROVE TaskInv'
<1>1. PICK s \in Tasks :
        /\ unit[s] \in {"running", "surviving"}
        /\ \/ \E e \in Edits : checkout' = [checkout EXCEPT ![s].content = e]
           \/ checkout' = [checkout EXCEPT ![s].outside = TRUE]
  BY DEF K!Work
<1>2. UNCHANGED <<storage, binary, files, unit, call, starts, ranOn, ranWith>>
  BY DEF K!Work, K!Host, K!Observed
<1>3. TaskTyped' /\ \A t \in Tasks \ {s} : checkout'[t] = checkout[t]
  <2>1. TaskTyped
    BY DEF TaskInv
  <2>2. checkout' \in [Tasks -> [content: K!Content, outside: BOOLEAN]] /\ \A t \in Tasks \ {s} : checkout'[t] = checkout[t]
    <3>1. PICK w \in [content: K!Content, outside: BOOLEAN] : checkout' = [checkout EXCEPT ![s] = w]
      <4>1. checkout[s] \in [content: K!Content, outside: BOOLEAN]
        BY <2>1 DEF TaskTyped
      <4>2. [checkout[s] EXCEPT !.outside = TRUE] \in [content: K!Content, outside: BOOLEAN]
        BY <4>1
      <4>3. \A e \in Edits : [checkout[s] EXCEPT !.content = e] \in [content: K!Content, outside: BOOLEAN]
        BY <4>1 DEF K!Content
      <4>. QED
        BY <1>1, <4>2, <4>3
    <3>. QED
      BY <2>1, <3>1 DEF TaskTyped
  <2>. QED
    BY <1>2, <2>1, <2>2 DEF TaskTyped
<1>4. \A t \in Tasks : Bound(t)' <=> Bound(t)
  BY <1>2 DEF Bound
<1>5. ASSUME NEW t \in Tasks PROVE TaskHolds(t)'
  BY <1>1, <1>2, <1>3, <1>4 DEF TaskInv, TaskHolds
<1>6. ASSUME NEW m \in CallKinds, NEW t \in Tasks, \E c \in Callers : call[c] = m /\ m.task = t /\ m.step # "idle"
      PROVE  Established(m, t)'
  BY <1>1, <1>2, <1>3, <1>4, <1>6 DEF TaskInv, CallHolds, Established, Ending
<1>. QED
  BY <1>2, <1>3, <1>5, <1>6, UnitsMove

LEMMA WorkerEnds ==
    ASSUME K!TaskConstants, TaskInv, K!UnitEnds PROVE TaskInv'
<1>1. PICK s \in Tasks : unit[s] \in {"running", "surviving"} /\ unit' = [unit EXCEPT ![s] = "gone"]
  BY DEF K!UnitEnds
<1>2. UNCHANGED <<storage, binary, files, checkout, call, starts, ranOn, ranWith>>
  BY DEF K!UnitEnds, K!Host, K!Observed
<1>3. TaskTyped' /\ unit'[s] = "gone" /\ \A t \in Tasks \ {s} : unit'[t] = unit[t]
  BY <1>1, <1>2 DEF TaskInv, TaskTyped, UnitKinds
<1>4. \A t \in Tasks : Bound(t)' <=> Bound(t)
  BY <1>2 DEF Bound
<1>5. ASSUME NEW t \in Tasks PROVE TaskHolds(t)'
  <2>1. TaskHolds(t)
    BY DEF TaskInv
  <2>. QED
    BY <1>1, <1>2, <1>3, <1>4, <2>1 DEF TaskHolds
<1>6. ASSUME NEW m \in CallKinds, NEW t \in Tasks, \E c \in Callers : call[c] = m /\ m.task = t /\ m.step # "idle"
      PROVE  Established(m, t)'
  BY <1>1, <1>2, <1>3, <1>4, <1>6 DEF TaskInv, CallHolds, Established
<1>. QED
  BY <1>2, <1>3, <1>5, <1>6, UnitsMove

LEMMA HostMoves ==
    ASSUME K!TaskConstants, TaskInv, K!HostChanges PROVE TaskInv'
<1>1. UNCHANGED <<files, unit, checkout, call, starts, ranOn>>
  BY DEF K!HostChanges
<1>2. TaskTyped
  BY DEF TaskInv
<1>3. /\ storage' \in Mounts /\ binary' \in {"pinned", "replaced"} /\ (binary' = "pinned" => binary = "pinned")
      /\ ranWith' \in [Tasks -> SUBSET {"pinned", "replaced"}]
      /\ \A t \in Tasks : ranWith[t] \subseteq ranWith'[t] /\ (binary' = "pinned" \/ t \notin K!InTurn => ranWith'[t] = ranWith[t])
  BY <1>2 DEF TaskTyped, Mounts, K!HostChanges
<1>4. TaskTyped'
  BY <1>1, <1>2, <1>3 DEF TaskTyped
<1>5. ASSUME NEW t \in Tasks PROVE t \in K!InTurn => \E d \in Callers : Owns(d, t) /\ call[d].step \in {"run", "confirm"}
  BY DEF K!InTurn, K!T, K!At, Owns, Owners, After
<1>6. \A t \in Tasks : Bound(t) => Bound(t)'
  BY <1>1, <1>3 DEF Bound
<1>7. ASSUME NEW t \in Tasks PROVE TaskHolds(t)'
  <2>1. TaskHolds(t)
    BY DEF TaskInv
  <2>2. CASE t \notin K!InTurn
    BY <1>1, <1>3, <1>6, <2>1, <2>2 DEF TaskHolds
  <2>3. CASE t \in K!InTurn
    <3>1. files[t].phase = "launching"
      <4>1. PICK d \in Callers : Owns(d, t) /\ call[d].step \in {"run", "confirm"}
        BY <1>5, <2>3
      <4>. QED
        BY <4>1 DEF TaskInv, CallHolds, Established, Owns, After
    <3>. QED
      BY <1>1, <1>3, <1>6, <2>1, <3>1 DEF TaskHolds
  <2>. QED
    BY <2>2, <2>3
<1>8. ASSUME NEW m \in CallKinds, NEW t \in Tasks, \E c \in Callers : call[c] = m /\ m.task = t /\ m.step # "idle"
      PROVE  Established(m, t)'
  <2>1. PICK c \in Callers : call[c] = m /\ m.task = t /\ m.step # "idle" /\ Established(m, t)
    BY <1>8 DEF TaskInv, CallHolds
  <2>2. m.observed = "completed" => ranWith'[t] = ranWith[t]
    <3>1. ASSUME m.observed = "completed" PROVE t \notin K!InTurn
      <4>1. m.step \notin Before \cup {"claim", "confirm", "run"}
        BY <2>1, <3>1 DEF Established, K!TaskConstants, K!Final
      <4>2. Owns(c, t)
        BY <2>1, <4>1 DEF Owns, Owners, Before, After, Ending, CallKinds, K!Steps
      <4>. QED
        BY <1>5, <2>1, <4>1, <4>2 DEF TaskInv
    <3>. QED
      BY <1>3, <3>1
  <2>. QED
    BY <1>1, <1>3, <1>6, <2>1, <2>2 DEF Established
<1>. QED
  BY <1>1, <1>4, <1>7, <1>8, UnitsMove

\* The step that changes the records of a task is of its owner, or of the first that admits or claims it.
LEMMA TaskStep ==
    ASSUME K!TaskConstants, TaskInv, [K!Next]_K!vars
    PROVE  TaskInv'
<1>1. CASE UNCHANGED K!vars
  <2>1. UNCHANGED <<storage, binary, files, unit, checkout, call, starts, ranOn, ranWith>>
    BY <1>1 DEF K!vars
  <2>2. TaskTyped' /\ TaskTyped
    BY <2>1 DEF TaskInv, TaskTyped
  <2>3. \A t \in Tasks : TaskHolds(t)'
    BY <2>1 DEF TaskInv, TaskHolds, Bound
  <2>4. \A m \in CallKinds, t \in Tasks :
          (\E c \in Callers : call[c] = m /\ m.task = t /\ m.step # "idle") => Established(m, t)'
    BY <2>1, TaskAlone DEF TaskInv, CallHolds
  <2>. QED
    BY <2>1, <2>2, <2>3, <2>4, UnitsMove
<1>2. ASSUME NEW c \in Callers,
             \/ K!Admit(c) \/ K!Claim(c) \/ K!Reserve(c) \/ K!Configure(c) \/ K!Attempt(c) \/ K!RecordUnit(c)
             \/ K!Start(c) \/ K!Confirm(c) \/ K!Exchange(c) \/ K!Fail(c) \/ K!Terminate(c) \/ K!VerifyEmpty(c)
             \/ K!GiveUp(c) \/ K!Collect(c) \/ K!WriteDiff(c) \/ K!WriteResult(c) \/ K!Finish(c) \/ K!Die(c)
      PROVE  TaskInv'
  BY <1>2, Admits, Claims, Reserves, Configures, AttemptIsMade, UnitIsRecorded, Starts, Confirms, Exchanges, Fails,
     Terminates, Verifies, GivesUp, Collects, WritesDiff, WritesResult, Finishes, Dies
<1>. QED
  BY <1>1, <1>2, WorkerStarts, Works, WorkerEnds, HostMoves DEF K!Next

\* What was reported once is still on file: nobody writes the records of a finished task.
LEMMA FinishedStays ==
    ASSUME K!TaskConstants, TaskInv, [K!Next]_K!vars, NEW t \in Tasks, files[t].phase = "finished"
    PROVE  files'[t] = files[t]
<1>1. files[t].phase # None /\ (Stored => files[t].admission # None) /\ files \in [Tasks -> FileKinds]
  BY DEF TaskInv, TaskTyped, TaskHolds, K!TaskConstants, Mounts
<1>2. \A c \in Callers : ~Owns(c, t)
  BY DEF TaskInv, CallHolds, Established, Owns, Owners, Before, After
<1>3. ASSUME NEW c \in Callers, K!Admit(c) PROVE files'[t] = files[t]
  BY <1>1, <1>3 DEF K!Admit
<1>4. ASSUME NEW c \in Callers, K!Claim(c) PROVE files'[t] = files[t]
  BY <1>1, <1>4 DEF K!Claim, K!Claimable, K!Write, K!T
<1>5. ASSUME NEW c \in Callers, NEW field, NEW value, K!Write(K!T(c), field, value), K!T(c) # t PROVE files'[t] = files[t]
  BY <1>1, <1>5 DEF K!Write
<1>6. \A c \in Callers : call[c].step \in Owners => K!T(c) # t
  BY <1>2 DEF Owns, K!T
<1>7. ASSUME NEW c \in Callers, K!Reserve(c) \/ K!Configure(c) \/ K!Attempt(c) \/ K!RecordUnit(c) PROVE files'[t] = files[t]
  <2>1. K!T(c) # t
    BY <1>6, <1>7 DEF K!Reserve, K!Configure, K!Attempt, K!RecordUnit, K!At, Owners, Before
  <2>. QED
    BY <1>5, <1>7, <2>1 DEF K!Reserve, K!Configure, K!Attempt, K!RecordUnit
<1>8. ASSUME NEW c \in Callers, K!GiveUp(c) \/ K!WriteDiff(c) \/ K!WriteResult(c) \/ K!Finish(c) PROVE files'[t] = files[t]
  <2>1. K!T(c) # t
    BY <1>6, <1>8 DEF K!GiveUp, K!WriteDiff, K!WriteResult, K!Finish, K!At, Owners, After, Ending
  <2>. QED
    BY <1>5, <1>8, <2>1 DEF K!GiveUp, K!WriteDiff, K!WriteResult, K!Finish
<1>9. ASSUME NEW c \in Callers,
             \/ K!Start(c) \/ K!Confirm(c) \/ K!Exchange(c) \/ K!Fail(c) \/ K!Terminate(c) \/ K!VerifyEmpty(c)
             \/ K!Collect(c) \/ K!Die(c)
      PROVE  files' = files
  BY <1>9 DEF K!Start, K!Confirm, K!Exchange, K!Fail, K!Terminate, K!VerifyEmpty, K!Collect, K!Die
<1>10. K!UnitStarts \/ K!Work \/ K!UnitEnds \/ K!HostChanges \/ UNCHANGED K!vars => files' = files
  BY DEF K!UnitStarts, K!Work, K!UnitEnds, K!HostChanges, K!vars
<1>. QED
  BY <1>3, <1>4, <1>7, <1>8, <1>9, <1>10 DEF K!Next

LEMMA TasksAreSound ==
    ASSUME K!TaskConstants, TaskInv
    PROVE  K!TypeOK /\ K!StartedOnce /\ K!UnitsAreRecorded /\ K!ResultsAreFinal /\ K!ResultsAreBound
<1>1. K!TypeOK
  BY DEF TaskInv, TaskTyped, K!TypeOK, Mounts, FileKinds, UnitKinds, CallKinds
<1>2. K!StartedOnce
  BY DEF TaskInv, TaskTyped, TaskHolds, UnitKinds, K!StartedOnce
<1>3. K!UnitsAreRecorded
  BY DEF TaskInv, TaskHolds, K!UnitsAreRecorded
<1>4. ASSUME NEW t \in Tasks, K!Inspected(t).status # "blocked"
      PROVE  K!Inspected(t) = files[t].result /\ files[t].phase = "finished"
  BY <1>4 DEF K!Inspected
<1>5. ASSUME NEW t \in Tasks, K!Inspected(t).status # "blocked"
      PROVE  /\ unit[t] = "gone"
             /\ K!Inspected(t).status = "completed" =>
                   /\ checkout[t] = [content |-> K!Inspected(t).diff, outside |-> FALSE]
                   /\ Stored => ranOn[t] = {files[t].admission}
                   /\ ranWith[t] = {"pinned"}
  <2>1. TaskHolds(t)
    BY DEF TaskInv
  <2>. QED
    BY <1>4, <1>5, <2>1 DEF TaskHolds, Bound
<1>6. K!ResultsAreFinal
  BY <1>5 DEF K!ResultsAreFinal
<1>7. K!ResultsAreBound
  BY <1>5 DEF K!ResultsAreBound
<1>. QED
  BY <1>1, <1>2, <1>3, <1>6, <1>7

LEMMA ReportStays ==
    ASSUME K!TaskConstants, TaskInv, [K!Next]_K!vars PROVE K!ResultsStay
BY FinishedStays DEF K!Inspected, K!ResultsStay

\* For any number of callers and tasks, with and without bounded storage, whatever dies and whatever is mounted
\* or replaced: a task starts one worker, which its records name as long as it may live, and a result that is
\* reported is final, of the admitted storage and of the pinned executable (launcher.py, task.py, codex.py).
THEOREM TaskSafety ==
    ASSUME K!TaskConstants
    PROVE  K!Spec => [](K!TypeOK /\ K!StartedOnce /\ K!UnitsAreRecorded /\ K!ResultsAreFinal /\ K!ResultsAreBound)
<1>1. K!Init => TaskInv
  BY TasksStart
<1>2. TaskInv /\ [K!Next]_K!vars => TaskInv'
  BY TaskStep
<1>3. TaskInv => K!TypeOK /\ K!StartedOnce /\ K!UnitsAreRecorded /\ K!ResultsAreFinal /\ K!ResultsAreBound
  BY TasksAreSound
<1>. QED
  BY <1>1, <1>2, <1>3, PTL DEF K!Spec

\* And what inspect reported of a task once it reports ever after, as long as the admitted storage is mounted.
THEOREM TaskReportsStay ==
    ASSUME K!TaskConstants
    PROVE  K!Spec => [][K!ResultsStay]_K!vars
<1>1. K!Init => TaskInv
  BY TasksStart
<1>2. TaskInv /\ [K!Next]_K!vars => TaskInv'
  BY TaskStep
<1>3. TaskInv /\ [K!Next]_K!vars => K!ResultsStay
  BY ReportStays
<1>. QED
  BY <1>1, <1>2, <1>3, PTL DEF K!Spec

-----------------------------------------------------------------------------
(* The supervised native diagnostic (NativeDiagnostic).                    *)

CONSTANTS
    Lease, Wait, Limit, Native, Margin, Timers, MaxTime

VARIABLES
    now, sup, held, busy, prod, timer, logs, sealed, links, child, service, launch, native

D == INSTANCE NativeDiagnostic WITH unit <- service, step <- launch

\* release_may_have_committed
Answers == BOOLEAN \cup {None}
Runs ==
    [at: D!Checking \cup D!Started \cup D!Ending,
     phase: {"new", "opening", "waiting_process", "preparing", "waiting_release", "guarding",
             "publishing_release", "released", "closed"},
     eligible: Nat \cup {None}, issued: 0 .. MaxTime \cup {None}, started: BOOLEAN, may: Answers,
     cleanup: {"none", "PASS", "BLOCKED"}, status: {"BLOCKED", "PASS"}]
Links == [issued: 0 .. MaxTime, until: 0 .. (MaxTime + Wait + Lease)] \cup {None}
DiagnosticTyped ==
    /\ now \in 0 .. MaxTime /\ sup \in Runs /\ held \in SUBSET D!Locks /\ busy \in SUBSET D!Locks
    /\ prod \in BOOLEAN /\ timer \in Timers /\ logs \in BOOLEAN /\ sealed \in SUBSET D!Records
    /\ links \in [D!Records -> Links] /\ child \in {"none", "root", "worker"}
    /\ service \in {"none", "starting", "alive", "ended"}
    /\ launch \in {"start", "wait", "tree", "admission", "ask", "asked", "fork", "native", "complete", "stopped"}
    /\ native \in {"no", "running", "done"}

Underlocked == {"preflight", "snapshot", "begin", "attempt"}
Cleaning == {"stop", "verify"}
Closed == {"final", "done", "hold"}
Unreleased == {"opening", "waiting_process", "preparing", "waiting_release", "guarding"}

\* What the supervisor has established by the place it is at: the phase of its transaction, the locks from the
\* first to the last look, an unused stage until it starts the unit, a lease that ends before the margin, and
\* what its result will say.
SupHolds(s) ==
    /\ s.at \in D!Checking =>
          /\ s.phase = (IF s.at = "attempt" THEN "opening" ELSE "new")
          /\ ~s.started /\ s.status = "BLOCKED" /\ s.cleanup = "none" /\ s.eligible = None /\ s.issued = None
    /\ s.at \in D!Started => s.started /\ s.status = "BLOCKED" /\ s.cleanup = "none"
    /\ s.at \in {"start", "effective", "pin"} => s.phase = "waiting_process"
    /\ s.at \in {"create", "chown", "provision"} => s.phase = "preparing"
    /\ s.at \in {"loop", "report"} => s.phase \in {"waiting_release", "released"}
    /\ s.at \in {"guard", "issue"} => s.phase = "guarding"
    /\ s.at \in {"release", "committed"} => s.phase = "publishing_release"
    /\ s.at \in Cleaning => s.started
    /\ s.at \in D!Started \cup Cleaning \cup {"close"} =>
          s.phase # "closed" /\ (s.started => s.phase \notin {"new", "opening"})
    /\ s.at \notin Closed \cup {"killed"} => s.may = None
    /\ s.at \in Underlocked \/ (s.started /\ s.at \notin {"done", "killed"}) => held = D!Locks
    /\ s.at = "second" => "deploy" \in held
    /\ s.at = "attempt" \/ s.started \/ s.phase \in Unreleased => logs
    /\ s.at \in {"attempt", "start"} => service = "none"
    /\ s.at = "provision" => "provision" \in sealed
    /\ s.at = "release" => "release" \in sealed /\ s.issued # None
    /\ s.at \in {"issue", "release"} => s.eligible # None
    /\ s.eligible # None => s.eligible <= timer - Margin
    /\ s.issued # None => s.issued < s.eligible /\ s.eligible # None /\ s.eligible <= MaxTime + Lease
    /\ s.phase \in Unreleased => links["release"] = None /\ s.issued = None
    /\ s.may = FALSE => links["release"] = None
    /\ s.cleanup = "PASS" => service \in {"none", "ended"} /\ s.at \notin Cleaning
    /\ s.at = "done" /\ s.started => s.cleanup = "PASS"
    /\ s.status = "PASS" => launch = "complete" /\ s.started
    /\ s.status = "PASS" /\ s.at \in Closed \cup {"close"} => s.cleanup = "PASS"
    /\ s.status = "PASS" /\ s.at \in Closed => s.may = TRUE

\* What the stage holds, and how far the launcher is.
StageHolds ==
    /\ ~logs => sealed = {} /\ child = "none" /\ service = "none" /\ \A r \in D!Records : links[r] = None
    /\ \A r \in D!Records : links[r] # None => r \in sealed /\ links[r].issued <= links[r].until
    /\ links["release"] # None => links["release"].until <= timer - Margin
LaunchHolds ==
    /\ service \in {"none", "starting"} => launch = "start"
    /\ launch \in {"start", "wait", "tree", "admission", "ask", "asked", "fork"} => native = "no"
    /\ launch = "native" => native = "running" /\ service = "alive"
    /\ launch = "complete" => native = "done" /\ service = "ended"
    /\ launch = "stopped" => native # "running" /\ service = "ended"
    /\ launch \in {"tree", "admission", "ask", "asked", "fork", "native", "complete"} => links["provision"] # None
    /\ native # "no" => links["provision"] # None /\ links["release"] # None /\ child = "worker"
    /\ native = "running" => now < links["release"].until + Native

\* The inductive invariant of the diagnostic.
DiagnosticInv == DiagnosticTyped /\ SupHolds(sup) /\ StageHolds /\ LaunchHolds

LEMMA DiagnosticNumbers ==
    ASSUME D!DiagnosticConstants
    PROVE  /\ Lease \in Nat /\ Wait \in Nat /\ Limit \in Nat /\ Native \in Nat /\ Margin \in Nat /\ MaxTime \in Nat
           /\ Timers \subseteq Nat /\ Lease > 0 /\ Native <= Margin /\ None \notin Nat /\ None \notin BOOLEAN
           /\ \A r \in [issued: 0 .. MaxTime, until: 0 .. (MaxTime + Wait + Lease)] : r # None
BY DEF D!DiagnosticConstants

LEMMA DiagnosticStarts ==
    ASSUME D!DiagnosticConstants, D!Init PROVE DiagnosticInv
<1>1. D!NewRun \in Runs
  BY DiagnosticNumbers DEF D!NewRun, Runs, Answers, D!Checking
<1>2. DiagnosticTyped
  <2>1. links \in [D!Records -> Links] /\ 0 \in 0 .. MaxTime
    BY DiagnosticNumbers DEF D!Init, Links
  <2>. QED
    BY <1>1, <2>1 DEF D!Init, DiagnosticTyped
<1>3. SupHolds(sup)
  BY DiagnosticNumbers DEF D!Init, D!NewRun, SupHolds, D!Started, D!Checking, Cleaning, Closed, Underlocked, Unreleased
<1>4. StageHolds /\ LaunchHolds
  BY DEF D!Init, StageHolds, LaunchHolds, D!Records
<1>. QED
  BY <1>2, <1>3, <1>4 DEF DiagnosticInv

\* The supervisor moves, and nothing else changes.
LEMMA SupMoves ==
    ASSUME DiagnosticInv, NEW s \in Runs, sup' = s, SupHolds(s),
           UNCHANGED <<now, held, busy, prod, timer, logs, sealed, links, child, service, launch, native>>
    PROVE  DiagnosticInv'
<1>1. DiagnosticTyped'
  BY DEF DiagnosticInv, DiagnosticTyped
<1>2. SupHolds(s)'
  BY DEF SupHolds
<1>3. SupHolds(sup)'
  BY <1>2
<1>4. StageHolds' /\ LaunchHolds'
  BY DEF DiagnosticInv, StageHolds, LaunchHolds
<1>. QED
  BY <1>1, <1>3, <1>4 DEF DiagnosticInv

\* Whatever fails, the cleanup comes first if something was started.
LEMMA RaisesSound ==
    ASSUME D!DiagnosticConstants, DiagnosticInv, NEW from \in SUBSET D!Looks, D!Fails(from) PROVE DiagnosticInv'
<1>1. sup.at \in D!Looks /\ sup \in Runs /\ SupHolds(sup)
  BY DEF D!Fails, DiagnosticInv, DiagnosticTyped
<1>2. PICK to \in {"stop", "close"} : to = IF sup.started THEN "stop" ELSE "close"
  OBVIOUS
<1>3. PICK s \in Runs : s = [sup EXCEPT !.at = to, !.phase = sup.phase] /\ sup' = s
  <2>1. sup' = [sup EXCEPT !.at = to, !.phase = sup.phase]
    BY <1>2 DEF D!Fails, D!Raise
  <2>2. [sup EXCEPT !.at = to, !.phase = sup.phase] \in Runs
    BY <1>1 DEF Runs, D!Ending
  <2>. QED
    BY <2>1, <2>2
<1>4. UNCHANGED <<now, held, busy, prod, timer, logs, sealed, links, child, service, launch, native>>
  BY DEF D!Fails, D!world, D!stage, D!worker
<1>5. /\ s.at = to /\ s.phase = sup.phase /\ s.eligible = sup.eligible /\ s.issued = sup.issued /\ s.started = sup.started
      /\ s.may = sup.may /\ s.cleanup = sup.cleanup /\ s.status = sup.status
  BY <1>1, <1>3 DEF Runs
<1>6. SupHolds(s)
  BY <1>1, <1>2, <1>5 DEF SupHolds, D!Looks, D!Checking, D!Started, Cleaning, Closed, Underlocked, Unreleased
<1>. QED
  BY <1>3, <1>4, <1>6, SupMoves

\* Looks that change nothing but the place of the supervisor and its phase.
LEMMA AdmitSound ==
    ASSUME D!DiagnosticConstants, DiagnosticInv, D!Admit PROVE DiagnosticInv'
<1>1. sup.at = "admit" /\ sup \in Runs /\ SupHolds(sup) /\ StageHolds /\ LaunchHolds /\ now \in 0 .. MaxTime /\ timer \in Timers
  BY DEF D!Admit, DiagnosticInv, DiagnosticTyped
<1>2. UNCHANGED <<now, held, busy, prod, timer, logs, sealed, links, child, service, launch, native>>
  BY DEF D!Admit, D!world, D!stage, D!worker
<1>4. PICK s \in Runs : s = [sup EXCEPT !.at = "first"] /\ sup' = s
  BY <1>1, DiagnosticNumbers DEF D!Admit, D!Goto, Runs, D!Checking, D!Started, D!Ending
<1>5. /\ s.at = "first" /\ s.phase = sup.phase /\ s.eligible = sup.eligible /\ s.issued = sup.issued
      /\ s.started = sup.started /\ s.may = sup.may /\ s.cleanup = sup.cleanup /\ s.status = sup.status
  BY <1>1, <1>4 DEF Runs
<1>6. SupHolds(s)
  BY <1>1, <1>5, DiagnosticNumbers DEF SupHolds, D!Checking, D!Started, Cleaning, Closed, Underlocked, Unreleased
<1>. QED
  BY <1>2, <1>4, <1>6, SupMoves

LEMMA PreflightSound ==
    ASSUME D!DiagnosticConstants, DiagnosticInv, D!Preflight PROVE DiagnosticInv'
<1>1. sup.at = "preflight" /\ sup \in Runs /\ SupHolds(sup) /\ StageHolds /\ LaunchHolds /\ now \in 0 .. MaxTime /\ timer \in Timers
  BY DEF D!Preflight, DiagnosticInv, DiagnosticTyped
<1>2. UNCHANGED <<now, held, busy, prod, timer, logs, sealed, links, child, service, launch, native>>
  BY DEF D!Preflight, D!world, D!stage, D!worker
<1>4. PICK s \in Runs : s = [sup EXCEPT !.at = "snapshot"] /\ sup' = s
  BY <1>1, DiagnosticNumbers DEF D!Preflight, D!Goto, Runs, D!Checking, D!Started, D!Ending
<1>5. /\ s.at = "snapshot" /\ s.phase = sup.phase /\ s.eligible = sup.eligible /\ s.issued = sup.issued
      /\ s.started = sup.started /\ s.may = sup.may /\ s.cleanup = sup.cleanup /\ s.status = sup.status
  BY <1>1, <1>4 DEF Runs
<1>6. SupHolds(s)
  BY <1>1, <1>5, DiagnosticNumbers DEF SupHolds, D!Checking, D!Started, Cleaning, Closed, Underlocked, Unreleased
<1>. QED
  BY <1>2, <1>4, <1>6, SupMoves

LEMMA EffectiveSound ==
    ASSUME D!DiagnosticConstants, DiagnosticInv, D!EffectiveUnit PROVE DiagnosticInv'
<1>1. sup.at = "effective" /\ sup \in Runs /\ SupHolds(sup) /\ StageHolds /\ LaunchHolds /\ now \in 0 .. MaxTime /\ timer \in Timers
  BY DEF D!EffectiveUnit, DiagnosticInv, DiagnosticTyped
<1>2. UNCHANGED <<now, held, busy, prod, timer, logs, sealed, links, child, service, launch, native>>
  BY DEF D!EffectiveUnit, D!world, D!stage, D!worker
<1>4. PICK s \in Runs : s = [sup EXCEPT !.at = "pin"] /\ sup' = s
  BY <1>1, DiagnosticNumbers DEF D!EffectiveUnit, D!Goto, Runs, D!Checking, D!Started, D!Ending
<1>5. /\ s.at = "pin" /\ s.phase = sup.phase /\ s.eligible = sup.eligible /\ s.issued = sup.issued
      /\ s.started = sup.started /\ s.may = sup.may /\ s.cleanup = sup.cleanup /\ s.status = sup.status
  BY <1>1, <1>4 DEF Runs
<1>6. SupHolds(s)
  BY <1>1, <1>5, DiagnosticNumbers DEF SupHolds, D!Checking, D!Started, Cleaning, Closed, Underlocked, Unreleased
<1>. QED
  BY <1>2, <1>4, <1>6, SupMoves

LEMMA PinSound ==
    ASSUME D!DiagnosticConstants, DiagnosticInv, D!Pin PROVE DiagnosticInv'
<1>1. sup.at = "pin" /\ sup \in Runs /\ SupHolds(sup) /\ StageHolds /\ LaunchHolds /\ now \in 0 .. MaxTime /\ timer \in Timers
  BY DEF D!Pin, DiagnosticInv, DiagnosticTyped
<1>2. UNCHANGED <<now, held, busy, prod, timer, logs, sealed, links, child, service, launch, native>>
  BY DEF D!Pin, D!world, D!stage, D!worker
<1>4. PICK s \in Runs : s = [sup EXCEPT !.at = "create", !.phase = "preparing"] /\ sup' = s
  BY <1>1, DiagnosticNumbers DEF D!Pin, D!Goto, Runs, D!Checking, D!Started, D!Ending
<1>5. /\ s.at = "create" /\ s.phase = "preparing" /\ s.eligible = sup.eligible /\ s.issued = sup.issued
      /\ s.started = sup.started /\ s.may = sup.may /\ s.cleanup = sup.cleanup /\ s.status = sup.status
  BY <1>1, <1>4 DEF Runs
<1>6. SupHolds(s)
  BY <1>1, <1>5, DiagnosticNumbers DEF SupHolds, D!Checking, D!Started, Cleaning, Closed, Underlocked, Unreleased
<1>. QED
  BY <1>2, <1>4, <1>6, SupMoves

LEMMA RequestSound ==
    ASSUME D!DiagnosticConstants, DiagnosticInv, D!Request PROVE DiagnosticInv'
<1>1. sup.at = "loop" /\ sup \in Runs /\ SupHolds(sup) /\ StageHolds /\ LaunchHolds /\ now \in 0 .. MaxTime /\ timer \in Timers
  BY DEF D!Request, DiagnosticInv, DiagnosticTyped
<1>2. UNCHANGED <<now, held, busy, prod, timer, logs, sealed, links, child, service, launch, native>>
  BY DEF D!Request, D!world, D!stage, D!worker
<1>3. sup.phase = "waiting_release"
  BY <1>1, DiagnosticNumbers DEF D!Request, D!Live, D!Idle
<1>4. PICK s \in Runs : s = [sup EXCEPT !.at = "guard", !.phase = "guarding"] /\ sup' = s
  BY <1>1, <1>3, DiagnosticNumbers DEF D!Request, D!Goto, Runs, D!Checking, D!Started, D!Ending
<1>5. /\ s.at = "guard" /\ s.phase = "guarding" /\ s.eligible = sup.eligible /\ s.issued = sup.issued
      /\ s.started = sup.started /\ s.may = sup.may /\ s.cleanup = sup.cleanup /\ s.status = sup.status
  BY <1>1, <1>4 DEF Runs
<1>6. SupHolds(s)
  BY <1>1, <1>3, <1>5, DiagnosticNumbers DEF SupHolds, D!Checking, D!Started, Cleaning, Closed, Underlocked, Unreleased
<1>. QED
  BY <1>2, <1>4, <1>6, SupMoves

LEMMA GuardSound ==
    ASSUME D!DiagnosticConstants, DiagnosticInv, D!Guard PROVE DiagnosticInv'
<1>1. sup.at = "guard" /\ sup \in Runs /\ SupHolds(sup) /\ StageHolds /\ LaunchHolds /\ now \in 0 .. MaxTime /\ timer \in Timers
  BY DEF D!Guard, DiagnosticInv, DiagnosticTyped
<1>2. UNCHANGED <<now, held, busy, prod, timer, logs, sealed, links, child, service, launch, native>>
  BY DEF D!Guard, D!world, D!stage, D!worker
<1>3. timer - Margin \in Nat
  BY <1>1, DiagnosticNumbers DEF D!Guard, D!Live, D!Idle
<1>4. PICK s \in Runs : s = [sup EXCEPT !.at = "issue", !.eligible = timer - Margin] /\ sup' = s
  BY <1>1, <1>3, DiagnosticNumbers DEF D!Guard, D!Goto, Runs, D!Checking, D!Started, D!Ending
<1>5. /\ s.at = "issue" /\ s.phase = sup.phase /\ s.eligible = timer - Margin /\ s.issued = sup.issued
      /\ s.started = sup.started /\ s.may = sup.may /\ s.cleanup = sup.cleanup /\ s.status = sup.status
  BY <1>1, <1>4 DEF Runs
<1>6. SupHolds(s)
  BY <1>1, <1>3, <1>5, DiagnosticNumbers DEF SupHolds, D!Checking, D!Started, Cleaning, Closed, Underlocked, Unreleased
<1>. QED
  BY <1>2, <1>4, <1>6, SupMoves

LEMMA ReleasedSound ==
    ASSUME D!DiagnosticConstants, DiagnosticInv, D!Released PROVE DiagnosticInv'
<1>1. sup.at = "committed" /\ sup \in Runs /\ SupHolds(sup) /\ StageHolds /\ LaunchHolds /\ now \in 0 .. MaxTime /\ timer \in Timers
  BY DEF D!Released, DiagnosticInv, DiagnosticTyped
<1>2. UNCHANGED <<now, held, busy, prod, timer, logs, sealed, links, child, service, launch, native>>
  BY DEF D!Released, D!world, D!stage, D!worker
<1>4. PICK s \in Runs : s = [sup EXCEPT !.at = "loop", !.phase = "released"] /\ sup' = s
  BY <1>1, DiagnosticNumbers DEF D!Released, D!Goto, Runs, D!Checking, D!Started, D!Ending
<1>5. /\ s.at = "loop" /\ s.phase = "released" /\ s.eligible = sup.eligible /\ s.issued = sup.issued
      /\ s.started = sup.started /\ s.may = sup.may /\ s.cleanup = sup.cleanup /\ s.status = sup.status
  BY <1>1, <1>4 DEF Runs
<1>6. SupHolds(s)
  BY <1>1, <1>5, DiagnosticNumbers DEF SupHolds, D!Checking, D!Started, Cleaning, Closed, Underlocked, Unreleased
<1>. QED
  BY <1>2, <1>4, <1>6, SupMoves

LEMMA LeaveSound ==
    ASSUME D!DiagnosticConstants, DiagnosticInv, D!Leave PROVE DiagnosticInv'
<1>1. sup.at = "loop" /\ sup \in Runs /\ SupHolds(sup) /\ StageHolds /\ LaunchHolds /\ now \in 0 .. MaxTime /\ timer \in Timers
  BY DEF D!Leave, DiagnosticInv, DiagnosticTyped
<1>2. UNCHANGED <<now, held, busy, prod, timer, logs, sealed, links, child, service, launch, native>>
  BY DEF D!Leave, D!world, D!stage, D!worker
<1>4. PICK s \in Runs : s = [sup EXCEPT !.at = "report"] /\ sup' = s
  BY <1>1, DiagnosticNumbers DEF D!Leave, D!Goto, Runs, D!Checking, D!Started, D!Ending
<1>5. /\ s.at = "report" /\ s.phase = sup.phase /\ s.eligible = sup.eligible /\ s.issued = sup.issued
      /\ s.started = sup.started /\ s.may = sup.may /\ s.cleanup = sup.cleanup /\ s.status = sup.status
  BY <1>1, <1>4 DEF Runs
<1>6. SupHolds(s)
  BY <1>1, <1>5, DiagnosticNumbers DEF SupHolds, D!Checking, D!Started, Cleaning, Closed, Underlocked, Unreleased
<1>. QED
  BY <1>2, <1>4, <1>6, SupMoves

LEMMA ReportSound ==
    ASSUME D!DiagnosticConstants, DiagnosticInv, D!Report PROVE DiagnosticInv'
<1>1. sup.at = "report" /\ sup \in Runs /\ SupHolds(sup) /\ StageHolds /\ LaunchHolds /\ now \in 0 .. MaxTime /\ timer \in Timers
  BY DEF D!Report, DiagnosticInv, DiagnosticTyped
<1>2. UNCHANGED <<now, held, busy, prod, timer, logs, sealed, links, child, service, launch, native>>
  BY DEF D!Report, D!world, D!stage, D!worker
<1>3. launch = "complete"
  BY <1>1, DiagnosticNumbers DEF D!Report, D!Live, D!Idle
<1>4. PICK s \in Runs : s = [sup EXCEPT !.at = "stop", !.status = "PASS"] /\ sup' = s
  BY <1>1, <1>3, DiagnosticNumbers DEF D!Report, D!Goto, Runs, D!Checking, D!Started, D!Ending
<1>5. /\ s.at = "stop" /\ s.phase = sup.phase /\ s.eligible = sup.eligible /\ s.issued = sup.issued
      /\ s.started = sup.started /\ s.may = sup.may /\ s.cleanup = sup.cleanup /\ s.status = "PASS"
  BY <1>1, <1>4 DEF Runs
<1>6. SupHolds(s)
  BY <1>1, <1>3, <1>5, DiagnosticNumbers DEF SupHolds, D!Checking, D!Started, Cleaning, Closed, Underlocked, Unreleased
<1>. QED
  BY <1>2, <1>4, <1>6, SupMoves

LEMMA SnapshotSound ==
    ASSUME D!DiagnosticConstants, DiagnosticInv, D!Snapshot PROVE DiagnosticInv'
<1>1. /\ sup.at = "snapshot" /\ DiagnosticTyped /\ SupHolds(sup) /\ StageHolds /\ LaunchHolds
      /\ sup \in Runs /\ now \in 0 .. MaxTime /\ timer \in Timers
  BY DEF D!Snapshot, DiagnosticInv, DiagnosticTyped
<1>2. UNCHANGED <<now, held, busy, timer, logs, sealed, links, child, service, launch, native>>
  BY DEF D!Snapshot, D!world, D!stage, D!worker
<1>3. /\ prod' = FALSE
  BY <1>1, DiagnosticNumbers DEF D!Snapshot, D!Live, D!Idle, D!Seal, D!Link, D!Records, D!Locks, DiagnosticTyped, StageHolds, LaunchHolds, SupHolds
<1>4. PICK s \in Runs : s = [sup EXCEPT !.at = "begin"] /\ sup' = s
  BY <1>1, <1>3, DiagnosticNumbers DEF D!Snapshot, D!Goto, Runs, D!Checking, D!Started, D!Ending
<1>5. /\ s.at = "begin" /\ s.phase = sup.phase /\ s.eligible = sup.eligible /\ s.issued = sup.issued
      /\ s.started = sup.started /\ s.may = sup.may /\ s.cleanup = sup.cleanup /\ s.status = sup.status
  BY <1>1, <1>4 DEF Runs
<1>6. DiagnosticTyped'
  BY <1>1, <1>2, <1>3, <1>4, DiagnosticNumbers DEF DiagnosticTyped, Links, D!Records, D!Locks
<1>7. SupHolds(s)'
  BY <1>1, <1>2, <1>3, <1>5, DiagnosticNumbers DEF SupHolds, D!Checking, D!Started, Cleaning, Closed, Underlocked, Unreleased, D!Locks, D!Records, StageHolds
<1>8. StageHolds'
  BY <1>1, <1>2, <1>3, <1>5, DiagnosticNumbers DEF StageHolds, SupHolds, D!Records, D!Checking, D!Started
<1>9. LaunchHolds'
  BY <1>1, <1>2, <1>3, <1>5, DiagnosticNumbers DEF LaunchHolds, SupHolds, StageHolds, D!Records, D!Started
<1>. QED
  BY <1>4, <1>6, <1>7, <1>8, <1>9 DEF DiagnosticInv

LEMMA FirstLockSound ==
    ASSUME D!DiagnosticConstants, DiagnosticInv, D!Lock("deploy", "first", "second") PROVE DiagnosticInv'
<1>1. /\ sup.at = "first" /\ DiagnosticTyped /\ SupHolds(sup) /\ StageHolds /\ LaunchHolds
      /\ sup \in Runs /\ now \in 0 .. MaxTime /\ timer \in Timers
  BY DEF D!Lock, DiagnosticInv, DiagnosticTyped
<1>2. UNCHANGED <<now, busy, prod, timer, logs, sealed, links, child, service, launch, native>>
  BY DEF D!Lock, D!world, D!stage, D!worker
<1>3. /\ held' = held \cup {"deploy"}
  BY <1>1, DiagnosticNumbers DEF D!Lock, D!Live, D!Idle, D!Seal, D!Link, D!Records, D!Locks, DiagnosticTyped, StageHolds, LaunchHolds, SupHolds
<1>4. PICK s \in Runs : s = [sup EXCEPT !.at = "second"] /\ sup' = s
  BY <1>1, <1>3, DiagnosticNumbers DEF D!Lock, D!Goto, Runs, D!Checking, D!Started, D!Ending
<1>5. /\ s.at = "second" /\ s.phase = sup.phase /\ s.eligible = sup.eligible /\ s.issued = sup.issued
      /\ s.started = sup.started /\ s.may = sup.may /\ s.cleanup = sup.cleanup /\ s.status = sup.status
  BY <1>1, <1>4 DEF Runs
<1>6. DiagnosticTyped'
  BY <1>1, <1>2, <1>3, <1>4, DiagnosticNumbers DEF DiagnosticTyped, Links, D!Records, D!Locks
<1>7. SupHolds(s)'
  BY <1>1, <1>2, <1>3, <1>5, DiagnosticNumbers DEF SupHolds, D!Checking, D!Started, Cleaning, Closed, Underlocked, Unreleased, D!Locks, D!Records, StageHolds
<1>8. StageHolds'
  BY <1>1, <1>2, <1>3, <1>5, DiagnosticNumbers DEF StageHolds, SupHolds, D!Records, D!Checking, D!Started
<1>9. LaunchHolds'
  BY <1>1, <1>2, <1>3, <1>5, DiagnosticNumbers DEF LaunchHolds, SupHolds, StageHolds, D!Records, D!Started
<1>. QED
  BY <1>4, <1>6, <1>7, <1>8, <1>9 DEF DiagnosticInv

LEMMA SecondLockSound ==
    ASSUME D!DiagnosticConstants, DiagnosticInv, D!Lock("validation", "second", "preflight") PROVE DiagnosticInv'
<1>1. /\ sup.at = "second" /\ DiagnosticTyped /\ SupHolds(sup) /\ StageHolds /\ LaunchHolds
      /\ sup \in Runs /\ now \in 0 .. MaxTime /\ timer \in Timers
  BY DEF D!Lock, DiagnosticInv, DiagnosticTyped
<1>2. UNCHANGED <<now, busy, prod, timer, logs, sealed, links, child, service, launch, native>>
  BY DEF D!Lock, D!world, D!stage, D!worker
<1>3. /\ held' = D!Locks
  BY <1>1, DiagnosticNumbers DEF D!Lock, D!Live, D!Idle, D!Seal, D!Link, D!Records, D!Locks, DiagnosticTyped, StageHolds, LaunchHolds, SupHolds
<1>4. PICK s \in Runs : s = [sup EXCEPT !.at = "preflight"] /\ sup' = s
  BY <1>1, <1>3, DiagnosticNumbers DEF D!Lock, D!Goto, Runs, D!Checking, D!Started, D!Ending
<1>5. /\ s.at = "preflight" /\ s.phase = sup.phase /\ s.eligible = sup.eligible /\ s.issued = sup.issued
      /\ s.started = sup.started /\ s.may = sup.may /\ s.cleanup = sup.cleanup /\ s.status = sup.status
  BY <1>1, <1>4 DEF Runs
<1>6. DiagnosticTyped'
  BY <1>1, <1>2, <1>3, <1>4, DiagnosticNumbers DEF DiagnosticTyped, Links, D!Records, D!Locks
<1>7. SupHolds(s)'
  BY <1>1, <1>2, <1>3, <1>5, DiagnosticNumbers DEF SupHolds, D!Checking, D!Started, Cleaning, Closed, Underlocked, Unreleased, D!Locks, D!Records, StageHolds
<1>8. StageHolds'
  BY <1>1, <1>2, <1>3, <1>5, DiagnosticNumbers DEF StageHolds, SupHolds, D!Records, D!Checking, D!Started
<1>9. LaunchHolds'
  BY <1>1, <1>2, <1>3, <1>5, DiagnosticNumbers DEF LaunchHolds, SupHolds, StageHolds, D!Records, D!Started
<1>. QED
  BY <1>4, <1>6, <1>7, <1>8, <1>9 DEF DiagnosticInv

LEMMA BeginSound ==
    ASSUME D!DiagnosticConstants, DiagnosticInv, D!Begin PROVE DiagnosticInv'
<1>1. /\ sup.at = "begin" /\ DiagnosticTyped /\ SupHolds(sup) /\ StageHolds /\ LaunchHolds
      /\ sup \in Runs /\ now \in 0 .. MaxTime /\ timer \in Timers
  BY DEF D!Begin, DiagnosticInv, DiagnosticTyped
<1>2. UNCHANGED <<now, held, busy, prod, timer, sealed, links, child, service, launch, native>>
  BY DEF D!Begin, D!world, D!stage, D!worker
<1>3. /\ logs' = TRUE /\ ~logs
  BY <1>1, DiagnosticNumbers DEF D!Begin, D!Live, D!Idle, D!Seal, D!Link, D!Records, D!Locks, DiagnosticTyped, StageHolds, LaunchHolds, SupHolds
<1>4. PICK s \in Runs : s = [sup EXCEPT !.at = "attempt", !.phase = "opening"] /\ sup' = s
  BY <1>1, <1>3, DiagnosticNumbers DEF D!Begin, D!Goto, Runs, D!Checking, D!Started, D!Ending
<1>5. /\ s.at = "attempt" /\ s.phase = "opening" /\ s.eligible = sup.eligible /\ s.issued = sup.issued
      /\ s.started = sup.started /\ s.may = sup.may /\ s.cleanup = sup.cleanup /\ s.status = sup.status
  BY <1>1, <1>4 DEF Runs
<1>6. DiagnosticTyped'
  BY <1>1, <1>2, <1>3, <1>4, DiagnosticNumbers DEF DiagnosticTyped, Links, D!Records, D!Locks
<1>7. SupHolds(s)'
  BY <1>1, <1>2, <1>3, <1>5, DiagnosticNumbers DEF SupHolds, D!Checking, D!Started, Cleaning, Closed, Underlocked, Unreleased, D!Locks, D!Records, StageHolds
<1>8. StageHolds'
  BY <1>1, <1>2, <1>3, <1>5, DiagnosticNumbers DEF StageHolds, SupHolds, D!Records, D!Checking, D!Started
<1>9. LaunchHolds'
  BY <1>1, <1>2, <1>3, <1>5, DiagnosticNumbers DEF LaunchHolds, SupHolds, StageHolds, D!Records, D!Started
<1>. QED
  BY <1>4, <1>6, <1>7, <1>8, <1>9 DEF DiagnosticInv

LEMMA AttemptSound ==
    ASSUME D!DiagnosticConstants, DiagnosticInv, D!PublishAttempt PROVE DiagnosticInv'
<1>1. /\ sup.at = "attempt" /\ DiagnosticTyped /\ SupHolds(sup) /\ StageHolds /\ LaunchHolds
      /\ sup \in Runs /\ now \in 0 .. MaxTime /\ timer \in Timers
  BY DEF D!PublishAttempt, DiagnosticInv, DiagnosticTyped
<1>2. UNCHANGED <<now, held, busy, prod, timer, logs, child, service, launch, native>>
  BY DEF D!PublishAttempt, D!world, D!stage, D!worker
<1>3. /\ sealed' = sealed \cup {"attempt"}
      /\ links' = [links EXCEPT !["attempt"] = [issued |-> now, until |-> now + Wait]]
      /\ links["attempt"] = None
  BY <1>1, DiagnosticNumbers DEF D!PublishAttempt, D!Live, D!Idle, D!Seal, D!Link, D!Records, D!Locks, DiagnosticTyped, StageHolds, LaunchHolds, SupHolds
<1>4. PICK s \in Runs : s = [sup EXCEPT !.at = "start", !.phase = "waiting_process", !.started = TRUE] /\ sup' = s
  BY <1>1, <1>3, DiagnosticNumbers DEF D!PublishAttempt, D!Goto, Runs, D!Checking, D!Started, D!Ending
<1>5. /\ s.at = "start" /\ s.phase = "waiting_process" /\ s.eligible = sup.eligible /\ s.issued = sup.issued
      /\ s.started = TRUE /\ s.may = sup.may /\ s.cleanup = sup.cleanup /\ s.status = sup.status
  BY <1>1, <1>4 DEF Runs
<1>6. DiagnosticTyped'
  BY <1>1, <1>2, <1>3, <1>4, DiagnosticNumbers DEF DiagnosticTyped, Links, D!Records, D!Locks
<1>7. SupHolds(s)'
  BY <1>1, <1>2, <1>3, <1>5, DiagnosticNumbers DEF SupHolds, D!Checking, D!Started, Cleaning, Closed, Underlocked, Unreleased, D!Locks, D!Records, StageHolds
<1>8. StageHolds'
  BY <1>1, <1>2, <1>3, <1>5, DiagnosticNumbers DEF StageHolds, SupHolds, D!Records, D!Checking, D!Started
<1>9. LaunchHolds'
  BY <1>1, <1>2, <1>3, <1>5, DiagnosticNumbers DEF LaunchHolds, SupHolds, StageHolds, D!Records, D!Started
<1>. QED
  BY <1>4, <1>6, <1>7, <1>8, <1>9 DEF DiagnosticInv

LEMMA CreateSound ==
    ASSUME D!DiagnosticConstants, DiagnosticInv, D!CreateChild PROVE DiagnosticInv'
<1>1. /\ sup.at = "create" /\ DiagnosticTyped /\ SupHolds(sup) /\ StageHolds /\ LaunchHolds
      /\ sup \in Runs /\ now \in 0 .. MaxTime /\ timer \in Timers
  BY DEF D!CreateChild, DiagnosticInv, DiagnosticTyped
<1>2. UNCHANGED <<now, held, busy, prod, timer, logs, sealed, links, service, launch, native>>
  BY DEF D!CreateChild, D!world, D!stage, D!worker
<1>3. /\ child' = "root" /\ child = "none"
  BY <1>1, DiagnosticNumbers DEF D!CreateChild, D!Live, D!Idle, D!Seal, D!Link, D!Records, D!Locks, DiagnosticTyped, StageHolds, LaunchHolds, SupHolds
<1>4. PICK s \in Runs : s = [sup EXCEPT !.at = "chown"] /\ sup' = s
  BY <1>1, <1>3, DiagnosticNumbers DEF D!CreateChild, D!Goto, Runs, D!Checking, D!Started, D!Ending
<1>5. /\ s.at = "chown" /\ s.phase = sup.phase /\ s.eligible = sup.eligible /\ s.issued = sup.issued
      /\ s.started = sup.started /\ s.may = sup.may /\ s.cleanup = sup.cleanup /\ s.status = sup.status
  BY <1>1, <1>4 DEF Runs
<1>6. DiagnosticTyped'
  BY <1>1, <1>2, <1>3, <1>4, DiagnosticNumbers DEF DiagnosticTyped, Links, D!Records, D!Locks
<1>7. SupHolds(s)'
  BY <1>1, <1>2, <1>3, <1>5, DiagnosticNumbers DEF SupHolds, D!Checking, D!Started, Cleaning, Closed, Underlocked, Unreleased, D!Locks, D!Records, StageHolds
<1>8. StageHolds'
  BY <1>1, <1>2, <1>3, <1>5, DiagnosticNumbers DEF StageHolds, SupHolds, D!Records, D!Checking, D!Started
<1>9. LaunchHolds'
  BY <1>1, <1>2, <1>3, <1>5, DiagnosticNumbers DEF LaunchHolds, SupHolds, StageHolds, D!Records, D!Started
<1>. QED
  BY <1>4, <1>6, <1>7, <1>8, <1>9 DEF DiagnosticInv

LEMMA GiveSound ==
    ASSUME D!DiagnosticConstants, DiagnosticInv, D!GiveChild PROVE DiagnosticInv'
<1>1. /\ sup.at = "chown" /\ DiagnosticTyped /\ SupHolds(sup) /\ StageHolds /\ LaunchHolds
      /\ sup \in Runs /\ now \in 0 .. MaxTime /\ timer \in Timers
  BY DEF D!GiveChild, DiagnosticInv, DiagnosticTyped
<1>2. UNCHANGED <<now, held, busy, prod, timer, logs, links, service, launch, native>>
  BY DEF D!GiveChild, D!world, D!stage, D!worker
<1>3. /\ child' = "worker"
      /\ sealed' = sealed \cup {"provision"}
  BY <1>1, DiagnosticNumbers DEF D!GiveChild, D!Live, D!Idle, D!Seal, D!Link, D!Records, D!Locks, DiagnosticTyped, StageHolds, LaunchHolds, SupHolds
<1>4. PICK s \in Runs : s = [sup EXCEPT !.at = "provision"] /\ sup' = s
  BY <1>1, <1>3, DiagnosticNumbers DEF D!GiveChild, D!Goto, Runs, D!Checking, D!Started, D!Ending
<1>5. /\ s.at = "provision" /\ s.phase = sup.phase /\ s.eligible = sup.eligible /\ s.issued = sup.issued
      /\ s.started = sup.started /\ s.may = sup.may /\ s.cleanup = sup.cleanup /\ s.status = sup.status
  BY <1>1, <1>4 DEF Runs
<1>6. DiagnosticTyped'
  BY <1>1, <1>2, <1>3, <1>4, DiagnosticNumbers DEF DiagnosticTyped, Links, D!Records, D!Locks
<1>7. SupHolds(s)'
  BY <1>1, <1>2, <1>3, <1>5, DiagnosticNumbers DEF SupHolds, D!Checking, D!Started, Cleaning, Closed, Underlocked, Unreleased, D!Locks, D!Records, StageHolds
<1>8. StageHolds'
  BY <1>1, <1>2, <1>3, <1>5, DiagnosticNumbers DEF StageHolds, SupHolds, D!Records, D!Checking, D!Started
<1>9. LaunchHolds'
  BY <1>1, <1>2, <1>3, <1>5, DiagnosticNumbers DEF LaunchHolds, SupHolds, StageHolds, D!Records, D!Started
<1>. QED
  BY <1>4, <1>6, <1>7, <1>8, <1>9 DEF DiagnosticInv

LEMMA ProvisionSound ==
    ASSUME D!DiagnosticConstants, DiagnosticInv, D!PublishProvision PROVE DiagnosticInv'
<1>1. /\ sup.at = "provision" /\ DiagnosticTyped /\ SupHolds(sup) /\ StageHolds /\ LaunchHolds
      /\ sup \in Runs /\ now \in 0 .. MaxTime /\ timer \in Timers
  BY DEF D!PublishProvision, DiagnosticInv, DiagnosticTyped
<1>2. UNCHANGED <<now, held, busy, prod, timer, logs, sealed, child, service, launch, native>>
  BY DEF D!PublishProvision, D!world, D!stage, D!worker
<1>3. /\ links' = [links EXCEPT !["provision"] = [issued |-> now, until |-> now]]
      /\ links["provision"] = None
  BY <1>1, DiagnosticNumbers DEF D!PublishProvision, D!Live, D!Idle, D!Seal, D!Link, D!Records, D!Locks, DiagnosticTyped, StageHolds, LaunchHolds, SupHolds
<1>4. PICK s \in Runs : s = [sup EXCEPT !.at = "loop", !.phase = "waiting_release"] /\ sup' = s
  BY <1>1, <1>3, DiagnosticNumbers DEF D!PublishProvision, D!Goto, Runs, D!Checking, D!Started, D!Ending
<1>5. /\ s.at = "loop" /\ s.phase = "waiting_release" /\ s.eligible = sup.eligible /\ s.issued = sup.issued
      /\ s.started = sup.started /\ s.may = sup.may /\ s.cleanup = sup.cleanup /\ s.status = sup.status
  BY <1>1, <1>4 DEF Runs
<1>6. DiagnosticTyped'
  BY <1>1, <1>2, <1>3, <1>4, DiagnosticNumbers DEF DiagnosticTyped, Links, D!Records, D!Locks
<1>7. SupHolds(s)'
  BY <1>1, <1>2, <1>3, <1>5, DiagnosticNumbers DEF SupHolds, D!Checking, D!Started, Cleaning, Closed, Underlocked, Unreleased, D!Locks, D!Records, StageHolds
<1>8. StageHolds'
  BY <1>1, <1>2, <1>3, <1>5, DiagnosticNumbers DEF StageHolds, SupHolds, D!Records, D!Checking, D!Started
<1>9. LaunchHolds'
  BY <1>1, <1>2, <1>3, <1>5, DiagnosticNumbers DEF LaunchHolds, SupHolds, StageHolds, D!Records, D!Started
<1>. QED
  BY <1>4, <1>6, <1>7, <1>8, <1>9 DEF DiagnosticInv

LEMMA IssueSound ==
    ASSUME D!DiagnosticConstants, DiagnosticInv, D!Issue PROVE DiagnosticInv'
<1>1. /\ sup.at = "issue" /\ DiagnosticTyped /\ SupHolds(sup) /\ StageHolds /\ LaunchHolds
      /\ sup \in Runs /\ now \in 0 .. MaxTime /\ timer \in Timers
  BY DEF D!Issue, DiagnosticInv, DiagnosticTyped
<1>2. UNCHANGED <<now, held, busy, prod, timer, logs, links, child, service, launch, native>>
  BY DEF D!Issue, D!world, D!stage, D!worker
<1>3. /\ sealed' = sealed \cup {"release"}
      /\ sup.eligible \in Nat /\ now < sup.eligible
      /\ D!Earlier(now + Lease, sup.eligible) \in Nat
      /\ now < D!Earlier(now + Lease, sup.eligible)
      /\ D!Earlier(now + Lease, sup.eligible) <= now + Lease
      /\ D!Earlier(now + Lease, sup.eligible) <= sup.eligible
  BY <1>1, DiagnosticNumbers DEF D!Issue, D!Live, D!Idle, D!Seal, D!Link, D!Records, D!Locks, DiagnosticTyped, StageHolds, LaunchHolds, SupHolds, Runs, D!Earlier
<1>4. PICK s \in Runs : s = [sup EXCEPT !.at = "release", !.phase = "publishing_release", !.issued = now, !.eligible = D!Earlier(now + Lease, sup.eligible)] /\ sup' = s
  BY <1>1, <1>3, DiagnosticNumbers DEF D!Issue, D!Goto, Runs, D!Checking, D!Started, D!Ending
<1>5. /\ s.at = "release" /\ s.phase = "publishing_release" /\ s.eligible = D!Earlier(now + Lease, sup.eligible) /\ s.issued = now
      /\ s.started = sup.started /\ s.may = sup.may /\ s.cleanup = sup.cleanup /\ s.status = sup.status
  BY <1>1, <1>4 DEF Runs
<1>6. DiagnosticTyped'
  BY <1>1, <1>2, <1>3, <1>4, DiagnosticNumbers DEF DiagnosticTyped, Links, D!Records, D!Locks
<1>7. SupHolds(s)'
  BY <1>1, <1>2, <1>3, <1>5, DiagnosticNumbers DEF SupHolds, D!Checking, D!Started, Cleaning, Closed, Underlocked, Unreleased, D!Locks, D!Records, StageHolds
<1>8. StageHolds'
  BY <1>1, <1>2, <1>3, <1>5, DiagnosticNumbers DEF StageHolds, SupHolds, D!Records, D!Checking, D!Started
<1>9. LaunchHolds'
  BY <1>1, <1>2, <1>3, <1>5, DiagnosticNumbers DEF LaunchHolds, SupHolds, StageHolds, D!Records, D!Started
<1>. QED
  BY <1>4, <1>6, <1>7, <1>8, <1>9 DEF DiagnosticInv

LEMMA ReleaseSound ==
    ASSUME D!DiagnosticConstants, DiagnosticInv, D!PublishRelease PROVE DiagnosticInv'
<1>1. /\ sup.at = "release" /\ DiagnosticTyped /\ SupHolds(sup) /\ StageHolds /\ LaunchHolds
      /\ sup \in Runs /\ now \in 0 .. MaxTime /\ timer \in Timers
  BY DEF D!PublishRelease, DiagnosticInv, DiagnosticTyped
<1>2. UNCHANGED <<now, held, busy, prod, timer, logs, sealed, child, service, launch, native>>
  BY DEF D!PublishRelease, D!world, D!stage, D!worker
<1>3. /\ links' = [links EXCEPT !["release"] = [issued |-> sup.issued, until |-> sup.eligible]]
      /\ links["release"] = None
      /\ sup.issued \in 0 .. MaxTime /\ sup.eligible \in 0 .. (MaxTime + Wait + Lease)
  BY <1>1, DiagnosticNumbers DEF D!PublishRelease, D!Live, D!Idle, D!Seal, D!Link, D!Records, D!Locks, DiagnosticTyped, StageHolds, LaunchHolds, SupHolds, Runs
<1>4. PICK s \in Runs : s = [sup EXCEPT !.at = "committed"] /\ sup' = s
  BY <1>1, <1>3, DiagnosticNumbers DEF D!PublishRelease, D!Goto, Runs, D!Checking, D!Started, D!Ending
<1>5. /\ s.at = "committed" /\ s.phase = sup.phase /\ s.eligible = sup.eligible /\ s.issued = sup.issued
      /\ s.started = sup.started /\ s.may = sup.may /\ s.cleanup = sup.cleanup /\ s.status = sup.status
  BY <1>1, <1>4 DEF Runs
<1>6. DiagnosticTyped'
  BY <1>1, <1>2, <1>3, <1>4, DiagnosticNumbers DEF DiagnosticTyped, Links, D!Records, D!Locks
<1>7. SupHolds(s)'
  BY <1>1, <1>2, <1>3, <1>5, DiagnosticNumbers DEF SupHolds, D!Checking, D!Started, Cleaning, Closed, Underlocked, Unreleased, D!Locks, D!Records, StageHolds
<1>8. StageHolds'
  BY <1>1, <1>2, <1>3, <1>5, DiagnosticNumbers DEF StageHolds, SupHolds, D!Records, D!Checking, D!Started
<1>9. LaunchHolds'
  BY <1>1, <1>2, <1>3, <1>5, DiagnosticNumbers DEF LaunchHolds, SupHolds, StageHolds, D!Records, D!Started
<1>. QED
  BY <1>4, <1>6, <1>7, <1>8, <1>9 DEF DiagnosticInv

\* systemd-run may return late: the start is still queued when the cleanup begins.
LEMMA StartSound ==
    ASSUME D!DiagnosticConstants, DiagnosticInv, D!StartUnit PROVE DiagnosticInv'
<1>1. /\ sup.at = "start" /\ DiagnosticTyped /\ SupHolds(sup) /\ StageHolds /\ LaunchHolds
      /\ sup \in Runs /\ now \in 0 .. MaxTime /\ timer \in Timers
  BY DEF D!StartUnit, DiagnosticInv, DiagnosticTyped
<1>2. UNCHANGED <<now, held, busy, prod, timer, logs, sealed, links, child, launch, native>>
  BY DEF D!StartUnit, D!world, D!stage
<1>3. PICK to \in {"effective", "stop"}, state \in {"alive", "starting"} :
        service' = state /\ sup' = [sup EXCEPT !.at = to, !.phase = sup.phase]
  <2>1. sup.started
    BY <1>1 DEF SupHolds, D!Started
  <2>2. [sup EXCEPT !.at = "effective"] = [sup EXCEPT !.at = "effective", !.phase = sup.phase]
    BY <1>1 DEF Runs
  <2>. QED
    BY <2>1, <2>2 DEF D!StartUnit, D!Goto, D!Raise
<1>4. PICK s \in Runs : s = [sup EXCEPT !.at = to, !.phase = sup.phase] /\ sup' = s
  BY <1>1, <1>3 DEF Runs, D!Started, D!Ending
<1>5. /\ s.at = to /\ s.phase = sup.phase /\ s.eligible = sup.eligible /\ s.issued = sup.issued
      /\ s.started = sup.started /\ s.may = sup.may /\ s.cleanup = sup.cleanup /\ s.status = sup.status
  BY <1>1, <1>4 DEF Runs
<1>6. DiagnosticTyped'
  BY <1>1, <1>2, <1>3, <1>4 DEF DiagnosticTyped
<1>7. SupHolds(s)'
  BY <1>1, <1>2, <1>3, <1>5 DEF SupHolds, D!Checking, D!Started, Cleaning, Closed, Underlocked, Unreleased
<1>8. StageHolds'
  BY <1>1, <1>2, <1>3 DEF StageHolds, SupHolds, D!Started
<1>9. LaunchHolds'
  BY <1>1, <1>2, <1>3 DEF LaunchHolds, SupHolds
<1>. QED
  BY <1>4, <1>6, <1>7, <1>8, <1>9 DEF DiagnosticInv

\* The end of a run: an ended unit stays ended, and what is not known to be gone keeps the locks.
LEMMA StopSound ==
    ASSUME D!DiagnosticConstants, DiagnosticInv, D!Stop PROVE DiagnosticInv'
<1>1. /\ sup.at = "stop" /\ DiagnosticTyped /\ SupHolds(sup) /\ StageHolds /\ LaunchHolds
      /\ sup \in Runs /\ now \in 0 .. MaxTime /\ timer \in Timers
  BY DEF D!Stop, DiagnosticInv, DiagnosticTyped
<1>2. UNCHANGED <<now, held, busy, prod, timer, logs, sealed, links, child>>
  BY DEF D!Stop, D!world, D!stage
<1>3. CASE D!Goto("verify")
  <2>1. PICK s \in Runs : s = [sup EXCEPT !.at = "verify"] /\ sup' = s
    BY <1>1, <1>3 DEF D!Goto, Runs, D!Ending
  <2>2. /\ s.at = "verify" /\ s.phase = sup.phase /\ s.eligible = sup.eligible /\ s.issued = sup.issued
        /\ s.started = sup.started /\ s.may = sup.may /\ s.cleanup = sup.cleanup /\ s.status = sup.status
    BY <1>1, <2>1 DEF Runs
  <2>3. \/ UNCHANGED <<service, launch, native>>
        \/ /\ service = "alive" /\ service' = "ended" /\ launch' = "stopped"
           /\ native' = IF native = "running" THEN "done" ELSE native
    BY <1>1, <2>1, <2>2 DEF Runs, D!Stop, D!worker
  <2>4. DiagnosticTyped'
    BY <1>1, <1>2, <2>1, <2>3 DEF DiagnosticTyped
  <2>5. SupHolds(s)'
    BY <1>1, <1>2, <2>2, <2>3 DEF SupHolds, LaunchHolds, D!Checking, D!Started, Cleaning, Closed, Underlocked, Unreleased
  <2>6. StageHolds' /\ LaunchHolds'
    BY <1>1, <1>2, <2>3 DEF StageHolds, LaunchHolds, DiagnosticTyped
  <2>. QED
    BY <2>1, <2>4, <2>5, <2>6 DEF DiagnosticInv
<1>4. CASE sup' = [sup EXCEPT !.at = "close", !.cleanup = "BLOCKED", !.status = "BLOCKED"]
           /\ UNCHANGED <<service, launch, native>>
  <2>1. PICK s \in Runs : s = [sup EXCEPT !.at = "close", !.cleanup = "BLOCKED", !.status = "BLOCKED"] /\ sup' = s
    BY <1>1, <1>4 DEF Runs, D!Ending
  <2>2. /\ s.at = "close" /\ s.phase = sup.phase /\ s.eligible = sup.eligible /\ s.issued = sup.issued
        /\ s.started = sup.started /\ s.may = sup.may /\ s.cleanup = "BLOCKED" /\ s.status = "BLOCKED"
    BY <1>1, <2>1 DEF Runs
  <2>3. SupHolds(s)
    BY <1>1, <2>2 DEF SupHolds, D!Checking, D!Started, Cleaning, Closed, Underlocked, Unreleased
  <2>. QED
    BY <1>2, <1>4, <2>1, <2>3, SupMoves
<1>. QED
  BY <1>3, <1>4 DEF D!Stop, D!worker

LEMMA VerifySound ==
    ASSUME D!DiagnosticConstants, DiagnosticInv, D!Verify PROVE DiagnosticInv'
<1>1. /\ sup.at = "verify" /\ DiagnosticTyped /\ SupHolds(sup) /\ StageHolds /\ LaunchHolds
      /\ sup \in Runs /\ now \in 0 .. MaxTime /\ timer \in Timers
  BY DEF D!Verify, DiagnosticInv, DiagnosticTyped
<1>2. UNCHANGED <<now, held, busy, prod, timer, logs, sealed, links, child, service, launch, native>>
  BY DEF D!Verify, D!world, D!stage, D!worker
<1>3. PICK clean \in {"PASS", "BLOCKED"}, state \in {"PASS", "BLOCKED"} :
        /\ sup' = [sup EXCEPT !.at = "close", !.cleanup = clean, !.status = state]
        /\ clean = "PASS" => service \in {"none", "ended"} /\ state = sup.status
        /\ clean = "BLOCKED" => state = "BLOCKED"
  <2>1. [sup EXCEPT !.at = "close", !.cleanup = "PASS"] = [sup EXCEPT !.at = "close", !.cleanup = "PASS", !.status = sup.status]
    BY <1>1 DEF Runs
  <2>2. sup.status \in {"PASS", "BLOCKED"}
    BY <1>1 DEF Runs
  <2>. QED
    BY <2>1, <2>2 DEF D!Verify
<1>4. PICK s \in Runs : s = [sup EXCEPT !.at = "close", !.cleanup = clean, !.status = state] /\ sup' = s
  BY <1>1, <1>3 DEF Runs, D!Ending
<1>5. /\ s.at = "close" /\ s.phase = sup.phase /\ s.eligible = sup.eligible /\ s.issued = sup.issued
      /\ s.started = sup.started /\ s.may = sup.may /\ s.cleanup = clean /\ s.status = state
  BY <1>1, <1>4 DEF Runs
<1>6. SupHolds(s)
  BY <1>1, <1>3, <1>5 DEF SupHolds, D!Checking, D!Started, Cleaning, Closed, Underlocked, Unreleased
<1>. QED
  BY <1>2, <1>4, <1>6, SupMoves

LEMMA CloseSound ==
    ASSUME D!DiagnosticConstants, DiagnosticInv, D!Close PROVE DiagnosticInv'
<1>1. /\ sup.at = "close" /\ DiagnosticTyped /\ SupHolds(sup) /\ StageHolds /\ LaunchHolds
      /\ sup \in Runs /\ now \in 0 .. MaxTime /\ timer \in Timers
  BY DEF D!Close, DiagnosticInv, DiagnosticTyped
<1>2. UNCHANGED <<now, held, busy, prod, timer, logs, sealed, links, child, service, launch, native>>
  BY DEF D!Close, D!world, D!stage, D!worker
<1>3. PICK phase \in {sup.phase, "closed"}, may \in Answers, clean \in {sup.cleanup, "BLOCKED"},
           state \in {sup.status, "BLOCKED"} :
        /\ sup' = [sup EXCEPT !.at = "final", !.may = may, !.phase = phase, !.cleanup = clean, !.status = state]
        /\ may = IF sup.phase = "new" THEN None ELSE sup.phase \in {"publishing_release", "released"}
        /\ (clean = sup.cleanup /\ state = sup.status) \/ (clean = "BLOCKED" /\ state = "BLOCKED")
  <2>1. PICK closed \in BOOLEAN :
          sup' = [sup EXCEPT !.at = "final",
                             !.may = IF sup.phase = "new" THEN None ELSE sup.phase \in {"publishing_release", "released"},
                             !.phase = IF closed THEN "closed" ELSE sup.phase,
                             !.cleanup = IF closed THEN sup.cleanup ELSE "BLOCKED",
                             !.status = IF closed THEN sup.status ELSE "BLOCKED"]
    BY DEF D!Close
  <2>2. PICK may \in Answers :
          may = IF sup.phase = "new" THEN None ELSE sup.phase \in {"publishing_release", "released"}
    <3>1. (sup.phase \in {"publishing_release", "released"}) \in BOOLEAN
      OBVIOUS
    <3>2. (IF sup.phase = "new" THEN None ELSE sup.phase \in {"publishing_release", "released"}) \in Answers
      BY <3>1 DEF Answers
    <3>. QED
      BY <3>2, Zenon
  <2>3. CASE closed
    BY <2>1, <2>2, <2>3
  <2>4. CASE ~closed
    BY <2>1, <2>2, <2>4
  <2>. QED
    BY <2>3, <2>4
<1>4. PICK s \in Runs :
        s = [sup EXCEPT !.at = "final", !.may = may, !.phase = phase, !.cleanup = clean, !.status = state] /\ sup' = s
  <2>1. /\ phase \in {"new", "opening", "waiting_process", "preparing", "waiting_release", "guarding",
                     "publishing_release", "released", "closed"}
        /\ clean \in {"none", "PASS", "BLOCKED"} /\ state \in {"BLOCKED", "PASS"}
    BY <1>1, <1>3 DEF Runs
  <2>2. [sup EXCEPT !.at = "final", !.may = may, !.phase = phase, !.cleanup = clean, !.status = state] \in Runs
    <3>1. sup \in Runs /\ may \in Answers
      BY <1>1
    <3>. QED
      BY <2>1, <3>1 DEF Runs, D!Ending
  <2>. QED
    BY <1>3, <2>2
<1>5. /\ s.at = "final" /\ s.phase = phase /\ s.eligible = sup.eligible /\ s.issued = sup.issued
      /\ s.started = sup.started /\ s.may = may /\ s.cleanup = clean /\ s.status = state
  BY <1>1, <1>4 DEF Runs
<1>6. may = FALSE => sup.phase \in Unreleased
  BY <1>1, <1>3, DiagnosticNumbers DEF Runs, SupHolds, Unreleased, Answers
<1>7. state = "PASS" => may = TRUE
  BY <1>1, <1>3 DEF SupHolds, LaunchHolds, Unreleased, Runs
<1>8. SupHolds(s)
  BY <1>1, <1>3, <1>5, <1>6, <1>7 DEF SupHolds, D!Checking, D!Started, Cleaning, Closed, Underlocked, Unreleased
<1>. QED
  BY <1>2, <1>4, <1>8, SupMoves

LEMMA FinalSound ==
    ASSUME D!DiagnosticConstants, DiagnosticInv, D!Final PROVE DiagnosticInv'
<1>1. /\ sup.at = "final" /\ DiagnosticTyped /\ SupHolds(sup) /\ StageHolds /\ LaunchHolds
      /\ sup \in Runs /\ now \in 0 .. MaxTime /\ timer \in Timers
  BY DEF D!Final, DiagnosticInv, DiagnosticTyped
<1>2. UNCHANGED <<now, busy, prod, timer, logs, sealed, links, child, service, launch, native>>
  BY DEF D!Final, D!world, D!stage, D!worker
<1>3. PICK to \in {"hold", "done"}, state \in {sup.status, "BLOCKED"} :
        /\ sup' = [sup EXCEPT !.at = to, !.status = state]
        /\ to = "hold" => held' = held
        /\ to = "done" => held' = {} /\ (sup.started => sup.cleanup = "PASS")
  <2>1. PICK drift \in BOOLEAN :
          sup' = [sup EXCEPT !.at = IF D!Retain THEN "hold" ELSE "done",
                             !.status = IF prod \/ drift THEN "BLOCKED" ELSE sup.status]
    BY DEF D!Final
  <2>2. PICK to \in {"hold", "done"}, state \in {sup.status, "BLOCKED"} :
          (to = IF D!Retain THEN "hold" ELSE "done") /\ (state = IF prod \/ drift THEN "BLOCKED" ELSE sup.status)
    OBVIOUS
  <2>3. sup' = [sup EXCEPT !.at = to, !.status = state]
    BY <2>1, <2>2
  <2>4. held' = IF D!Retain THEN held ELSE {}
    BY DEF D!Final
  <2>. QED
    BY <2>2, <2>3, <2>4 DEF D!Retain
<1>4. PICK s \in Runs : s = [sup EXCEPT !.at = to, !.status = state] /\ sup' = s
  BY <1>1, <1>3 DEF Runs, D!Ending
<1>5. /\ s.at = to /\ s.phase = sup.phase /\ s.eligible = sup.eligible /\ s.issued = sup.issued
      /\ s.started = sup.started /\ s.may = sup.may /\ s.cleanup = sup.cleanup /\ s.status = state
  BY <1>1, <1>4 DEF Runs
<1>6. DiagnosticTyped'
  BY <1>1, <1>2, <1>3, <1>4 DEF DiagnosticTyped
<1>7. SupHolds(s)'
  BY <1>1, <1>2, <1>3, <1>5 DEF SupHolds, D!Checking, D!Started, Cleaning, Closed, Underlocked, Unreleased
<1>8. StageHolds' /\ LaunchHolds'
  BY <1>1, <1>2 DEF StageHolds, LaunchHolds
<1>. QED
  BY <1>4, <1>6, <1>7, <1>8 DEF DiagnosticInv

LEMMA KilledSound ==
    ASSUME D!DiagnosticConstants, DiagnosticInv, D!Killed PROVE DiagnosticInv'
<1>1. /\ sup.at \notin {"done", "killed"} /\ DiagnosticTyped /\ SupHolds(sup) /\ StageHolds /\ LaunchHolds
      /\ sup \in Runs /\ now \in 0 .. MaxTime /\ timer \in Timers
  BY DEF D!Killed, DiagnosticInv, DiagnosticTyped
<1>2. UNCHANGED <<now, busy, prod, timer, logs, sealed, links, child, service, launch, native>> /\ held' = {}
  BY DEF D!Killed, D!world, D!stage, D!worker
<1>3. PICK s \in Runs : s = [sup EXCEPT !.at = "killed"] /\ sup' = s
  BY <1>1 DEF D!Killed, D!Goto, Runs, D!Ending
<1>4. /\ s.at = "killed" /\ s.phase = sup.phase /\ s.eligible = sup.eligible /\ s.issued = sup.issued
      /\ s.started = sup.started /\ s.may = sup.may /\ s.cleanup = sup.cleanup /\ s.status = sup.status
  BY <1>1, <1>3 DEF Runs
<1>5. DiagnosticTyped'
  BY <1>1, <1>2, <1>3 DEF DiagnosticTyped
<1>6. SupHolds(s)'
  BY <1>1, <1>2, <1>4 DEF SupHolds, D!Checking, D!Started, Cleaning, Closed, Underlocked, Unreleased
<1>7. StageHolds' /\ LaunchHolds'
  BY <1>1, <1>2 DEF StageHolds, LaunchHolds
<1>. QED
  BY <1>3, <1>5, <1>6, <1>7 DEF DiagnosticInv

LEMMA AgainSound ==
    ASSUME D!DiagnosticConstants, DiagnosticInv, D!Again PROVE DiagnosticInv'
<1>1. UNCHANGED <<now, held, busy, prod, timer, logs, sealed, links, child, service, launch, native>> /\ sup' = D!NewRun
  BY DEF D!Again, D!world, D!stage, D!worker
<1>2. D!NewRun \in Runs /\ SupHolds(D!NewRun)
  BY DiagnosticNumbers DEF D!NewRun, Runs, Answers, SupHolds, D!Started, D!Checking, Cleaning, Closed, Underlocked, Unreleased
<1>. QED
  BY <1>1, <1>2, SupMoves

\* The launcher moves, or the clock: neither changes the stage, the locks or the supervisor's record.
LEMMA LaunchMoves ==
    ASSUME D!DiagnosticConstants, DiagnosticInv,
           UNCHANGED <<sup, held, timer, logs, sealed, links, child>>, DiagnosticTyped', LaunchHolds',
           service' # service => service \in {"starting", "alive"}, service = "ended" => service' = "ended",
           launch = "complete" => launch' = launch
    PROVE  DiagnosticInv'
BY DEF DiagnosticInv, SupHolds, StageHolds, DiagnosticTyped

LEMMA LooksSound ==
    ASSUME D!DiagnosticConstants, DiagnosticInv,
           D!Initialize \/ D!Provisioned \/ D!CheckTree \/ D!Admission \/ D!Ask \/ D!Granted
    PROVE  DiagnosticInv'
<1>1. /\ UNCHANGED <<now, sup, held, busy, prod, timer, logs, sealed, links, child, service, native>> /\ service = "alive"
      /\ launch \in {"start", "wait", "tree", "admission", "ask", "asked"}
      /\ launch' \in {"wait", "tree", "admission", "ask", "asked", "fork"}
      /\ launch' # "wait" => launch # "start" /\ (launch = "wait" => links["provision"] # None)
  BY DEF D!Initialize, D!Provisioned, D!CheckTree, D!Admission, D!Ask, D!Granted, D!Launcher, D!world, D!stage
<1>2. DiagnosticTyped'
  BY <1>1 DEF DiagnosticInv, DiagnosticTyped
<1>3. LaunchHolds'
  BY <1>1 DEF DiagnosticInv, LaunchHolds
<1>. QED
  BY <1>1, <1>2, <1>3, LaunchMoves

LEMMA ForkSound ==
    ASSUME D!DiagnosticConstants, DiagnosticInv, D!Fork PROVE DiagnosticInv'
<1>1. /\ UNCHANGED <<now, sup, held, busy, prod, timer, logs, sealed, links, child, service>> /\ service = "alive"
      /\ launch = "fork" /\ launch' = "native" /\ native' = "running" /\ child = "worker"
      /\ links["release"] # None /\ now < links["release"].until
  BY DEF D!Fork, D!LeaseHolds, D!world, D!stage
<1>2. DiagnosticTyped'
  BY <1>1 DEF DiagnosticInv, DiagnosticTyped
<1>3. now \in Nat /\ links["release"].until \in Nat
  BY <1>1, DiagnosticNumbers DEF DiagnosticInv, DiagnosticTyped, Links, D!Records
<1>4. LaunchHolds'
  BY <1>1, <1>3, DiagnosticNumbers DEF DiagnosticInv, LaunchHolds
<1>. QED
  BY <1>1, <1>2, <1>4, LaunchMoves

LEMMA UnitSound ==
    ASSUME D!DiagnosticConstants, DiagnosticInv, D!Complete \/ D!Dies \/ D!LateStart PROVE DiagnosticInv'
BY LaunchMoves DEF D!Complete, D!Dies, D!LateStart, D!world, D!stage, DiagnosticInv, DiagnosticTyped,
   LaunchHolds

\* The command keeps its timeout while the clock ticks.
LEMMA TickSound ==
    ASSUME D!DiagnosticConstants, DiagnosticInv, D!Tick PROVE DiagnosticInv'
<1>1. /\ UNCHANGED <<sup, held, busy, prod, timer, logs, sealed, links, child, service, launch, native>>
      /\ now < MaxTime /\ now' = now + 1 /\ (native = "running" => now + 1 < links["release"].until + Native)
  BY DEF D!Tick, D!InTime, D!world, D!stage, D!worker
<1>2. DiagnosticTyped'
  BY <1>1, DiagnosticNumbers DEF DiagnosticInv, DiagnosticTyped
<1>3. LaunchHolds'
  BY <1>1 DEF DiagnosticInv, LaunchHolds
<1>. QED
  BY <1>1, <1>2, <1>3, LaunchMoves

LEMMA HostSound ==
    ASSUME D!DiagnosticConstants, DiagnosticInv,
           D!ProductionChanges \/ D!Works \/ (\E lock \in D!Locks : D!Take(lock) \/ D!Give(lock)) \/ UNCHANGED D!vars
    PROVE  DiagnosticInv'
<1>1. /\ UNCHANGED <<now, sup, held, timer, logs, sealed, links, child, service, launch, native>>
      /\ busy' \in SUBSET D!Locks /\ prod' \in BOOLEAN
  BY DEF D!ProductionChanges, D!Works, D!Take, D!Give, D!vars, D!stage, D!worker, DiagnosticInv, DiagnosticTyped
<1>2. DiagnosticTyped'
  BY <1>1 DEF DiagnosticInv, DiagnosticTyped
<1>3. LaunchHolds'
  BY <1>1 DEF DiagnosticInv, LaunchHolds
<1>. QED
  BY <1>1, <1>2, <1>3, LaunchMoves

LEMMA DiagnosticStep ==
    ASSUME D!DiagnosticConstants, DiagnosticInv, [D!Next]_D!vars PROVE DiagnosticInv'
<1>1. CASE D!Supervisor
  <2>1. ASSUME D!Fails(D!Looks) PROVE DiagnosticInv'
    BY <2>1, RaisesSound
  <2>. QED
    BY <1>1, <2>1, AdmitSound, FirstLockSound, SecondLockSound, PreflightSound, SnapshotSound, BeginSound, AttemptSound,
       StartSound, EffectiveSound, PinSound, CreateSound, GiveSound, ProvisionSound, RequestSound, GuardSound, IssueSound,
       ReleaseSound, ReleasedSound, LeaveSound, ReportSound, StopSound, VerifySound, CloseSound, FinalSound
    DEF D!Supervisor
<1>2. CASE D!Unit
  BY <1>2, LooksSound, ForkSound, UnitSound DEF D!Unit
<1>3. CASE D!Killed \/ D!Again \/ D!Tick
  BY <1>3, KilledSound, AgainSound, TickSound
<1>. QED
  BY <1>1, <1>2, <1>3, HostSound DEF D!Next

LEMMA DiagnosticIsSafe ==
    ASSUME D!DiagnosticConstants, DiagnosticInv
    PROVE  /\ D!TypeOK /\ D!UnitUnderLocks /\ D!NativeClearOfTimers /\ D!NativeIsReleased /\ D!ReleaseAdmitted
           /\ D!PassIsEarned
<1>1. DiagnosticTyped /\ SupHolds(sup) /\ StageHolds /\ LaunchHolds /\ sup \in Runs
  BY DEF DiagnosticInv, DiagnosticTyped
<1>2. D!TypeOK
  BY <1>1, DiagnosticNumbers DEF Runs, SupHolds, Answers, StageHolds, DiagnosticTyped, D!TypeOK
<1>3. D!UnitUnderLocks
  BY <1>1 DEF SupHolds, D!UnitUnderLocks
<1>4. D!NativeIsReleased
  BY <1>1 DEF StageHolds, LaunchHolds, D!NativeIsReleased
<1>5. D!NativeClearOfTimers
  BY <1>1, DiagnosticNumbers DEF StageHolds, LaunchHolds, DiagnosticTyped, Links, D!Records,
     D!NativeClearOfTimers
<1>6. D!ReleaseAdmitted
  BY <1>1 DEF SupHolds, LaunchHolds, D!ReleaseAdmitted
<1>7. D!PassIsEarned
  BY <1>1 DEF SupHolds, LaunchHolds, Closed, D!PassIsEarned
<1>. QED
  BY <1>2, <1>3, <1>4, <1>5, <1>6, <1>7

LEMMA EvidenceStays ==
    ASSUME D!DiagnosticConstants, DiagnosticInv, [D!Next]_D!vars PROVE D!StageIsEvidence
<1>1. /\ links \in [D!Records -> Links] /\ (launch = "fork" => native = "no")
  BY DEF DiagnosticInv, DiagnosticTyped, LaunchHolds
<1>2. ASSUME NEW r \in D!Records, NEW record, D!Link(r, record)
      PROVE  \A x \in D!Records : links[x] # None => links'[x] = links[x]
  BY <1>1, <1>2 DEF D!Link
<1>3. (D!PublishAttempt \/ D!PublishProvision \/ D!PublishRelease) =>
        \A x \in D!Records : links[x] # None => links'[x] = links[x]
  BY <1>2 DEF D!PublishAttempt, D!PublishProvision, D!PublishRelease, D!Records
<1>4. (D!PublishAttempt \/ D!PublishProvision \/ D!PublishRelease) => native' = native
  BY DEF D!PublishAttempt, D!PublishProvision, D!PublishRelease, D!worker
<1>5. (D!Fork \/ D!Complete \/ D!Dies \/ D!Stop) => (links' = links /\ (native = "done" => native' = "done"))
  BY <1>1 DEF D!Fork, D!Complete, D!Dies, D!Stop, D!stage, D!worker
<1>6. \A from, to, lock : D!Lock(lock, from, to) => links' = links /\ native' = native
  BY DEF D!Lock, D!stage, D!worker
<1>7. (D!Admit \/ D!Preflight \/ D!Snapshot \/ D!Begin \/ D!StartUnit \/ D!EffectiveUnit \/ D!Pin \/ D!CreateChild
       \/ D!GiveChild \/ D!Request \/ D!Guard \/ D!Issue \/ D!Released \/ D!Leave \/ D!Report \/ D!Fails(D!Looks)
       \/ D!Verify \/ D!Close \/ D!Final) => links' = links /\ native' = native
  BY DEF D!Admit, D!Preflight, D!Snapshot, D!Begin, D!StartUnit, D!EffectiveUnit, D!Pin, D!CreateChild, D!GiveChild,
     D!Request, D!Guard, D!Issue, D!Released, D!Leave, D!Report, D!Fails, D!Verify, D!Close, D!Final, D!stage, D!worker
<1>8. (D!Initialize \/ D!Provisioned \/ D!CheckTree \/ D!Admission \/ D!Ask \/ D!Granted \/ D!LateStart) =>
        links' = links /\ native' = native
  BY DEF D!Initialize, D!Provisioned, D!CheckTree, D!Admission, D!Ask, D!Granted, D!Launcher, D!LateStart, D!stage
<1>9. (D!Killed \/ D!Again \/ D!Tick \/ D!ProductionChanges \/ D!Works \/ UNCHANGED D!vars
       \/ \E lock \in D!Locks : D!Take(lock) \/ D!Give(lock)) => links' = links /\ native' = native
  BY DEF D!Killed, D!Again, D!Tick, D!ProductionChanges, D!Works, D!Take, D!Give, D!vars, D!stage, D!worker
<1>10. D!Supervisor => D!StageIsEvidence
  BY <1>3, <1>4, <1>5, <1>6, <1>7 DEF D!Supervisor, D!StageIsEvidence
<1>11. D!Unit => D!StageIsEvidence
  BY <1>5, <1>8 DEF D!Unit, D!StageIsEvidence
<1>. QED
  BY <1>9, <1>10, <1>11 DEF D!Next, D!StageIsEvidence

\* For every timeout, wait and timer, whatever look fails and whenever the supervisor is killed: the unit runs under
\* both locks, the native command is released, clear of the timers and over in time, and a result says no more than
\* was done (supervisor.py, launch.py).
THEOREM DiagnosticSafety ==
    ASSUME D!DiagnosticConstants
    PROVE  D!Spec => [](/\ D!TypeOK /\ D!UnitUnderLocks /\ D!NativeClearOfTimers /\ D!NativeIsReleased
                        /\ D!ReleaseAdmitted /\ D!PassIsEarned)
<1>1. D!Init => DiagnosticInv
  BY DiagnosticStarts
<1>2. DiagnosticInv /\ [D!Next]_D!vars => DiagnosticInv'
  BY DiagnosticStep
<1>3. DiagnosticInv => (/\ D!TypeOK /\ D!UnitUnderLocks /\ D!NativeClearOfTimers /\ D!NativeIsReleased
                        /\ D!ReleaseAdmitted /\ D!PassIsEarned)
  BY DiagnosticIsSafe
<1>. QED
  BY <1>1, <1>2, <1>3, PTL DEF D!Spec

\* And a stage is the evidence of one attempt: what is linked in it stays, and the command runs once at most.
THEOREM DiagnosticEvidence ==
    ASSUME D!DiagnosticConstants
    PROVE  D!Spec => [][D!StageIsEvidence]_D!vars
<1>1. D!Init => DiagnosticInv
  BY DiagnosticStarts
<1>2. DiagnosticInv /\ [D!Next]_D!vars => DiagnosticInv'
  BY DiagnosticStep
<1>3. DiagnosticInv /\ [D!Next]_D!vars => D!StageIsEvidence
  BY EvidenceStays
<1>. QED
  BY <1>1, <1>2, <1>3, PTL DEF D!Spec

-----------------------------------------------------------------------------
(* One ownership capture (OwnerCapture); the clock, the timer, its margin, *)
(* the scope and the durable record have the names declared above.         *)

CONSTANTS
    Workers, Wall, Drifting, MaxChanges

VARIABLES
    release, broken, lock, replaced, worker, changes, parent, host, inner, told, finish, wrote, writing, overlap

E == INSTANCE OwnerCapture WITH step <- writing

Admitting == {"enter", "locked", "verify", "second", "host"}
ParentPlaces ==
    Admitting \cup E!Phases \cup {"stop", "write", "load", "finalize", "provisional", "leave", "over"}
Parents == [at: ParentPlaces, checks: 0 .. 4, outcome: {"BLOCKED", "PROTOCOL_COMPLETE"}]
Seen == 0 .. MaxChanges \cup {None}
Exits == {None, 0, 2, 9}
Collecting ==
    [at: {"none", "reading", "held", "after", "done", "gone"}, before: Seen, after: Seen, clean: BOOLEAN, exit: Exits]
Events == [event: {"HELD", "ACK", "DONE"}, clean: BOOLEAN]
HostTyped ==
    /\ release \in 0 .. MaxChanges /\ changes \in 0 .. MaxChanges /\ release <= changes /\ broken \in SUBSET Drifting
    /\ replaced \in SUBSET Workers /\ worker \in [Workers -> BOOLEAN] /\ lock \in [Workers -> {None, "capture", "worker"}]
    /\ now \in Nat /\ timer \in Timers /\ scope \in {"alive", "killed", "left"} /\ (scope = "alive" => now <= Wall)
ProtocolTyped ==
    /\ parent \in Parents /\ host \in Collecting /\ inner \in Collecting /\ finish \in BOOLEAN /\ overlap \in BOOLEAN
    /\ told \in Seq(Events)

\* The events a collector at this place has written at most.
Written(place) == CASE place = "none" -> 0 [] place = "reading" -> 0 [] place = "held" -> 1 [] place = "gone" -> 3
                    [] OTHER -> 2

\* What a collector that has found nothing wrong has seen of the release, and what its exit says of it.
SeenPinned(c) ==
    /\ c.exit # None <=> c.at = "gone"
    /\ c.at \in {"held", "after"} /\ c.clean => c.before = 0
    /\ c.at = "done" /\ c.clean => c.before = 0 /\ c.after = 0
    /\ c.exit = 0 => c.clean /\ c.before = 0 /\ c.after = 0

\* Where the capture is tells which collectors there are, how often it has looked, and what it has accepted.
PlaceHolds(p) ==
    /\ p.at \in Admitting => host.at = "none"
    /\ p.at \in Admitting \cup {"READY"} => inner.at = "none"
    /\ p.at \in {"enter", "locked"} => p.checks = 0
    /\ p.at \in {"verify", "second"} => p.checks = 1
    /\ p.at = "host" => p.checks = 2
    /\ p.at = "READY" => p.checks = 3
    /\ inner.at # "none" => p.checks = 4
    /\ p.at = "write" => inner.at # "none"
    /\ p.at \in {"load", "finalize", "provisional"} => inner.at # "none" /\ writing = 9
    /\ p.at \in {"finalize", "provisional"} => host.exit = 0 /\ inner.exit = 0
    /\ p.at = "provisional" => ~overlap

\* A collector is under the locks, within the scope and clear of the timer; only a replaced lock lets a worker in.
Collectors == E!Alive(host) \/ E!Alive(inner)
Covered ==
    /\ Collectors => E!Holding /\ scope = "alive" /\ timer > Wall + Margin
    /\ overlap => replaced # {}

\* What the evidence directory shows, and holds, after so many steps of write_evidence.
RecordHolds ==
    /\ writing \in 0 .. 9 /\ wrote \in SUBSET (E!Files \cup {"pending"}) /\ disk \in SUBSET (E!Files \cup {"pending"})
    /\ ("streams" \in wrote <=> writing >= 1) /\ ("summary" \in wrote <=> writing >= 2)
    /\ ("pending" \in wrote <=> writing \in 4 .. 7) /\ ("complete" \in wrote <=> writing >= 6)
    /\ ("streams" \in disk <=> writing >= 3) /\ ("summary" \in disk <=> writing >= 3)
    /\ ("pending" \in disk <=> writing \in 5 .. 8) /\ ("complete" \in disk <=> writing >= 7)

\* The inductive invariant of the capture.
CaptureInv ==
    /\ HostTyped /\ ProtocolTyped /\ SeenPinned(host) /\ SeenPinned(inner) /\ PlaceHolds(parent)
    /\ Len(told) <= Written(host.at) /\ Covered /\ RecordHolds

LEMMA CaptureNumbers ==
    ASSUME E!CaptureConstants
    PROVE  /\ Wall \in Nat /\ Margin \in Nat /\ MaxChanges \in Nat /\ Timers \subseteq Nat
           /\ None # 0 /\ None # 2 /\ None # 9 /\ None # "capture" /\ None # "worker"
BY DEF E!CaptureConstants

LEMMA CaptureStarts ==
    ASSUME E!CaptureConstants, E!Init PROVE CaptureInv
<1>1. E!NoChild \in Collecting /\ SeenPinned(E!NoChild) /\ ~E!Alive(E!NoChild) /\ E!NoChild.at = "none"
  BY CaptureNumbers DEF E!NoChild, Collecting, Seen, Exits, SeenPinned, E!Alive
<1>2. HostTyped
  BY CaptureNumbers DEF E!Init, HostTyped
<1>3. ProtocolTyped
  <2>1. told = << >> /\ << >> \in Seq(Events)
    BY DEF E!Init
  <2>2. parent \in Parents
    BY DEF E!Init, Parents, ParentPlaces, Admitting
  <2>. QED
    BY <1>1, <2>1, <2>2 DEF E!Init, ProtocolTyped
<1>4. PlaceHolds(parent)
  BY <1>1 DEF E!Init, PlaceHolds, Admitting
<1>5. Len(told) <= Written(host.at)
  BY <1>1 DEF E!Init, Written
<1>6. Covered /\ RecordHolds
  BY <1>1 DEF E!Init, Covered, Collectors, RecordHolds
<1>. QED
  BY <1>1, <1>2, <1>3, <1>4, <1>5, <1>6 DEF E!Init, CaptureInv

\* Only the capture moves.
LEMMA ParentMoves ==
    ASSUME CaptureInv, NEW p \in Parents, parent' = p, PlaceHolds(p),
           UNCHANGED <<release, broken, lock, replaced, worker, changes, now, timer, scope, host, inner, told, finish,
                       wrote, disk, writing, overlap>>
    PROVE  CaptureInv'
<1>1. PlaceHolds(p)'
  BY DEF PlaceHolds
<1>2. PlaceHolds(parent)'
  BY <1>1
<1>3. HostTyped' /\ ProtocolTyped' /\ Covered' /\ RecordHolds'
  BY DEF CaptureInv, HostTyped, ProtocolTyped, Covered, Collectors, E!Alive, E!Holding, RecordHolds
<1>4. SeenPinned(host)' /\ SeenPinned(inner)' /\ (Len(told) <= Written(host.at))'
  BY DEF CaptureInv, SeenPinned, Written
<1>. QED
  BY <1>2, <1>3, <1>4 DEF CaptureInv

\* Nothing is taken from what holds when the capture goes straight to its end.
LEMMA Ends ==
    ASSUME CaptureInv, NEW to \in {"leave", "over", "stop"}, parent' = [parent EXCEPT !.at = to],
           UNCHANGED <<release, broken, lock, replaced, worker, changes, now, timer, scope, host, inner, told, finish,
                       wrote, disk, writing, overlap>>
    PROVE  CaptureInv'
<1>1. parent \in Parents /\ PlaceHolds(parent)
  BY DEF CaptureInv, ProtocolTyped
<1>2. PICK p \in Parents : p = [parent EXCEPT !.at = to] /\ parent' = p
  BY <1>1 DEF Parents, ParentPlaces
<1>3. p.at = to /\ p.checks = parent.checks
  BY <1>1, <1>2 DEF Parents
<1>4. PlaceHolds(p)
  BY <1>1, <1>3 DEF PlaceHolds, Admitting
<1>. QED
  BY <1>2, <1>4, ParentMoves

\* A running collector moves, or ends.
LEMMA HostCollectorMoves ==
    ASSUME E!CaptureConstants, CaptureInv, E!Alive(host), NEW c \in Collecting, host' = c, c.at # "none", SeenPinned(c),
           told' \in Seq(Events), Len(told') <= Written(c.at),
           UNCHANGED <<release, broken, lock, replaced, worker, changes, now, timer, scope, parent, inner, finish,
                       wrote, disk, writing, overlap>>
    PROVE  CaptureInv'
<1>1. host.at \notin {"none", "gone"} /\ host.exit # 0
  BY CaptureNumbers DEF CaptureInv, SeenPinned, E!Alive
<1>2. PlaceHolds(parent)'
  BY <1>1 DEF CaptureInv, PlaceHolds
<1>3. HostTyped' /\ ProtocolTyped' /\ RecordHolds'
  BY DEF CaptureInv, HostTyped, ProtocolTyped, RecordHolds
<1>4. Covered'
  BY DEF CaptureInv, Covered, Collectors, E!Alive, E!Holding
<1>5. SeenPinned(c)' /\ SeenPinned(inner)' /\ (Len(told) <= Written(host.at))'
  BY DEF CaptureInv, SeenPinned, Written
<1>6. SeenPinned(host)'
  BY <1>5
<1>. QED
  BY <1>2, <1>3, <1>4, <1>5, <1>6 DEF CaptureInv

LEMMA InnerCollectorMoves ==
    ASSUME E!CaptureConstants, CaptureInv, E!Alive(inner), NEW c \in Collecting, inner' = c, c.at # "none", SeenPinned(c),
           UNCHANGED <<release, broken, lock, replaced, worker, changes, now, timer, scope, parent, host, told, finish,
                       wrote, disk, writing, overlap>>
    PROVE  CaptureInv'
<1>1. inner.at \notin {"none", "gone"} /\ inner.exit # 0
  BY CaptureNumbers DEF CaptureInv, SeenPinned, E!Alive
<1>2. PlaceHolds(parent)'
  BY <1>1 DEF CaptureInv, PlaceHolds
<1>3. HostTyped' /\ ProtocolTyped' /\ RecordHolds'
  BY DEF CaptureInv, HostTyped, ProtocolTyped, RecordHolds
<1>4. Covered'
  BY DEF CaptureInv, Covered, Collectors, E!Alive, E!Holding
<1>5. SeenPinned(c)' /\ SeenPinned(host)' /\ (Len(told) <= Written(host.at))'
  BY DEF CaptureInv, SeenPinned, Written
<1>6. SeenPinned(inner)'
  BY <1>5
<1>. QED
  BY <1>2, <1>3, <1>4, <1>5, <1>6 DEF CaptureInv

LEMMA KilledCollectorSound ==
    ASSUME E!CaptureConstants, NEW c \in Collecting, SeenPinned(c)
    PROVE  /\ E!Killed(c) \in Collecting /\ SeenPinned(E!Killed(c)) /\ ~E!Alive(E!Killed(c))
           /\ (E!Killed(c).at = "none") <=> (c.at = "none")
           /\ ~E!Alive(c) => E!Killed(c) = c
           /\ E!Alive(c) => E!Killed(c).at = "gone"
<1>1. CASE E!Alive(c)
  <2>1. E!Killed(c) = [c EXCEPT !.at = "gone", !.exit = 9]
    BY <1>1 DEF E!Killed
  <2>2. /\ E!Killed(c) \in Collecting /\ E!Killed(c).at = "gone" /\ E!Killed(c).exit = 9
        /\ E!Killed(c).clean = c.clean
    BY <2>1 DEF Collecting, Exits
  <2>. QED
    BY <1>1, <2>2, CaptureNumbers DEF SeenPinned, E!Alive
<1>2. CASE ~E!Alive(c)
  BY <1>2 DEF E!Killed, E!Alive
<1>. QED
  BY <1>1, <1>2

-----------------------------------------------------------------------------
\* Admission.
LEMMA LockSound ==
    ASSUME E!CaptureConstants, CaptureInv, NEW w \in Workers, E!Lock(w) PROVE CaptureInv'
<1>1. /\ parent.at = "enter" /\ HostTyped /\ ProtocolTyped /\ PlaceHolds(parent) /\ Covered
  BY DEF E!Lock, CaptureInv
<1>2. UNCHANGED <<release, broken, replaced, worker, changes, now, timer, scope, host, inner, told, finish,
                  wrote, disk, writing, overlap>>
  BY DEF E!Lock, E!outside, E!children, E!record
<1>3. PICK p \in Parents : parent' = p /\ p.at \in {"enter", "locked"} /\ p.checks = 0
  BY <1>1 DEF E!Lock, E!At, ProtocolTyped, Parents, ParentPlaces, Admitting, PlaceHolds
<1>4. lock' \in [Workers -> {None, "capture", "worker"}]
  BY <1>1 DEF E!Lock, HostTyped
<1>5. host.at = "none" /\ inner.at = "none"
  BY <1>1 DEF PlaceHolds, Admitting
<1>6. PlaceHolds(p)'
  BY <1>2, <1>3, <1>5 DEF PlaceHolds, Admitting
<1>7. PlaceHolds(parent)'
  BY <1>3, <1>6
<1>8. Covered'
  BY <1>1, <1>2, <1>5 DEF Covered, Collectors, E!Alive
<1>9. HostTyped' /\ ProtocolTyped' /\ RecordHolds'
  BY <1>1, <1>2, <1>3, <1>4 DEF CaptureInv, HostTyped, ProtocolTyped, RecordHolds
<1>10. SeenPinned(host)' /\ SeenPinned(inner)' /\ (Len(told) <= Written(host.at))'
  BY <1>2 DEF CaptureInv, SeenPinned, Written
<1>. QED
  BY <1>7, <1>8, <1>9, <1>10 DEF CaptureInv

\* The locks go, and no collector is left.
LEMMA Releases ==
    ASSUME E!CaptureConstants, CaptureInv, NEW p \in Parents, parent' = p, PlaceHolds(p)',
           host' \in Collecting, inner' \in Collecting, SeenPinned(host'), SeenPinned(inner'),
           ~E!Alive(host'), ~E!Alive(inner'), told' = told, Len(told) <= Written(host'.at),
           scope' \in {"killed", "left"}, lock' \in [Workers -> {None, "capture", "worker"}],
           UNCHANGED <<release, broken, replaced, worker, changes, now, timer, finish, wrote, disk, writing, overlap>>
    PROVE  CaptureInv'
<1>1. HostTyped' /\ ProtocolTyped' /\ RecordHolds'
  BY DEF CaptureInv, HostTyped, ProtocolTyped, RecordHolds
<1>2. Covered'
  BY DEF CaptureInv, Covered, Collectors, E!Alive
<1>3. PlaceHolds(parent)'
  OBVIOUS
<1>4. (Len(told) <= Written(host.at))'
  BY DEF Written
<1>5. SeenPinned(host)' /\ SeenPinned(inner)'
  BY DEF SeenPinned
<1>. QED
  BY <1>1, <1>2, <1>3, <1>4, <1>5 DEF CaptureInv

LEMMA EnterFailsSound ==
    ASSUME E!CaptureConstants, CaptureInv, E!EnterFails PROVE CaptureInv'
<1>1. parent.at \in {"enter", "locked"} /\ HostTyped /\ ProtocolTyped /\ PlaceHolds(parent)
  BY DEF E!EnterFails, CaptureInv
<1>2. UNCHANGED <<release, broken, replaced, worker, changes, now, timer, host, inner, told, finish, wrote, disk,
                  writing, overlap>>
  BY DEF E!EnterFails, E!outside, E!children, E!record
<1>3. PICK p \in Parents : parent' = p /\ p.at = "over"
  BY <1>1 DEF E!EnterFails, E!At, ProtocolTyped, Parents, ParentPlaces
<1>4. host.at = "none" /\ inner.at = "none"
  BY <1>1 DEF PlaceHolds, Admitting
<1>5. PlaceHolds(p)'
  BY <1>2, <1>3, <1>4 DEF PlaceHolds, Admitting
<1>6. lock' \in [Workers -> {None, "capture", "worker"}] /\ scope' = "left"
  BY <1>1 DEF E!EnterFails, HostTyped
<1>7. ~E!Alive(host') /\ ~E!Alive(inner') /\ SeenPinned(host') /\ SeenPinned(inner')
  BY <1>2, <1>4 DEF E!Alive, CaptureInv
<1>. QED
  BY <1>1, <1>2, <1>3, <1>5, <1>6, <1>7, Releases DEF CaptureInv, ProtocolTyped

LEMMA LeaveScopeSound ==
    ASSUME E!CaptureConstants, CaptureInv, E!Leave PROVE CaptureInv'
<1>1. parent.at \in {"leave", "provisional"} /\ HostTyped /\ ProtocolTyped /\ PlaceHolds(parent)
  BY DEF E!Leave, CaptureInv
<1>2. UNCHANGED <<release, broken, replaced, worker, changes, now, timer, host, inner, told, finish, wrote, disk,
                  writing, overlap>>
  BY DEF E!Leave, E!outside, E!children, E!record
<1>3. PICK p \in Parents : parent' = p /\ (p = parent \/ p.at = "over") /\ p.checks = parent.checks
  BY <1>1 DEF E!Leave, E!At, ProtocolTyped, Parents, ParentPlaces
<1>4. PlaceHolds(p)'
  BY <1>1, <1>2, <1>3 DEF PlaceHolds, Admitting
<1>5. lock' \in [Workers -> {None, "capture", "worker"}] /\ scope' = "left"
  BY <1>1 DEF E!Leave, HostTyped
<1>6. ~E!Alive(host') /\ ~E!Alive(inner') /\ SeenPinned(host') /\ SeenPinned(inner')
  BY <1>2 DEF E!Leave, E!HoldOnce, CaptureInv
<1>. QED
  BY <1>1, <1>2, <1>3, <1>4, <1>5, <1>6, Releases DEF CaptureInv, ProtocolTyped

LEMMA ScopeKillSound ==
    ASSUME E!CaptureConstants, CaptureInv, E!ScopeKill PROVE CaptureInv'
<1>1. HostTyped /\ ProtocolTyped /\ PlaceHolds(parent) /\ SeenPinned(host) /\ SeenPinned(inner)
  BY DEF CaptureInv
<1>2. UNCHANGED <<release, broken, replaced, worker, changes, now, timer, told, finish, wrote, disk, writing, overlap>>
  BY DEF E!ScopeKill, E!outside, E!record
<1>3. PICK p \in Parents : parent' = p /\ p.at = "over" /\ p.checks = parent.checks
  BY <1>1 DEF E!ScopeKill, ProtocolTyped, Parents, ParentPlaces
<1>4. /\ host' = E!Killed(host) /\ inner' = E!Killed(inner) /\ scope' = "killed"
      /\ lock' \in [Workers -> {None, "capture", "worker"}]
  BY <1>1 DEF E!ScopeKill, HostTyped
<1>5. /\ host' \in Collecting /\ SeenPinned(host') /\ ~E!Alive(host')
      /\ inner' \in Collecting /\ SeenPinned(inner') /\ ~E!Alive(inner') /\ (inner'.at = "none" <=> inner.at = "none")
  BY <1>1, <1>4, KilledCollectorSound DEF ProtocolTyped
<1>6. Len(told) <= Written(host'.at)
  BY <1>1, <1>4, KilledCollectorSound DEF ProtocolTyped, CaptureInv, Written, Collecting
<1>7. PlaceHolds(p)'
  BY <1>1, <1>3, <1>5 DEF PlaceHolds, Admitting
<1>. QED
  BY <1>2, <1>3, <1>4, <1>5, <1>6, <1>7, Releases

LEMMA CheckSound ==
    ASSUME E!CaptureConstants, CaptureInv, E!FirstCheck \/ E!SecondCheck PROVE CaptureInv'
<1>1. PICK from \in {"locked", "second"}, to \in {"verify", "host"} :
        E!Check(from, to) /\ (from = "locked" <=> to = "verify")
  BY DEF E!FirstCheck, E!SecondCheck
<1>2. parent.at = from /\ parent \in Parents /\ PlaceHolds(parent)
  BY <1>1 DEF E!Check, CaptureInv, ProtocolTyped
<1>3. UNCHANGED <<release, broken, lock, replaced, worker, changes, now, timer, scope, host, inner, told, finish,
                  wrote, disk, writing, overlap>>
  BY <1>1 DEF E!Check, E!outside, E!children, E!record
<1>4. CASE E!QueryFails
  BY <1>3, <1>4, Ends DEF E!QueryFails, E!At
<1>5. CASE parent' = [parent EXCEPT !.at = to, !.checks = parent.checks + 1]
  <2>1. parent.checks = IF from = "locked" THEN 0 ELSE 1
    BY <1>1, <1>2 DEF PlaceHolds
  <2>2. PICK n \in {1, 2} : n = parent.checks + 1
    BY <2>1
  <2>3. [parent EXCEPT !.at = to, !.checks = n] \in Parents
    <3>1. to \in ParentPlaces /\ n \in 0 .. 4 /\ parent \in Parents
      BY <1>2 DEF ParentPlaces, Admitting
    <3>. QED
      BY <3>1 DEF Parents
  <2>4. PICK p \in Parents : p = [parent EXCEPT !.at = to, !.checks = n] /\ parent' = p
    BY <1>5, <2>2, <2>3
  <2>5. p.at = to /\ p.checks = parent.checks + 1
    BY <1>2, <2>4, <2>2 DEF Parents
  <2>6. PlaceHolds(p)
    BY <1>1, <1>2, <2>1, <2>5 DEF PlaceHolds, Admitting
  <2>. QED
    BY <1>3, <2>4, <2>6, ParentMoves
<1>. QED
  BY <1>1, <1>4, <1>5 DEF E!Check

LEMMA VerifyReleaseSound ==
    ASSUME E!CaptureConstants, CaptureInv, E!Verify PROVE CaptureInv'
<1>1. parent.at = "verify" /\ parent \in Parents /\ PlaceHolds(parent)
  BY DEF E!Verify, CaptureInv, ProtocolTyped
<1>2. UNCHANGED <<release, broken, lock, replaced, worker, changes, now, timer, scope, host, inner, told, finish,
                  wrote, disk, writing, overlap>>
  BY DEF E!Verify, E!outside, E!children, E!record
<1>3. PICK to \in {"second", "leave"} : parent' = [parent EXCEPT !.at = to]
  BY DEF E!Verify, E!At
<1>4. PICK p \in Parents : p = [parent EXCEPT !.at = to] /\ parent' = p
  BY <1>1, <1>3 DEF Parents, ParentPlaces, Admitting
<1>5. p.at = to /\ p.checks = parent.checks
  BY <1>1, <1>4 DEF Parents
<1>6. PlaceHolds(p)
  BY <1>1, <1>5 DEF PlaceHolds, Admitting
<1>. QED
  BY <1>2, <1>4, <1>6, ParentMoves

-----------------------------------------------------------------------------
\* The protocol.
LEMMA SpawnHostSound ==
    ASSUME E!CaptureConstants, CaptureInv, E!SpawnHost PROVE CaptureInv'
<1>1. /\ parent.at = "host" /\ HostTyped /\ ProtocolTyped /\ PlaceHolds(parent) /\ Covered /\ parent \in Parents
      /\ Len(told) <= Written(host.at)
  BY DEF E!SpawnHost, CaptureInv, ProtocolTyped
<1>2. UNCHANGED <<release, broken, lock, replaced, worker, changes, now, timer, scope, inner, told, finish,
                  wrote, disk, writing, overlap>>
  BY DEF E!SpawnHost, E!outside, E!record
<1>3. parent.checks = 2 /\ host.at = "none" /\ inner.at = "none"
  BY <1>1 DEF PlaceHolds, Admitting
<1>4. CASE E!QueryFails /\ UNCHANGED host
  BY <1>2, <1>4, Ends DEF E!QueryFails, E!At
<1>5. CASE E!Admissible /\ host' = E!Spawned /\ parent' = [parent EXCEPT !.at = "READY", !.checks = parent.checks + 1]
  <2>1. PICK c \in Collecting : host' = c /\ c.at = "reading" /\ SeenPinned(c)
    <3>1. E!Spawned \in Collecting /\ E!Spawned.at = "reading" /\ SeenPinned(E!Spawned)
      BY CaptureNumbers DEF E!Spawned, E!NoChild, Collecting, Seen, Exits, SeenPinned
    <3>. QED
      BY <1>5, <3>1
  <2>2. [parent EXCEPT !.at = "READY", !.checks = 3] \in Parents
    <3>1. "READY" \in ParentPlaces /\ 3 \in 0 .. 4
      BY DEF ParentPlaces, E!Phases
    <3>. QED
      BY <1>1, <3>1 DEF Parents
  <2>3. PICK p \in Parents : p = [parent EXCEPT !.at = "READY", !.checks = 3] /\ parent' = p
    BY <1>3, <1>5, <2>2
  <2>4. p.at = "READY" /\ p.checks = 3
    BY <1>1, <2>3 DEF Parents
  <2>5. PlaceHolds(p)'
    BY <1>2, <1>3, <2>4 DEF PlaceHolds, Admitting
  <2>6. PlaceHolds(parent)'
    BY <2>3, <2>5
  <2>7. E!Holding /\ scope = "alive" /\ timer > Wall + Margin
    BY <1>5 DEF E!Admissible, E!LocksPinned, E!SameScope, E!Idle, E!TimersFar
  <2>8. Covered'
    BY <1>1, <1>2, <2>7 DEF Covered, Collectors, E!Holding
  <2>9. HostTyped' /\ ProtocolTyped' /\ RecordHolds'
    BY <1>1, <1>2, <2>1, <2>3 DEF CaptureInv, HostTyped, ProtocolTyped, RecordHolds
  <2>10. SeenPinned(c)' /\ SeenPinned(inner)' /\ (Len(told) <= Written(host.at))'
    BY <1>1, <1>2, <1>3, <2>1 DEF CaptureInv, SeenPinned, Written
  <2>11. SeenPinned(host)'
    BY <2>1, <2>10
  <2>. QED
    BY <2>6, <2>8, <2>9, <2>10, <2>11 DEF CaptureInv
<1>. QED
  BY <1>4, <1>5 DEF E!SpawnHost

LEMMA DeadlineSound ==
    ASSUME E!CaptureConstants, CaptureInv, E!Deadline PROVE CaptureInv'
BY Ends DEF E!Deadline, E!Blocks, E!outside, E!record, E!At

LEMMA TailTyped ==
    ASSUME ProtocolTyped, told # << >>
    PROVE  Tail(told) \in Seq(Events) /\ Len(Tail(told)) <= Len(told) /\ Head(told) \in Events
BY DEF ProtocolTyped

\* The capture goes on within the protocol, by an event of the host collector or by the end of the other.
LEMMA ProtocolMoves ==
    ASSUME E!CaptureConstants, CaptureInv, parent.at \in E!Phases, NEW p \in Parents, parent' = p,
           inner' = inner \/ (parent.at = "READY" /\ E!Admissible /\ inner' = E!Spawned),
           p.at \in {"RESTRICTED", "ACK", "COMPLETE", "EXIT", "stop"},
           p.checks = IF inner' = inner THEN parent.checks ELSE 4,
           told' \in Seq(Events), Len(told') <= Len(told), finish' \in BOOLEAN,
           UNCHANGED <<release, broken, lock, replaced, worker, changes, now, timer, scope, host,
                       wrote, disk, writing, overlap>>
    PROVE  CaptureInv'
<1>1. HostTyped /\ ProtocolTyped /\ PlaceHolds(parent) /\ Covered /\ SeenPinned(inner) /\ Len(told) <= Written(host.at)
  BY DEF CaptureInv
<1>2. E!Spawned \in Collecting /\ E!Spawned.at = "reading" /\ SeenPinned(E!Spawned)
  BY CaptureNumbers DEF E!Spawned, E!NoChild, Collecting, Seen, Exits, SeenPinned
<1>3. PICK c \in Collecting : inner' = c /\ SeenPinned(c) /\ (c = inner \/ (c.at = "reading" /\ E!Admissible))
  BY <1>1, <1>2 DEF ProtocolTyped
<1>4. PlaceHolds(p)'
  BY <1>1, <1>3 DEF PlaceHolds, Admitting
<1>5. PlaceHolds(parent)'
  BY <1>4
<1>6. E!Admissible => E!Holding /\ scope = "alive" /\ timer > Wall + Margin
  BY DEF E!Admissible, E!LocksPinned, E!SameScope, E!Idle, E!TimersFar
<1>7. Covered'
  BY <1>1, <1>3, <1>6 DEF Covered, Collectors, E!Holding, E!Alive
<1>8. HostTyped' /\ ProtocolTyped' /\ RecordHolds'
  BY <1>1, <1>3 DEF CaptureInv, HostTyped, ProtocolTyped, RecordHolds
<1>9. Written(host.at) \in Nat /\ Len(told) \in Nat /\ Len(told') \in Nat
  BY <1>1 DEF Written, ProtocolTyped
<1>10. SeenPinned(c)' /\ SeenPinned(host)' /\ (Len(told) <= Written(host.at))'
  BY <1>1, <1>3, <1>9 DEF CaptureInv, SeenPinned, Written
<1>11. SeenPinned(inner)'
  BY <1>3, <1>10
<1>. QED
  BY <1>5, <1>7, <1>8, <1>10, <1>11 DEF CaptureInv

LEMMA ReadHostSound ==
    ASSUME E!CaptureConstants, CaptureInv, E!ReadHost PROVE CaptureInv'
<1>1. /\ parent.at \in E!Phases /\ told # << >> /\ told' = Tail(told) /\ ProtocolTyped /\ PlaceHolds(parent)
      /\ parent \in Parents
  BY DEF E!ReadHost, CaptureInv, ProtocolTyped
<1>2. UNCHANGED <<release, broken, lock, replaced, worker, changes, now, timer, scope, host, finish, wrote, disk,
                  writing, overlap>>
  BY DEF E!ReadHost, E!Blocks, E!outside, E!record
<1>3. told' \in Seq(Events) /\ Len(told') <= Len(told) /\ finish' \in BOOLEAN
  BY <1>1, <1>2, TailTyped DEF ProtocolTyped
<1>4. CASE E!Expected(Head(told)) /\ parent.at = "READY"
  <2>1. E!Admissible /\ inner' = E!Spawned
    BY <1>1, <1>4 DEF E!ReadHost, E!Expected, E!Progress
  <2>2. parent.checks = 3 /\ inner.at = "none" /\ E!Spawned.at = "reading"
    BY <1>1, <1>4 DEF PlaceHolds, E!Spawned, E!NoChild
  <2>3. [parent EXCEPT !.at = "RESTRICTED", !.checks = 4] \in Parents
    <3>1. "RESTRICTED" \in ParentPlaces /\ 4 \in 0 .. 4
      BY DEF ParentPlaces, E!Phases
    <3>. QED
      BY <1>1, <3>1 DEF Parents
  <2>4. parent' = [parent EXCEPT !.at = "RESTRICTED", !.checks = parent.checks + 1]
    BY <1>4 DEF E!ReadHost, E!Progress
  <2>5. PICK p \in Parents : p = [parent EXCEPT !.at = "RESTRICTED", !.checks = 4] /\ parent' = p
    BY <2>2, <2>3, <2>4
  <2>6. p.at = "RESTRICTED" /\ p.checks = 4
    BY <1>1, <2>5 DEF Parents
  <2>. QED
    BY <1>1, <1>2, <1>3, <1>4, <2>1, <2>2, <2>5, <2>6, ProtocolMoves
<1>5. ASSUME NEW to \in {"COMPLETE", "EXIT", "stop"}, parent' = [parent EXCEPT !.at = to], inner' = inner
      PROVE  CaptureInv'
  BY <1>1, <1>2, <1>3, <1>5, ProtocolMoves DEF ParentPlaces, E!Phases, Parents
<1>6. CASE E!Expected(Head(told)) /\ parent.at # "READY"
  BY <1>5, <1>6 DEF E!ReadHost, E!Progress, E!At
<1>7. CASE ~E!Expected(Head(told))
  BY <1>5, <1>7 DEF E!ReadHost, E!Blocks, E!At
<1>. QED
  BY <1>4, <1>6, <1>7

LEMMA FinishSound ==
    ASSUME E!CaptureConstants, CaptureInv, E!Finish PROVE CaptureInv'
<1>1. parent.at = "RESTRICTED" /\ parent \in Parents /\ ProtocolTyped
  BY DEF E!Finish, CaptureInv, ProtocolTyped
<1>2. UNCHANGED <<release, broken, lock, replaced, worker, changes, now, timer, scope, host, inner, told, wrote, disk,
                  writing, overlap>>
  BY DEF E!Finish, E!Blocks, E!outside, E!record
<1>3. PICK to \in {"ACK", "stop"} : parent' = [parent EXCEPT !.at = to]
  BY DEF E!Finish, E!Blocks, E!At
<1>4. [parent EXCEPT !.at = to] \in Parents
  BY <1>1 DEF ParentPlaces, E!Phases, Parents
<1>5. PICK p \in Parents : p = [parent EXCEPT !.at = to] /\ parent' = p
  BY <1>3, <1>4
<1>6. p.at = to /\ p.checks = parent.checks
  BY <1>1, <1>5 DEF Parents
<1>7. parent.at \in E!Phases /\ finish' \in BOOLEAN /\ told' \in Seq(Events) /\ Len(told') <= Len(told)
  <2>1. parent.at \in E!Phases
    BY <1>1 DEF E!Phases
  <2>2. finish' \in BOOLEAN
    BY <1>1, Zenon DEF E!Finish, E!Blocks, ProtocolTyped
  <2>3. told' \in Seq(Events) /\ Len(told') <= Len(told)
    BY <1>1, <1>2 DEF ProtocolTyped
  <2>. QED
    BY <2>1, <2>2, <2>3
<1>. QED
  BY <1>2, <1>5, <1>6, <1>7, ProtocolMoves

LEMMA HostExitsSound ==
    ASSUME E!CaptureConstants, CaptureInv, E!HostExits PROVE CaptureInv'
<1>1. parent.at \in E!Phases /\ parent \in Parents /\ PlaceHolds(parent)
  BY DEF E!HostExits, E!Phases, CaptureInv, ProtocolTyped
<1>2. UNCHANGED <<release, broken, lock, replaced, worker, changes, now, timer, scope, host, inner, told, finish,
                  wrote, disk, writing, overlap>>
  BY DEF E!HostExits, E!Blocks, E!outside, E!record
<1>3. CASE E!Blocks
  BY <1>2, <1>3, Ends DEF E!Blocks, E!At
<1>4. CASE \E o \in {"PROTOCOL_COMPLETE", "BLOCKED"} : parent' = [parent EXCEPT !.at = "stop", !.outcome = o]
  <2>1. PICK o \in {"PROTOCOL_COMPLETE", "BLOCKED"} : parent' = [parent EXCEPT !.at = "stop", !.outcome = o]
    BY <1>4
  <2>2. [parent EXCEPT !.at = "stop", !.outcome = o] \in Parents
    BY <1>1 DEF ParentPlaces, Parents
  <2>3. PICK p \in Parents : p = [parent EXCEPT !.at = "stop", !.outcome = o] /\ parent' = p
    BY <2>1, <2>2
  <2>4. p.at = "stop" /\ p.checks = parent.checks
    BY <1>1, <2>3 DEF Parents
  <2>5. PlaceHolds(p)
    BY <1>1, <2>4 DEF PlaceHolds, Admitting
  <2>. QED
    BY <1>2, <2>3, <2>5, ParentMoves
<1>. QED
  BY <1>3, <1>4 DEF E!HostExits

\* A collector that is stopped, now or late.
LEMMA StopCollectorsSound ==
    ASSUME E!CaptureConstants, CaptureInv, E!Stop PROVE CaptureInv'
<1>1. /\ parent.at = "stop" /\ parent \in Parents /\ HostTyped /\ ProtocolTyped /\ PlaceHolds(parent) /\ Covered
      /\ SeenPinned(host) /\ SeenPinned(inner) /\ Len(told) <= Written(host.at) /\ host \in Collecting /\ inner \in Collecting
  BY DEF E!Stop, CaptureInv, ProtocolTyped
<1>2. UNCHANGED <<release, broken, lock, replaced, worker, changes, now, timer, scope, told, finish, wrote, disk,
                  writing, overlap>>
  BY DEF E!Stop, E!outside, E!record
<1>3. (host' = host \/ host' = E!Killed(host)) /\ (inner' = inner \/ inner' = E!Killed(inner))
  BY DEF E!Stop
<1>4. PICK c \in Collecting : host' = c /\ SeenPinned(c) /\ (c = host \/ (E!Alive(host) /\ c.at = "gone"))
  BY <1>1, <1>3, KilledCollectorSound
<1>5. PICK d \in Collecting : inner' = d /\ SeenPinned(d) /\ (d = inner \/ (E!Alive(inner) /\ d.at = "gone"))
  BY <1>1, <1>3, KilledCollectorSound
<1>6. PICK to \in {"leave", "write"}, o \in {"PROTOCOL_COMPLETE", "BLOCKED"} :
        parent' = [parent EXCEPT !.at = to, !.outcome = o] /\ (to = "write" => inner.at # "none")
  BY <1>1 DEF Parents, E!Stop
<1>7. [parent EXCEPT !.at = to, !.outcome = o] \in Parents
  BY <1>1 DEF ParentPlaces, Parents
<1>8. PICK p \in Parents : p = [parent EXCEPT !.at = to, !.outcome = o] /\ parent' = p
  BY <1>6, <1>7
<1>9. p.at = to /\ p.checks = parent.checks
  BY <1>1, <1>8 DEF Parents
<1>10. d.at = "none" <=> inner.at = "none"
  BY <1>5 DEF E!Alive
<1>11. PlaceHolds(p)'
  BY <1>1, <1>2, <1>5, <1>6, <1>9, <1>10 DEF PlaceHolds, Admitting
<1>12. PlaceHolds(parent)'
  BY <1>8, <1>11
<1>13. E!Alive(c) => E!Alive(host)
  BY <1>4 DEF E!Alive
<1>14. E!Alive(d) => E!Alive(inner)
  BY <1>5 DEF E!Alive
<1>15. Covered'
  BY <1>1, <1>2, <1>4, <1>5, <1>13, <1>14 DEF Covered, Collectors, E!Holding, E!Alive
<1>16. HostTyped' /\ ProtocolTyped' /\ RecordHolds'
  BY <1>1, <1>2, <1>4, <1>5, <1>8 DEF CaptureInv, HostTyped, ProtocolTyped, RecordHolds
<1>17. SeenPinned(host)' /\ SeenPinned(inner)'
  BY <1>4, <1>5 DEF SeenPinned
<1>18. (Len(told) <= Written(host.at))'
  BY <1>1, <1>2, <1>4 DEF Written, Collecting, ProtocolTyped
<1>. QED
  BY <1>12, <1>15, <1>16, <1>17, <1>18 DEF CaptureInv

-----------------------------------------------------------------------------
\* The collectors.
LEMMA HostCollects ==
    ASSUME E!CaptureConstants, CaptureInv,
           E!HostReads \/ E!HostReadsChanged \/ E!WaitFinish \/ E!HostCompares \/ E!HostSaves
    PROVE  CaptureInv'
<1>1. /\ host.at \in {"reading", "held", "after", "done"} /\ host \in Collecting /\ SeenPinned(host) /\ ProtocolTyped
      /\ HostTyped /\ Len(told) <= Written(host.at) /\ host.exit = None
  BY DEF E!HostReads, E!HostReadsChanged, E!WaitFinish, E!HostCompares, E!HostSaves, CaptureInv, ProtocolTyped, SeenPinned
<1>2. E!Alive(host)
  BY <1>1 DEF E!Alive
<1>3. UNCHANGED <<release, broken, lock, replaced, worker, changes, now, timer, scope, parent, inner, finish, wrote,
                  disk, writing, overlap>>
  BY DEF E!HostReads, E!HostReadsChanged, E!WaitFinish, E!HostCompares, E!HostSaves, E!outside, E!record
<1>4. Len(told) \in Nat /\ told \in Seq(Events) /\ release \in Seen
  BY <1>1 DEF ProtocolTyped, HostTyped, Seen
<1>5. \A e \in Events : Append(told, e) \in Seq(Events) /\ Len(Append(told, e)) = Len(told) + 1
  BY <1>4
<1>6. ASSUME NEW clean \in BOOLEAN
      PROVE  /\ [event |-> "HELD", clean |-> clean] \in Events /\ [event |-> "ACK", clean |-> clean] \in Events
             /\ [event |-> "DONE", clean |-> clean] \in Events
  BY DEF Events
<1>7. CASE host.at = "reading" /\ host' = E!Read(host) /\ told' = Append(told, [event |-> "HELD", clean |-> TRUE])
  <2>1. PICK b \in BOOLEAN : b = (release = 0)
    OBVIOUS
  <2>2. PICK c \in Collecting : c = [host EXCEPT !.at = "held", !.before = release, !.clean = b] /\ host' = c
    BY <1>1, <1>4, <1>7, <2>1 DEF E!Read, Collecting
  <2>3. c.at = "held" /\ c.before = release /\ c.clean = b /\ c.exit = None
    BY <1>1, <2>2 DEF Collecting
  <2>4. SeenPinned(c)
    BY <2>1, <2>3, CaptureNumbers DEF SeenPinned
  <2>5. told' \in Seq(Events) /\ Len(told') <= Written(c.at)
    <3>1. [event |-> "HELD", clean |-> TRUE] \in Events
      BY <1>6
    <3>2. told' \in Seq(Events) /\ Len(told') = Len(told) + 1
      BY <1>5, <1>7, <3>1
    <3>3. Len(told) <= 0 /\ Written(c.at) = 1
      BY <1>1, <1>7, <2>3 DEF Written
    <3>. QED
      BY <1>4, <3>2, <3>3
  <2>. QED
    BY <1>2, <1>3, <2>2, <2>3, <2>4, <2>5, HostCollectorMoves
<1>8. CASE host.at = "reading" /\ host' = [host EXCEPT !.at = "done", !.clean = FALSE] /\ told' = told
  <2>1. PICK c \in Collecting : c = [host EXCEPT !.at = "done", !.clean = FALSE] /\ host' = c
    BY <1>1, <1>8 DEF Collecting
  <2>2. c.at = "done" /\ c.clean = FALSE /\ c.exit = None
    BY <1>1, <2>1 DEF Collecting
  <2>3. SeenPinned(c)
    BY <2>2, CaptureNumbers DEF SeenPinned
  <2>4. told' \in Seq(Events) /\ Len(told') <= Written(c.at)
    BY <1>1, <1>4, <1>8, <2>2 DEF Written
  <2>. QED
    BY <1>2, <1>3, <2>1, <2>2, <2>3, <2>4, HostCollectorMoves
<1>9. CASE host.at = "held" /\ host' = [host EXCEPT !.at = "after"] /\ told' = Append(told, [event |-> "ACK", clean |-> TRUE])
  <2>1. PICK c \in Collecting : c = [host EXCEPT !.at = "after"] /\ host' = c
    BY <1>1, <1>9 DEF Collecting
  <2>2. c.at = "after" /\ c.clean = host.clean /\ c.before = host.before /\ c.exit = None
    BY <1>1, <2>1 DEF Collecting
  <2>3. SeenPinned(c)
    BY <1>1, <1>9, <2>2, CaptureNumbers DEF SeenPinned
  <2>4. told' \in Seq(Events) /\ Len(told') <= Written(c.at)
    <3>1. [event |-> "ACK", clean |-> TRUE] \in Events
      BY <1>6
    <3>2. told' \in Seq(Events) /\ Len(told') = Len(told) + 1
      BY <1>5, <1>9, <3>1
    <3>3. Len(told) <= 1 /\ Written(c.at) = 2
      BY <1>1, <1>9, <2>2 DEF Written
    <3>. QED
      BY <1>4, <3>2, <3>3
  <2>. QED
    BY <1>2, <1>3, <2>1, <2>2, <2>3, <2>4, HostCollectorMoves
<1>10. CASE host.at = "held" /\ host' = [host EXCEPT !.at = "after", !.clean = FALSE] /\ told' = told
  <2>1. PICK c \in Collecting : c = [host EXCEPT !.at = "after", !.clean = FALSE] /\ host' = c
    BY <1>1, <1>10 DEF Collecting
  <2>2. c.at = "after" /\ c.clean = FALSE /\ c.exit = None
    BY <1>1, <2>1 DEF Collecting
  <2>3. SeenPinned(c)
    BY <2>2, CaptureNumbers DEF SeenPinned
  <2>4. told' \in Seq(Events) /\ Len(told') <= Written(c.at)
    BY <1>1, <1>4, <1>10, <2>2 DEF Written
  <2>. QED
    BY <1>2, <1>3, <2>1, <2>2, <2>3, <2>4, HostCollectorMoves
<1>11. CASE host.at = "after" /\ host' = E!Compare(host) /\ told' = told
  <2>1. PICK b \in BOOLEAN : b = (host.clean /\ release = host.before)
    OBVIOUS
  <2>2. PICK c \in Collecting : c = [host EXCEPT !.at = "done", !.after = release, !.clean = b] /\ host' = c
    BY <1>1, <1>4, <1>11, <2>1 DEF Collecting, E!Compare
  <2>3. c.at = "done" /\ c.before = host.before /\ c.after = release /\ c.clean = b /\ c.exit = None
    BY <1>1, <2>2 DEF Collecting
  <2>4. SeenPinned(c)
    BY <1>1, <1>11, <2>1, <2>3, CaptureNumbers DEF SeenPinned
  <2>5. told' \in Seq(Events) /\ Len(told') <= Written(c.at)
    BY <1>1, <1>4, <1>11, <2>3 DEF Written
  <2>. QED
    BY <1>2, <1>3, <2>2, <2>3, <2>4, <2>5, HostCollectorMoves
<1>12. CASE /\ host.at = "done" /\ told' = Append(told, [event |-> "DONE", clean |-> host.clean])
            /\ host' = [host EXCEPT !.at = "gone", !.exit = IF host.clean THEN 0 ELSE 2]
  <2>1. PICK e \in {0, 2} : e = IF host.clean THEN 0 ELSE 2
    OBVIOUS
  <2>2. PICK c \in Collecting : c = [host EXCEPT !.at = "gone", !.exit = e] /\ host' = c
    BY <1>1, <1>12, <2>1 DEF Collecting, Exits
  <2>3. c.at = "gone" /\ c.before = host.before /\ c.after = host.after /\ c.clean = host.clean /\ c.exit = e
    BY <1>1, <2>2 DEF Collecting
  <2>4. SeenPinned(c)
    BY <1>1, <1>12, <2>1, <2>3, CaptureNumbers DEF SeenPinned
  <2>5. told' \in Seq(Events) /\ Len(told') <= Written(c.at)
    <3>1. host.clean \in BOOLEAN
      BY <1>1 DEF Collecting
    <3>2. [event |-> "DONE", clean |-> host.clean] \in Events
      BY <1>6, <3>1
    <3>. QED
      BY <1>1, <1>4, <1>5, <1>12, <2>3, <3>2 DEF Written
  <2>. QED
    BY <1>2, <1>3, <2>2, <2>3, <2>4, <2>5, HostCollectorMoves
<1>. QED
  BY <1>7, <1>8, <1>9, <1>10, <1>11, <1>12
  DEF E!HostReads, E!HostReadsChanged, E!WaitFinish, E!HostCompares, E!HostSaves

LEMMA InnerCollects ==
    ASSUME E!CaptureConstants, CaptureInv, E!InnerReads \/ E!InnerCompares \/ E!InnerEnds
    PROVE  CaptureInv'
<1>1. /\ inner.at \in {"reading", "after", "done"} /\ inner \in Collecting /\ SeenPinned(inner)
      /\ HostTyped /\ inner.exit = None
  BY DEF E!InnerReads, E!InnerCompares, E!InnerEnds, CaptureInv, ProtocolTyped, SeenPinned
<1>2. E!Alive(inner)
  BY <1>1 DEF E!Alive
<1>3. UNCHANGED <<release, broken, lock, replaced, worker, changes, now, timer, scope, parent, host, told, finish, wrote,
                  disk, writing, overlap>>
  BY DEF E!InnerReads, E!InnerCompares, E!InnerEnds, E!outside, E!record
<1>4. release \in Seen
  BY <1>1 DEF HostTyped, Seen
<1>5. CASE inner.at = "reading" /\ inner' = [E!Read(inner) EXCEPT !.at = "after"]
  <2>1. PICK b \in BOOLEAN : b = (release = 0)
    OBVIOUS
  <2>2. [E!Read(inner) EXCEPT !.at = "after"] = [inner EXCEPT !.at = "after", !.before = release, !.clean = b]
    BY <1>1, <2>1 DEF E!Read, Collecting
  <2>3. PICK c \in Collecting : c = [inner EXCEPT !.at = "after", !.before = release, !.clean = b] /\ inner' = c
    BY <1>1, <1>4, <1>5, <2>2 DEF Collecting
  <2>4. c.at = "after" /\ c.before = release /\ c.clean = b /\ c.exit = None
    BY <1>1, <2>3 DEF Collecting
  <2>5. SeenPinned(c)
    BY <2>1, <2>4, CaptureNumbers DEF SeenPinned
  <2>. QED
    BY <1>2, <1>3, <2>3, <2>4, <2>5, InnerCollectorMoves
<1>6. CASE inner.at = "after" /\ inner' = E!Compare(inner)
  <2>1. PICK b \in BOOLEAN : b = (inner.clean /\ release = inner.before)
    OBVIOUS
  <2>2. PICK c \in Collecting : c = [inner EXCEPT !.at = "done", !.after = release, !.clean = b] /\ inner' = c
    BY <1>1, <1>4, <1>6, <2>1 DEF Collecting, E!Compare
  <2>3. c.at = "done" /\ c.before = inner.before /\ c.after = release /\ c.clean = b /\ c.exit = None
    BY <1>1, <2>2 DEF Collecting
  <2>4. SeenPinned(c)
    BY <1>1, <1>6, <2>1, <2>3, CaptureNumbers DEF SeenPinned
  <2>. QED
    BY <1>2, <1>3, <2>2, <2>3, <2>4, InnerCollectorMoves
<1>7. CASE inner.at = "done" /\ inner' = [inner EXCEPT !.at = "gone", !.exit = IF inner.clean THEN 0 ELSE 2]
  <2>1. PICK e \in {0, 2} : e = IF inner.clean THEN 0 ELSE 2
    OBVIOUS
  <2>2. PICK c \in Collecting : c = [inner EXCEPT !.at = "gone", !.exit = e] /\ inner' = c
    BY <1>1, <1>7, <2>1 DEF Collecting, Exits
  <2>3. c.at = "gone" /\ c.before = inner.before /\ c.after = inner.after /\ c.clean = inner.clean /\ c.exit = e
    BY <1>1, <2>2 DEF Collecting
  <2>4. SeenPinned(c)
    BY <1>1, <1>7, <2>1, <2>3, CaptureNumbers DEF SeenPinned
  <2>. QED
    BY <1>2, <1>3, <2>2, <2>3, <2>4, InnerCollectorMoves
<1>. QED
  BY <1>5, <1>6, <1>7 DEF E!InnerReads, E!InnerCompares, E!InnerEnds

LEMMA ChildDiesSound ==
    ASSUME E!CaptureConstants, CaptureInv, E!ChildDies PROVE CaptureInv'
<1>1. /\ host \in Collecting /\ SeenPinned(host) /\ inner \in Collecting /\ SeenPinned(inner) /\ ProtocolTyped
      /\ Len(told) <= Written(host.at)
  BY DEF CaptureInv, ProtocolTyped
<1>2. UNCHANGED <<release, broken, lock, replaced, worker, changes, now, timer, scope, parent, told, finish, wrote,
                  disk, writing, overlap>>
  BY DEF E!ChildDies, E!outside, E!record
<1>3. CASE E!Alive(host) /\ host' = E!Killed(host) /\ inner' = inner
  BY <1>1, <1>2, <1>3, KilledCollectorSound, HostCollectorMoves DEF Written, ProtocolTyped, Collecting
<1>4. CASE E!Alive(inner) /\ inner' = E!Killed(inner) /\ host' = host
  BY <1>1, <1>2, <1>4, KilledCollectorSound, InnerCollectorMoves
<1>. QED
  BY <1>3, <1>4 DEF E!ChildDies

-----------------------------------------------------------------------------
\* Evidence.
LEMMA WritingNames ==
    /\ Len(E!Writing) = 9
    /\ E!Writing[1] = "streams" /\ E!Writing[2] = "summary" /\ E!Writing[3] = "sync" /\ E!Writing[4] = "pending"
    /\ E!Writing[5] = "sync" /\ E!Writing[6] = "complete" /\ E!Writing[7] = "sync" /\ E!Writing[8] = "unlink"
    /\ E!Writing[9] = "sync"
BY DEF E!Writing

LEMMA WriteEvidenceSound ==
    ASSUME E!CaptureConstants, CaptureInv, E!WriteEvidence PROVE CaptureInv'
<1>1. /\ parent.at = "write" /\ parent \in Parents /\ HostTyped /\ ProtocolTyped /\ PlaceHolds(parent) /\ Covered
      /\ RecordHolds
  BY DEF E!WriteEvidence, CaptureInv, ProtocolTyped
<1>2. UNCHANGED <<release, broken, lock, replaced, worker, changes, now, timer, scope, host, inner, told, finish, overlap>>
  BY DEF E!WriteEvidence, E!outside, E!children
<1>3. PICK n \in 0 .. 8 : writing = n /\ writing' = n + 1
  BY <1>1, WritingNames DEF E!WriteEvidence, RecordHolds
<1>4. PICK name : name = E!Writing[n + 1]
  OBVIOUS
<1>5. /\ wrote' = IF name = "sync" THEN wrote ELSE IF name = "unlink" THEN wrote \ {"pending"} ELSE wrote \cup {name}
      /\ disk' = IF name = "sync" THEN wrote ELSE disk
  BY <1>3, <1>4 DEF E!WriteEvidence
<1>6. RecordHolds'
  <2>1. CASE n = 0
    <3>1. writing = 0 /\ writing' = 1 /\ name = "streams"
      BY <1>3, <1>4, <2>1, WritingNames
    <3>2. wrote' = wrote \cup {"streams"} /\ disk' = disk
      BY <1>5, <3>1
    <3>. QED
      BY <1>1, <3>1, <3>2 DEF RecordHolds, E!Files
  <2>2. CASE n = 1
    <3>1. writing = 1 /\ writing' = 2 /\ name = "summary"
      BY <1>3, <1>4, <2>2, WritingNames
    <3>2. wrote' = wrote \cup {"summary"} /\ disk' = disk
      BY <1>5, <3>1
    <3>. QED
      BY <1>1, <3>1, <3>2 DEF RecordHolds, E!Files
  <2>3. CASE n = 2
    BY <1>1, <1>3, <1>4, <1>5, <2>3, WritingNames DEF RecordHolds, E!Files
  <2>4. CASE n = 3
    <3>1. writing = 3 /\ writing' = 4 /\ name = "pending"
      BY <1>3, <1>4, <2>4, WritingNames
    <3>2. wrote' = wrote \cup {"pending"} /\ disk' = disk
      BY <1>5, <3>1
    <3>. QED
      BY <1>1, <3>1, <3>2 DEF RecordHolds, E!Files
  <2>5. CASE n = 4
    BY <1>1, <1>3, <1>4, <1>5, <2>5, WritingNames DEF RecordHolds, E!Files
  <2>6. CASE n = 5
    <3>1. writing = 5 /\ writing' = 6 /\ name = "complete"
      BY <1>3, <1>4, <2>6, WritingNames
    <3>2. wrote' = wrote \cup {"complete"} /\ disk' = disk
      BY <1>5, <3>1
    <3>. QED
      BY <1>1, <3>1, <3>2 DEF RecordHolds, E!Files
  <2>7. CASE n = 6
    BY <1>1, <1>3, <1>4, <1>5, <2>7, WritingNames DEF RecordHolds, E!Files
  <2>8. CASE n = 7
    BY <1>1, <1>3, <1>4, <1>5, <2>8, WritingNames DEF RecordHolds, E!Files
  <2>9. CASE n = 8
    BY <1>1, <1>3, <1>4, <1>5, <2>9, WritingNames DEF RecordHolds, E!Files
  <2>. QED
    BY <2>1, <2>2, <2>3, <2>4, <2>5, <2>6, <2>7, <2>8, <2>9
<1>7. PICK to \in {"write", "load"} : parent' = [parent EXCEPT !.at = to] /\ (to = "load" => n = 8)
  BY <1>1, <1>3, WritingNames DEF Parents, E!WriteEvidence, E!At
<1>8. [parent EXCEPT !.at = to] \in Parents
  BY <1>1 DEF ParentPlaces, Parents
<1>9. PICK p \in Parents : p = [parent EXCEPT !.at = to] /\ parent' = p
  BY <1>7, <1>8
<1>10. p.at = to /\ p.checks = parent.checks
  BY <1>1, <1>9 DEF Parents
<1>11. PlaceHolds(p)'
  BY <1>1, <1>2, <1>3, <1>7, <1>10 DEF PlaceHolds, Admitting
<1>12. PlaceHolds(parent)'
  BY <1>9, <1>11
<1>13. HostTyped' /\ ProtocolTyped' /\ Covered'
  BY <1>1, <1>2, <1>9 DEF HostTyped, ProtocolTyped, Covered, Collectors, E!Alive, E!Holding
<1>14. SeenPinned(host)' /\ SeenPinned(inner)' /\ (Len(told) <= Written(host.at))'
  BY <1>2 DEF CaptureInv, SeenPinned, Written
<1>. QED
  BY <1>6, <1>12, <1>13, <1>14 DEF CaptureInv

LEMMA WriteFailsSound ==
    ASSUME E!CaptureConstants, CaptureInv, E!WriteFails PROVE CaptureInv'
BY Ends DEF E!WriteFails, E!Stops, E!outside, E!children, E!record, E!At

\* A result is accepted: the exits of both collectors, then the locks as they are once more.
LEMMA AcceptSound ==
    ASSUME E!CaptureConstants, CaptureInv, E!Load \/ E!Finalize PROVE CaptureInv'
<1>1. /\ parent.at \in {"load", "finalize"} /\ parent \in Parents /\ PlaceHolds(parent) /\ Covered
      /\ SeenPinned(host) /\ SeenPinned(inner)
  BY DEF E!Load, E!Finalize, CaptureInv, ProtocolTyped
<1>2. UNCHANGED <<release, broken, lock, replaced, worker, changes, now, timer, scope, host, inner, told, finish,
                  wrote, disk, writing, overlap>>
  BY DEF E!Load, E!Finalize, E!outside, E!children, E!record
<1>3. CASE parent' = [parent EXCEPT !.at = "leave"]
  BY <1>2, <1>3, Ends
<1>4. ASSUME NEW to \in {"finalize", "provisional"}, parent' = [parent EXCEPT !.at = to],
             host.exit = 0, inner.exit = 0, to = "provisional" => ~overlap
      PROVE  CaptureInv'
  <2>1. [parent EXCEPT !.at = to] \in Parents
    BY <1>1 DEF ParentPlaces, Parents
  <2>2. PICK p \in Parents : p = [parent EXCEPT !.at = to] /\ parent' = p
    BY <1>4, <2>1
  <2>3. p.at = to /\ p.checks = parent.checks
    BY <1>1, <2>2 DEF Parents
  <2>4. PlaceHolds(p)
    BY <1>1, <1>4, <2>3 DEF PlaceHolds, Admitting
  <2>. QED
    BY <1>2, <2>2, <2>4, ParentMoves
<1>5. CASE E!Load
  BY <1>3, <1>4, <1>5 DEF E!Load, E!At, E!SnapshotAgrees
<1>6. CASE E!Finalize
  <2>1. CASE E!QueryFails
    BY <1>3, <2>1 DEF E!QueryFails, E!At
  <2>2. CASE E!LocksPinned /\ parent' = [parent EXCEPT !.at = "provisional"]
    BY <1>1, <1>4, <1>6, <2>2 DEF Covered, E!LocksPinned, PlaceHolds, E!Finalize
  <2>. QED
    BY <1>6, <2>1, <2>2 DEF E!Finalize, E!At
<1>. QED
  BY <1>5, <1>6

-----------------------------------------------------------------------------
\* The host.
LEMMA HostChanges ==
    ASSUME E!CaptureConstants, CaptureInv,
           E!Change \/ E!Tick \/ \E f \in Drifting : E!Drift(f)
    PROVE  CaptureInv'
<1>1. HostTyped /\ Covered
  BY DEF CaptureInv
<1>2. UNCHANGED <<lock, worker, timer, scope, parent, host, inner, told, finish, wrote, disk, writing, overlap>>
  BY DEF E!Change, E!Tick, E!Drift, E!children, E!record
<1>3. HostTyped'
  BY <1>1, <1>2, CaptureNumbers DEF E!Change, HostTyped, E!Tick, E!Drift
<1>4. replaced \subseteq replaced'
  BY DEF E!Change, E!Tick, E!Drift
<1>5. Covered'
  BY <1>1, <1>2, <1>4 DEF Covered, Collectors, E!Alive, E!Holding
<1>6. ProtocolTyped' /\ RecordHolds' /\ PlaceHolds(parent)'
  BY <1>2 DEF CaptureInv, ProtocolTyped, RecordHolds, PlaceHolds
<1>7. SeenPinned(host)' /\ SeenPinned(inner)' /\ (Len(told) <= Written(host.at))'
  BY <1>2 DEF CaptureInv, SeenPinned, Written
<1>. QED
  BY <1>3, <1>5, <1>6, <1>7 DEF CaptureInv

LEMMA WorkSound ==
    ASSUME E!CaptureConstants, CaptureInv, NEW w \in Workers, E!Work(w) \/ E!Rest(w) PROVE CaptureInv'
<1>1. HostTyped /\ ProtocolTyped /\ Covered /\ PlaceHolds(parent) /\ SeenPinned(host) /\ SeenPinned(inner)
  BY DEF CaptureInv
<1>2. UNCHANGED <<release, broken, replaced, changes, now, timer, scope, parent, host, inner, told, finish, wrote, disk,
                  writing>>
  BY DEF E!Work, E!Rest, E!outside, E!children, E!record
<1>3. /\ lock' = lock \/ (lock[w] = None /\ lock' = [lock EXCEPT ![w] = "worker"])
                      \/ (lock[w] = "worker" /\ lock' = [lock EXCEPT ![w] = None])
      /\ \E b \in BOOLEAN : worker' = [worker EXCEPT ![w] = b]
  BY DEF E!Work, E!Rest
<1>4. HostTyped'
  BY <1>1, <1>2, <1>3 DEF HostTyped
<1>5. E!Holding => E!Holding'
  BY <1>3, CaptureNumbers DEF E!Holding
<1>6. (overlap' => replaced # {}) /\ overlap' \in BOOLEAN /\ (parent.at = "provisional" => ~overlap')
  <2>1. parent.at = "provisional" => ~Collectors /\ ~overlap
    BY <1>1, CaptureNumbers DEF PlaceHolds, SeenPinned, Collectors, E!Alive
  <2>2. CASE E!Work(w)
    BY <1>1, <2>1, <2>2, CaptureNumbers DEF E!Work, Collectors, Covered, E!Holding, ProtocolTyped
  <2>3. CASE E!Rest(w)
    BY <1>1, <2>1, <2>3 DEF E!Rest, Covered, ProtocolTyped
  <2>. QED
    BY <2>2, <2>3
<1>7. PlaceHolds(parent)'
  BY <1>1, <1>2, <1>6 DEF PlaceHolds
<1>8. Covered'
  BY <1>1, <1>2, <1>5, <1>6 DEF Covered, Collectors, E!Alive
<1>9. ProtocolTyped' /\ RecordHolds'
  BY <1>1, <1>2, <1>6 DEF CaptureInv, ProtocolTyped, RecordHolds
<1>10. SeenPinned(host)' /\ SeenPinned(inner)' /\ (Len(told) <= Written(host.at))'
  BY <1>2 DEF CaptureInv, SeenPinned, Written
<1>. QED
  BY <1>4, <1>7, <1>8, <1>9, <1>10 DEF CaptureInv

LEMMA CaptureStep ==
    ASSUME E!CaptureConstants, CaptureInv, [E!Next]_E!vars PROVE CaptureInv'
<1>1. CASE UNCHANGED E!vars
  <2>1. HostTyped' /\ ProtocolTyped' /\ RecordHolds' /\ PlaceHolds(parent)'
    BY <1>1 DEF E!vars, CaptureInv, HostTyped, ProtocolTyped, RecordHolds, PlaceHolds
  <2>2. Covered' /\ SeenPinned(host)' /\ SeenPinned(inner)' /\ (Len(told) <= Written(host.at))'
    BY <1>1 DEF E!vars, CaptureInv, Covered, Collectors, E!Alive, E!Holding, SeenPinned, Written
  <2>. QED
    BY <2>1, <2>2 DEF CaptureInv
<1>2. CASE E!Capture
  <2>1. ASSUME NEW w \in Workers, E!Lock(w) PROVE CaptureInv'
    BY <2>1, LockSound
  <2>2. E!EnterFails \/ E!Leave => CaptureInv'
    BY EnterFailsSound, LeaveScopeSound
  <2>3. E!FirstCheck \/ E!SecondCheck \/ E!Verify => CaptureInv'
    BY CheckSound, VerifyReleaseSound
  <2>4. E!SpawnHost \/ E!Deadline \/ E!ReadHost \/ E!Finish \/ E!HostExits \/ E!Stop => CaptureInv'
    BY SpawnHostSound, DeadlineSound, ReadHostSound, FinishSound, HostExitsSound, StopCollectorsSound
  <2>5. E!WriteEvidence \/ E!WriteFails \/ E!Load \/ E!Finalize => CaptureInv'
    BY WriteEvidenceSound, WriteFailsSound, AcceptSound
  <2>. QED
    BY <1>2, <2>1, <2>2, <2>3, <2>4, <2>5 DEF E!Capture
<1>3. CASE E!Collectors
  BY <1>3, HostCollects, InnerCollects, ChildDiesSound DEF E!Collectors
<1>4. CASE E!ScopeKill
  BY <1>4, ScopeKillSound
<1>5. CASE E!Change \/ E!Tick \/ \E f \in Drifting : E!Drift(f)
  BY <1>5, HostChanges
<1>6. CASE \E w \in Workers : E!Work(w) \/ E!Rest(w)
  BY <1>6, WorkSound
<1>. QED
  BY <1>1, <1>2, <1>3, <1>4, <1>5, <1>6 DEF E!Next

LEMMA CaptureIsSafe ==
    ASSUME E!CaptureConstants, CaptureInv
    PROVE  /\ E!TypeOK /\ E!BracketIsTight /\ E!ResultIsExclusive /\ E!LocksCoverCollectors /\ E!ProductionClear
           /\ E!MarkerIsDurable
<1>1. /\ HostTyped /\ ProtocolTyped /\ PlaceHolds(parent) /\ Covered /\ SeenPinned(host) /\ SeenPinned(inner) /\ RecordHolds
      /\ Len(told) <= Written(host.at)
  BY DEF CaptureInv
<1>2. E!TypeOK
  <2>1. Len(told) <= 3
    BY <1>1 DEF ProtocolTyped, Written
  <2>2. parent.at \in ParentPlaces /\ parent.checks \in 0 .. 4 /\ parent.outcome \in {"BLOCKED", "PROTOCOL_COMPLETE"}
    BY <1>1 DEF ProtocolTyped, Parents
  <2>3. \A c \in {host, inner} : /\ c.at \in {"none", "reading", "held", "after", "done", "gone"}
                                 /\ {c.before, c.after} \subseteq E!Versions \cup {None} /\ c.clean \in BOOLEAN
                                 /\ c.exit \in {None, 0, 2, 9}
    BY <1>1 DEF ProtocolTyped, Collecting, Seen, Exits, E!Versions
  <2>4. parent.at = "provisional" => writing = Len(E!Writing) /\ parent.checks >= 4
    BY <1>1, <2>2, WritingNames DEF PlaceHolds
  <2>5. writing \in 0 .. Len(E!Writing)
    BY <1>1, WritingNames DEF RecordHolds
  <2>. QED
    BY <1>1, <2>1, <2>2, <2>3, <2>4, <2>5
    DEF HostTyped, ProtocolTyped, RecordHolds, ParentPlaces, Admitting, E!TypeOK, E!Versions
<1>3. E!BracketIsTight
  BY <1>1 DEF PlaceHolds, SeenPinned, E!BracketIsTight
<1>4. E!ResultIsExclusive
  BY <1>1 DEF PlaceHolds, E!ResultIsExclusive
<1>5. E!LocksCoverCollectors
  BY <1>1 DEF Covered, Collectors, E!LocksCoverCollectors
<1>6. E!ProductionClear
  BY <1>1, CaptureNumbers DEF Covered, HostTyped, Collectors, E!ProductionClear
<1>7. E!MarkerIsDurable
  BY <1>1 DEF E!Verifies, E!Files, RecordHolds, E!Images, E!MarkerIsDurable
<1>. QED
  BY <1>2, <1>3, <1>4, <1>5, <1>6, <1>7

\* For every duration of the scope, every margin and timer, whatever changes the release or a lock file and whichever
\* collector dies: a result means that both collectors saw the pinned release and no worker ran beside them, no lock is
\* free while a collector lives, production stays clear, and a record that verifies survives a power loss
\* (capture_once.py, admission.py, controller.py, evidence.py).
THEOREM CaptureSafety ==
    ASSUME E!CaptureConstants
    PROVE  E!Spec => [](/\ E!TypeOK /\ E!BracketIsTight /\ E!ResultIsExclusive /\ E!LocksCoverCollectors
                        /\ E!ProductionClear /\ E!MarkerIsDurable)
<1>1. E!Init => CaptureInv
  BY CaptureStarts
<1>2. CaptureInv /\ [E!Next]_E!vars => CaptureInv'
  BY CaptureStep
<1>3. CaptureInv => (/\ E!TypeOK /\ E!BracketIsTight /\ E!ResultIsExclusive /\ E!LocksCoverCollectors
                     /\ E!ProductionClear /\ E!MarkerIsDurable)
  BY CaptureIsSafe
<1>. QED
  BY <1>1, <1>2, <1>3, PTL DEF E!Spec

-----------------------------------------------------------------------------
(* The bridge between a conversation and a worker (WorkerBridge).          *)

CONSTANTS
    Comments, Jobs, JobOf, Expires, Day, Horizon, MaxMoves

VARIABLES
    main, mirror, thread, comments, receipts, poll, publications, posts, launched, at, sent, lastRead, withdrawn

B == INSTANCE WorkerBridge WITH evidence <- launched

Posted == [base: 0 .. MaxMoves, edited: BOOLEAN]
Withdrawals == [receipted: BOOLEAN, committed: BOOLEAN]
Requested == {"branch", "commit", "draft"}
Values == {None, 1, 2, 3} \cup B!Outcomes
Modes == {"idle", "read", "reserve", "reread", "launch", "running", "record", "mark", "send", "publish", "post", "posted"}
Invocations == [step: Modes, comment: Comments \cup {None}, job: Jobs \cup {None}, write: Values]

ConversationTyped ==
    /\ now \in 1 .. Horizon /\ main \in 0 .. MaxMoves /\ mirror \in 0 .. main
    /\ thread \in Seq(Comments) /\ comments \in [Comments -> Posted \cup {None}]
    /\ withdrawn \in [Comments -> Withdrawals \cup {None}]
    /\ \A i \in DOMAIN thread : comments[thread[i]] # None
    /\ \A c \in Comments : withdrawn[c] # None <=> comments[c] # None /\ comments[c].edited
TablesTyped ==
    /\ receipts \in Seq(B!Row)
    /\ \A i, k \in DOMAIN receipts : receipts[i].job = receipts[k].job => i = k
    /\ poll \in [next: Nat, failures: 0 .. 2]
    /\ publications \in [Jobs -> {None, 1, 2, 3, 4}]
    /\ posts \in [Jobs \X B!Outcomes -> {"none", "pending", "posted"}]
    /\ launched \in [Jobs -> B!Terminal \cup {None, "claimed"}]
    /\ sent \in [B!Requests -> Nat]
    /\ at \in Invocations

\* Once it has asked, dispatch does not ask again before its poll is due or time has passed.
PollHolds == lastRead \in Nat /\ lastRead <= now /\ (poll.next <= lastRead => lastRead < now)

\* What a receipt says of its job, and that its comment was not edited before the steps that look at it.
RowHolds(r) ==
    /\ r.job = JobOf[r.comment]
    /\ r.status \in B!Terminal => launched[r.job] = r.status
    /\ r.status = "reserved" => launched[r.job] = None
    /\ r.status # "reserved" => withdrawn[r.comment] = None \/ withdrawn[r.comment].receipted
    /\ publications[r.job] \in {3, 4} => withdrawn[r.comment] = None \/ withdrawn[r.comment].committed

\* What was sent for a job by the write that is marked: everything before it, and itself at most once.
JobHolds(j) ==
    /\ launched[j] # None \/ publications[j] # None => B!Receipted(j)
    /\ \A w \in Requested : sent[<<j, w>>] <= 1
    /\ publications[j] = None => sent[<<j, "branch">>] = 0
    /\ publications[j] \in {None, 1} => sent[<<j, "commit">>] = 0
    /\ publications[j] \in {None, 1, 2} => sent[<<j, "draft">>] = 0
    /\ publications[j] \in {2, 3, 4} => sent[<<j, "branch">>] = 1
    /\ publications[j] \in {3, 4} => sent[<<j, "commit">>] = 1
    /\ publications[j] = 4 => sent[<<j, "draft">>] = 1

\* What the conversation was told, or is being told, about a job.
PostHolds(j, o) ==
    /\ sent[<<j, o>>] <= 1
    /\ posts[<<j, o>>] = "none" => sent[<<j, o>>] = 0
    /\ posts[<<j, o>>] # "none" =>
          /\ o = "published" => publications[j] = 4
          /\ o = "awaiting" => launched[j] = "completed"
          /\ o = "failed" => launched[j] = "failed"

\* The receipt an invocation is about, and how far it is by its step.
Has(a, status) == \E i \in DOMAIN receipts : /\ receipts[i].job = a.job /\ receipts[i].comment = a.comment
                                             /\ receipts[i].status = status
Marked(a) == IF a.write = 1 THEN None ELSE IF a.write = 2 THEN 1 ELSE 2
InvocationHolds(a) ==
    /\ a.step = "reserve" =>
          a.comment \in Comments /\ a.job = JobOf[a.comment] /\ comments[a.comment] # None /\ ~B!Receipted(a.job)
    /\ a.step = "reread" => Has(a, "reserved")
    /\ a.step \in {"launch", "running", "record"} => Has(a, "launching")
    /\ a.step = "running" => launched[a.job] = "claimed"
    /\ a.step = "record" => launched[a.job] \in B!Terminal
    /\ a.step \in {"mark", "send", "publish"} => Has(a, "completed") /\ a.write \in {1, 2, 3}
    /\ a.step = "mark" => /\ publications[a.job] = Marked(a)
                          /\ a.write = 2 => sent[<<a.job, "branch">>] = 1
                          /\ a.write = 3 => sent[<<a.job, "commit">>] = 1
    /\ a.step = "send" => publications[a.job] = a.write /\ sent[<<a.job, B!Writes[a.write]>>] = 0
    /\ a.step = "publish" => publications[a.job] = 3 /\ sent[<<a.job, "draft">>] = 1
    /\ a.step \in {"post", "posted"} => a.job \in Jobs /\ a.write \in B!Outcomes /\ posts[<<a.job, a.write>>] = "pending"
    /\ a.step = "post" => sent[<<a.job, a.write>>] = 0

\* The inductive invariant of the bridge: what its tables say, and what its invocation may rely on.
TablesHold ==
    /\ ConversationTyped /\ TablesTyped /\ PollHolds
    /\ \A i \in DOMAIN receipts : RowHolds(receipts[i])
    /\ \A j \in Jobs : JobHolds(j)
    /\ \A j \in Jobs, o \in B!Outcomes : PostHolds(j, o)
BridgeInv == TablesHold /\ InvocationHolds(at)

LEMMA BridgeNumbers ==
    ASSUME B!BridgeConstants
    PROVE  /\ JobOf \in [Comments -> Jobs] /\ Expires \in [Comments -> Nat] /\ Day \in Nat /\ Horizon \in Nat
           /\ Horizon >= 1 /\ MaxMoves \in Nat /\ None \notin Comments /\ None \notin Jobs /\ None \notin Nat
           /\ None # "completed" /\ None # "failed" /\ None # "claimed"
           /\ None \notin Withdrawals /\ None \notin Posted
BY DEF B!BridgeConstants, Withdrawals, Posted

LEMMA WritesNamed ==
    /\ Len(B!Writes) = 3 /\ B!Published = 4
    /\ B!Writes[1] = "branch" /\ B!Writes[2] = "commit" /\ B!Writes[3] = "draft"
    /\ B!Range(B!Writes) = Requested
    /\ \A w \in Requested : w \notin B!Outcomes
    /\ \A j \in Jobs : /\ \A w \in Requested : <<j, w>> \in B!Requests
                       /\ \A o \in B!Outcomes : <<j, o>> \in B!Requests
BY DEF B!Writes, B!Range, Requested, B!Published, B!Requests, B!Outcomes

LEMMA Least ==
    ASSUME NEW T \in SUBSET Nat, T # {}
    PROVE  B!Min(T) \in T
<1> DEFINE Less == {p \in Nat \X Nat : p[1] < p[2]}
<1>1. IsWellFoundedOn(Less, Nat)
  BY NatLessThanWellFounded, Zenon DEF OpToRel
<1>2. PICK x \in T : \A y \in T : <<y, x>> \notin Less
  BY <1>1, WFMin
<1>3. \A y \in T : <<y, x>> \in Less <=> y < x
  OBVIOUS
<1>4. \A y \in T : ~(y < x) /\ x \in Nat /\ y \in Nat
  BY <1>2, <1>3
<1>5. \A y \in T : x <= y
  BY <1>4
<1>. QED
  BY <1>5 DEF B!Min

LEMMA Rows ==
    ASSUME TablesTyped
    PROVE  /\ Len(receipts) \in Nat /\ DOMAIN receipts = 1 .. Len(receipts)
           /\ \A i \in DOMAIN receipts :
                /\ receipts[i] \in B!Row /\ receipts[i].job \in Jobs /\ receipts[i].comment \in Comments
                /\ receipts[i].status \in B!Terminal \cup {"reserved", "launching"} /\ receipts[i].base \in 0 .. MaxMoves
<1>1. receipts \in Seq(B!Row)
  BY DEF TablesTyped
<1>2. Len(receipts) \in Nat /\ DOMAIN receipts = 1 .. Len(receipts) /\ \A i \in DOMAIN receipts : receipts[i] \in B!Row
  BY <1>1
<1>3. \A r \in B!Row : /\ r.job \in Jobs /\ r.comment \in Comments /\ r.base \in 0 .. MaxMoves
                       /\ r.status \in B!Terminal \cup {"reserved", "launching"}
  BY DEF B!Row
<1>. QED
  BY <1>2, <1>3

\* The rows hold in the next state when each of them does.
LEMMA RowsStay ==
    ASSUME TablesTyped, UNCHANGED receipts,
           \A i \in DOMAIN receipts, x \in B!Row : x = receipts[i] => RowHolds(x)'
    PROVE  (\A i \in DOMAIN receipts : RowHolds(receipts[i]))'
BY Rows DEF RowHolds

LEMMA BridgeStarts ==
    ASSUME B!BridgeConstants, B!Init PROVE BridgeInv
<1>1. ConversationTyped
  BY BridgeNumbers DEF B!Init, ConversationTyped
<1>2. receipts \in Seq(B!Row) /\ DOMAIN receipts = {}
  BY DEF B!Init
<1>3. at \in Invocations /\ at.step = "idle"
  BY DEF B!Init, B!Idle, Invocations, Modes, Values
<1>4. TablesTyped
  BY <1>2, <1>3 DEF B!Init, TablesTyped
<1>5. PollHolds
  BY DEF B!Init, PollHolds
<1>6. \A r \in B!Requests : sent[r] = 0
  BY DEF B!Init
<1>7. \A j \in Jobs : JobHolds(j)
  <2>1. ASSUME NEW j \in Jobs PROVE JobHolds(j)
    BY <1>6, WritesNamed, BridgeNumbers DEF B!Init, Requested, JobHolds
  <2>. QED
    BY <2>1
<1>8. \A j \in Jobs, o \in B!Outcomes : PostHolds(j, o)
  <2>1. ASSUME NEW j \in Jobs, NEW o \in B!Outcomes PROVE PostHolds(j, o)
    BY <1>6, WritesNamed DEF B!Init, PostHolds
  <2>. QED
    BY <2>1
<1>9. InvocationHolds(at)
  BY <1>3 DEF InvocationHolds
<1>. QED
  BY <1>1, <1>2, <1>4, <1>5, <1>7, <1>8, <1>9 DEF BridgeInv, TablesHold

\* What the first of the rows or comments in question is.
LEMMA FirstComment ==
    ASSUME ConversationTyped, B!Eligible # {}
    PROVE  LET c == thread[B!Min(B!Eligible)] IN c \in Comments /\ comments[c] # None /\ B!Valid(c) /\ ~B!Collides(c)
<1>1. DOMAIN thread \subseteq Nat /\ \A i \in DOMAIN thread : thread[i] \in Comments
  BY DEF ConversationTyped
<1>2. B!Eligible \in SUBSET Nat
  BY <1>1 DEF B!Eligible
<1>3. B!Min(B!Eligible) \in B!Eligible
  BY <1>2, Least
<1>. QED
  BY <1>1, <1>3 DEF B!Eligible, ConversationTyped

LEMMA FirstRow ==
    ASSUME TablesTyped, NEW I \in SUBSET DOMAIN receipts, I # {}
    PROVE  B!Min(I) \in I /\ receipts[B!Min(I)] \in B!Row
BY Rows, Least

\* An invocation goes on, or another begins; the tables and what was sent stay.
LEMMA InvocationMoves ==
    ASSUME BridgeInv, NEW a \in Invocations, at' = a, InvocationHolds(a),
           poll' \in [next: Nat, failures: 0 .. 2], PollHolds',
           UNCHANGED <<now, main, mirror, thread, comments, receipts, publications, posts, launched, sent, withdrawn>>
    PROVE  BridgeInv'
<1>1. ConversationTyped' /\ TablesTyped'
  BY DEF BridgeInv, TablesHold, ConversationTyped, TablesTyped
<1>2. \A i \in DOMAIN receipts : RowHolds(receipts[i])'
  BY DEF BridgeInv, TablesHold, RowHolds
<1>3. (\A i \in DOMAIN receipts : RowHolds(receipts[i]))'
  BY <1>2
<1>4. \A j \in Jobs : JobHolds(j)'
  BY DEF BridgeInv, TablesHold, JobHolds, B!Receipted
<1>5. \A j \in Jobs, o \in B!Outcomes : PostHolds(j, o)'
  BY DEF BridgeInv, TablesHold, PostHolds
<1>6. InvocationHolds(a)'
  BY DEF InvocationHolds, Has, Marked, B!Receipted
<1>7. InvocationHolds(at)'
  BY <1>6
<1>. QED
  BY <1>1, <1>3, <1>4, <1>5, <1>7 DEF BridgeInv, TablesHold

\* The delay after an invocation of dispatch keeps the polls apart.
LEMMA DelayHolds ==
    ASSUME B!BridgeConstants, BridgeInv, NEW b \in BOOLEAN, B!EndDispatch(b), UNCHANGED <<now, lastRead>>
    PROVE  poll' \in [next: Nat, failures: 0 .. 2] /\ PollHolds' /\ at' = B!Idle
<1>1. now \in Nat /\ poll \in [next: Nat, failures: 0 .. 2] /\ lastRead \in Nat /\ lastRead <= now
  BY BridgeNumbers DEF BridgeInv, TablesHold, ConversationTyped, TablesTyped, PollHolds
<1>2. poll.failures \in 0 .. 2
  BY <1>1
<1>3. PICK f \in 0 .. 2 : f = IF b THEN (IF poll.failures = 2 THEN 2 ELSE poll.failures + 1) ELSE 0
  BY <1>2
<1>4. poll' = [next |-> now + B!Pow2(f), failures |-> f] /\ at' = B!Idle
  BY <1>3 DEF B!EndDispatch
<1>5. B!Pow2(f) \in {1, 2, 4}
  BY DEF B!Pow2
<1>6. now + B!Pow2(f) \in Nat /\ now + B!Pow2(f) > lastRead
  BY <1>1, <1>5
<1>7. poll' \in [next: Nat, failures: 0 .. 2] /\ poll'.next > lastRead /\ poll'.next \in Nat
  BY <1>4, <1>6
<1>8. PollHolds'
  BY <1>1, <1>7 DEF PollHolds
<1>. QED
  BY <1>4, <1>7, <1>8

LEMMA IdleHolds == B!Idle \in Invocations /\ InvocationHolds(B!Idle) /\ B!Idle.step = "idle"
BY DEF B!Idle, Invocations, Modes, Values, InvocationHolds

LEMMA PollSound ==
    ASSUME B!BridgeConstants, BridgeInv, B!Poll PROVE BridgeInv'
<1>1. now \in Nat /\ poll \in [next: Nat, failures: 0 .. 2]
  BY BridgeNumbers DEF BridgeInv, TablesHold, ConversationTyped, TablesTyped
<1>2. UNCHANGED <<now, main, mirror, thread, comments, receipts, publications, posts, launched, sent, withdrawn>>
  BY DEF B!Poll, B!World
<1>3. PICK a \in Invocations : a = [B!Idle EXCEPT !.step = "read"] /\ at' = a
  BY DEF B!Poll, B!Idle, Invocations, Modes, Values
<1>4. a.step = "read"
  BY <1>3 DEF B!Idle
<1>5. InvocationHolds(a)
  BY <1>4 DEF InvocationHolds
<1>6. poll' = [poll EXCEPT !.next = now + 1] /\ lastRead' = now
  BY DEF B!Poll
<1>7. poll' \in [next: Nat, failures: 0 .. 2] /\ poll'.next = now + 1
  BY <1>1, <1>6
<1>8. PollHolds'
  BY <1>1, <1>2, <1>6, <1>7 DEF PollHolds
<1>. QED
  BY <1>2, <1>3, <1>5, <1>7, <1>8, InvocationMoves

LEMMA ReadCommentsSound ==
    ASSUME B!BridgeConstants, BridgeInv, B!ReadComments PROVE BridgeInv'
<1>1. UNCHANGED <<now, main, mirror, thread, comments, receipts, publications, posts, launched, sent, withdrawn, lastRead>>
  BY DEF B!ReadComments, B!World
<1>2. ConversationTyped /\ TablesTyped /\ PollHolds
  BY DEF BridgeInv, TablesHold
<1>3. CASE B!Eligible = {}
  BY <1>1, <1>3, DelayHolds, IdleHolds, InvocationMoves DEF B!ReadComments
<1>4. CASE B!Eligible # {}
  <2>1. PICK c \in Comments : c = thread[B!Min(B!Eligible)] /\ comments[c] # None /\ B!Valid(c) /\ ~B!Collides(c)
    BY <1>2, <1>4, FirstComment
  <2>2. PICK j \in Jobs : j = JobOf[c]
    BY BridgeNumbers
  <2>3. at' = [B!Idle EXCEPT !.step = "reserve", !.comment = c, !.job = j] /\ poll' = poll
    BY <1>4, <2>1, <2>2 DEF B!ReadComments
  <2>4. PICK a \in Invocations : a = [B!Idle EXCEPT !.step = "reserve", !.comment = c, !.job = j] /\ at' = a
    BY <2>3 DEF B!Idle, Invocations, Modes, Values
  <2>5. a.step = "reserve" /\ a.comment = c /\ a.job = j
    BY <2>4 DEF B!Idle
  <2>6. ~B!Receipted(j)
    BY <2>1, <2>2 DEF B!Collides, B!Receipted
  <2>7. InvocationHolds(a)
    BY <2>1, <2>2, <2>5, <2>6 DEF InvocationHolds
  <2>8. PollHolds' /\ poll' \in [next: Nat, failures: 0 .. 2]
    BY <1>1, <1>2, <2>3 DEF PollHolds, TablesTyped
  <2>. QED
    BY <1>1, <2>4, <2>7, <2>8, InvocationMoves
<1>. QED
  BY <1>3, <1>4

LEMMA ReserveSound ==
    ASSUME B!BridgeConstants, BridgeInv, B!Reserve PROVE BridgeInv'
<1>1. /\ ConversationTyped /\ TablesTyped /\ PollHolds /\ InvocationHolds(at) /\ at \in Invocations /\ at.step = "reserve"
      /\ \A i \in DOMAIN receipts : RowHolds(receipts[i])
      /\ \A j \in Jobs : JobHolds(j)
      /\ \A j \in Jobs, o \in B!Outcomes : PostHolds(j, o)
  BY DEF BridgeInv, TablesHold, B!Reserve, TablesTyped
<1>2. UNCHANGED <<now, main, mirror, thread, comments, withdrawn, poll, publications, posts, launched, sent, lastRead>>
  BY DEF B!Reserve, B!World
<1>3. PICK c \in Comments, j \in Jobs : c = at.comment /\ j = at.job /\ j = JobOf[c] /\ comments[c] # None /\ ~B!Receipted(j)
  BY <1>1, BridgeNumbers DEF InvocationHolds
<1>4. comments[c] \in Posted /\ comments[c].base \in 0 .. MaxMoves
  BY <1>1, <1>3 DEF ConversationTyped, Posted
<1>5. PICK r \in B!Row : r = [job |-> j, comment |-> c, base |-> comments[c].base, status |-> "reserved"]
  BY <1>4 DEF B!Row
<1>6. r.job = j /\ r.comment = c /\ r.status = "reserved"
  BY <1>5
<1>7. receipts' = Append(receipts, r)
  BY <1>3, <1>5 DEF B!Reserve
<1> DEFINE n == Len(receipts)
<1>8. n \in Nat /\ DOMAIN receipts = 1 .. n
  BY <1>1, Rows
<1>9. /\ receipts' \in Seq(B!Row) /\ DOMAIN receipts' = 1 .. (n + 1)
      /\ \A i \in 1 .. n : receipts'[i] = receipts[i]
      /\ receipts'[n + 1] = r
  BY <1>1, <1>7, <1>8 DEF TablesTyped
<1>10. \A i \in 1 .. n : receipts[i].job # j
  BY <1>3, <1>8 DEF B!Receipted
<1>11. \A i, k \in DOMAIN receipts' : receipts'[i].job = receipts'[k].job => i = k
  <2>1. \A i, k \in 1 .. n : receipts[i].job = receipts[k].job => i = k
    BY <1>1, <1>8 DEF TablesTyped
  <2>2. \A i \in 1 .. (n + 1) : i \in 1 .. n \/ i = n + 1
    BY <1>8
  <2>. QED
    BY <1>6, <1>9, <1>10, <2>1, <2>2
<1>12. PICK a \in Invocations : a = [at EXCEPT !.step = "reread"] /\ at' = a
  BY <1>1 DEF B!Reserve, B!Go, Invocations, Modes
<1>13. a.step = "reread" /\ a.job = j /\ a.comment = c
  BY <1>1, <1>3, <1>12 DEF Invocations
<1>14. ConversationTyped' /\ TablesTyped' /\ PollHolds'
  BY <1>1, <1>2, <1>9, <1>11, <1>12 DEF ConversationTyped, TablesTyped, PollHolds
<1>15. launched[j] = None /\ publications[j] = None
  BY <1>1, <1>3 DEF JobHolds
<1>16. \A x \in B!Row : RowHolds(x) => RowHolds(x)'
  BY <1>2 DEF RowHolds
<1>17. (\A i \in DOMAIN receipts : RowHolds(receipts[i]))'
  <2>1. SUFFICES ASSUME NEW i \in DOMAIN receipts' PROVE RowHolds(receipts[i])'
    OBVIOUS
  <2>2. PICK x \in B!Row : x = receipts'[i] /\ (x = r \/ (i \in DOMAIN receipts /\ x = receipts[i]))
    BY <1>1, <1>8, <1>9, Rows
  <2>3. RowHolds(r)'
    BY <1>2, <1>3, <1>6, <1>15, BridgeNumbers DEF RowHolds, B!Terminal
  <2>4. RowHolds(x)'
    BY <1>1, <1>16, <2>2, <2>3
  <2>. QED
    BY <2>2, <2>4 DEF RowHolds
<1>18. \A x \in Jobs : B!Receipted(x) => B!Receipted(x)'
  BY <1>8, <1>9 DEF B!Receipted
<1>19. \A x \in Jobs : JobHolds(x)'
  BY <1>1, <1>2, <1>18 DEF JobHolds
<1>20. \A x \in Jobs, o \in B!Outcomes : PostHolds(x, o)'
  BY <1>1, <1>2 DEF PostHolds
<1>21. Has(a, "reserved")'
  BY <1>6, <1>8, <1>9, <1>13 DEF Has
<1>22. InvocationHolds(a)'
  BY <1>13, <1>21 DEF InvocationHolds
<1>23. InvocationHolds(at)'
  BY <1>12, <1>22
<1>. QED
  BY <1>14, <1>17, <1>19, <1>20, <1>23 DEF BridgeInv, TablesHold

LEMMA PrepareSound ==
    ASSUME B!BridgeConstants, BridgeInv, B!Prepare PROVE BridgeInv'
<1>1. UNCHANGED <<now, main, mirror, thread, comments, receipts, poll, publications, posts, launched, sent, withdrawn, lastRead>>
  BY DEF B!Prepare, B!World, B!Tables
<1>2. TablesTyped /\ PollHolds
  BY DEF BridgeInv, TablesHold
<1>3. B!Unpublished \in SUBSET DOMAIN receipts /\ B!Unpublished # {}
  BY DEF B!Prepare, B!Unpublished
<1>4. PICK i \in DOMAIN receipts, r \in B!Row : /\ i = B!Min(B!Unpublished) /\ r = receipts[i]
                                               /\ i \in B!Unpublished
  BY <1>2, <1>3, FirstRow
<1>5. r.job \in Jobs /\ r.comment \in Comments /\ r.status = "completed" /\ publications[r.job] = None
  BY <1>2, <1>4, Rows DEF B!Unpublished
<1>6. PICK a \in Invocations : a = [step |-> "mark", comment |-> r.comment, job |-> r.job, write |-> 1] /\ at' = a
  BY <1>4, <1>5 DEF B!Prepare, Modes, Values, Invocations
<1>7. a.step = "mark" /\ a.comment = r.comment /\ a.job = r.job /\ a.write = 1
  BY <1>6
<1>8. Has(a, "completed")
  BY <1>4, <1>5, <1>7 DEF Has
<1>9. InvocationHolds(a)
  BY <1>5, <1>7, <1>8 DEF InvocationHolds, Marked
<1>10. poll' \in [next: Nat, failures: 0 .. 2] /\ PollHolds'
  BY <1>1, <1>2 DEF PollHolds, TablesTyped
<1>. QED
  BY <1>1, <1>6, <1>9, <1>10, InvocationMoves

LEMMA DieSound ==
    ASSUME B!BridgeConstants, BridgeInv, B!Die PROVE BridgeInv'
BY DelayHolds, IdleHolds, InvocationMoves DEF B!Die, B!World, BridgeInv, TablesHold, PollHolds, TablesTyped

\* A launcher's evidence of a job that is being launched moves on.
LEMMA LaunchedMoves ==
    ASSUME BridgeInv, B!BridgeConstants, NEW j \in Jobs, NEW v \in B!Terminal \cup {"claimed"},
           launched' = [launched EXCEPT ![j] = v],
           (v = "claimed" /\ launched[j] = None) \/ (v \in B!Terminal /\ launched[j] = "claimed"),
           \E i \in DOMAIN receipts : receipts[i].job = j /\ receipts[i].status = "launching",
           at' \in Invocations,
           UNCHANGED <<now, main, mirror, thread, comments, receipts, poll, publications, posts, sent, withdrawn, lastRead>>
    PROVE  TablesHold'
<1>1. /\ ConversationTyped /\ TablesTyped /\ PollHolds
      /\ \A i \in DOMAIN receipts : RowHolds(receipts[i])
      /\ \A x \in Jobs : JobHolds(x)
      /\ \A x \in Jobs, o \in B!Outcomes : PostHolds(x, o)
  BY DEF BridgeInv, TablesHold
<1>2. PICK k \in DOMAIN receipts : receipts[k].job = j /\ receipts[k].status = "launching"
  OBVIOUS
<1>3. ConversationTyped' /\ PollHolds'
  BY <1>1 DEF ConversationTyped, PollHolds
<1>4. launched \in [Jobs -> B!Terminal \cup {None, "claimed"}]
  BY <1>1 DEF TablesTyped
<1>5. launched' \in [Jobs -> B!Terminal \cup {None, "claimed"}]
  BY <1>4
<1>6. launched'[j] = v /\ \A x \in Jobs : x # j => launched'[x] = launched[x]
  BY <1>4
<1>7. TablesTyped'
  BY <1>1, <1>5 DEF TablesTyped
<1>8. (\A i \in DOMAIN receipts : RowHolds(receipts[i]))'
  BY <1>1, <1>2, <1>6, Rows, RowsStay DEF RowHolds, TablesTyped, B!Terminal
<1>9. \A x \in Jobs : JobHolds(x)'
  BY <1>1, <1>2, <1>6 DEF B!Receipted, JobHolds
<1>10. \A x \in Jobs, o \in B!Outcomes : PostHolds(x, o)'
  <2>1. ASSUME NEW x \in Jobs, NEW o \in B!Outcomes PROVE PostHolds(x, o)'
    BY <1>1, <1>6, BridgeNumbers DEF B!Terminal, PostHolds
  <2>. QED
    BY <2>1
<1>. QED
  BY <1>3, <1>7, <1>8, <1>9, <1>10 DEF TablesHold

LEMMA LaunchSound ==
    ASSUME B!BridgeConstants, BridgeInv, B!Launch PROVE BridgeInv'
<1>1. UNCHANGED <<now, main, mirror, thread, comments, receipts, publications, posts, sent, withdrawn, lastRead>>
  BY DEF B!Launch, B!World
<1>2. at \in Invocations /\ at.step = "launch" /\ Has(at, "launching") /\ TablesTyped
  BY DEF BridgeInv, TablesHold, TablesTyped, InvocationHolds, B!Launch
<1>3. PICK j \in Jobs, k \in DOMAIN receipts : j = at.job /\ receipts[k].job = j /\ receipts[k].status = "launching"
  BY <1>2, Rows DEF Has
<1>4. CASE launched' = launched /\ B!EndDispatch(TRUE)
  BY <1>1, <1>4, DelayHolds, IdleHolds, InvocationMoves
<1>5. CASE launched[j] = None /\ launched' = [launched EXCEPT ![j] = "claimed"] /\ B!Go("running") /\ UNCHANGED poll
  <2>1. PICK a \in Invocations : a = [at EXCEPT !.step = "running"] /\ at' = a
    BY <1>2, <1>5 DEF B!Go, Invocations, Modes
  <2>2. a.step = "running" /\ a.job = j /\ a.comment = at.comment
    BY <1>2, <1>3, <2>1 DEF Invocations
  <2>3. TablesHold'
    BY <1>1, <1>3, <1>5, <2>1, LaunchedMoves
  <2>4. Has(a, "launching")'
    BY <1>1, <1>2, <1>3, <2>2 DEF Has
  <2>5. launched'[j] = "claimed"
    BY <1>2, <1>5 DEF TablesTyped
  <2>6. InvocationHolds(a)'
    BY <2>2, <2>4, <2>5 DEF InvocationHolds
  <2>. QED
    BY <2>1, <2>3, <2>6 DEF BridgeInv
<1>. QED
  BY <1>3, <1>4, <1>5 DEF B!Launch

LEMMA WorkerEndsSound ==
    ASSUME B!BridgeConstants, BridgeInv, B!WorkerEnds PROVE BridgeInv'
<1>1. UNCHANGED <<now, main, mirror, thread, comments, receipts, publications, posts, sent, withdrawn, lastRead>>
  BY DEF B!WorkerEnds, B!World
<1>2. at \in Invocations /\ at.step = "running" /\ Has(at, "launching") /\ TablesTyped /\ launched[at.job] = "claimed"
  BY DEF BridgeInv, TablesHold, TablesTyped, InvocationHolds, B!WorkerEnds
<1>3. PICK j \in Jobs, k \in DOMAIN receipts : j = at.job /\ receipts[k].job = j /\ receipts[k].status = "launching"
  BY <1>2, Rows DEF Has
<1>4. CASE launched' = launched /\ B!EndDispatch(TRUE)
  BY <1>1, <1>4, DelayHolds, IdleHolds, InvocationMoves
<1>5. ASSUME NEW s \in B!Terminal, launched' = [launched EXCEPT ![j] = s], B!Go("record"), UNCHANGED poll PROVE BridgeInv'
  <2>1. PICK a \in Invocations : a = [at EXCEPT !.step = "record"] /\ at' = a
    BY <1>2, <1>5 DEF B!Go, Invocations, Modes
  <2>2. a.step = "record" /\ a.job = j /\ a.comment = at.comment
    BY <1>2, <1>3, <2>1 DEF Invocations
  <2>3. TablesHold'
    BY <1>1, <1>2, <1>3, <1>5, <2>1, LaunchedMoves
  <2>4. Has(a, "launching")'
    BY <1>1, <1>2, <1>3, <2>2 DEF Has
  <2>5. launched'[j] \in B!Terminal
    BY <1>2, <1>5 DEF TablesTyped
  <2>6. InvocationHolds(a)'
    BY <2>2, <2>4, <2>5 DEF InvocationHolds
  <2>. QED
    BY <2>1, <2>3, <2>6 DEF BridgeInv
<1>. QED
  BY <1>3, <1>4, <1>5 DEF B!WorkerEnds

\* The receipt of a job takes another status.
LEMMA StatusMoves ==
    ASSUME BridgeInv, B!BridgeConstants, NEW j \in Jobs, NEW s \in B!Terminal \cup {"launching"}, B!SetStatus(j, s),
           s \in B!Terminal => launched[j] = s,
           \A i \in DOMAIN receipts : receipts[i].job = j =>
               withdrawn[receipts[i].comment] = None \/ withdrawn[receipts[i].comment].receipted,
           at' \in Invocations, poll' \in [next: Nat, failures: 0 .. 2], PollHolds',
           UNCHANGED <<now, main, mirror, thread, comments, publications, posts, launched, sent, withdrawn, lastRead>>
    PROVE  /\ TablesHold'
           /\ \A i \in DOMAIN receipts : receipts[i].job = j =>
                 /\ i \in DOMAIN receipts' /\ receipts'[i].job = j /\ receipts'[i].status = s
                 /\ receipts'[i].comment = receipts[i].comment
<1>1. /\ ConversationTyped /\ TablesTyped
      /\ \A i \in DOMAIN receipts : RowHolds(receipts[i])
      /\ \A x \in Jobs : JobHolds(x)
      /\ \A x \in Jobs, o \in B!Outcomes : PostHolds(x, o)
  BY DEF BridgeInv, TablesHold
<1> DEFINE n == Len(receipts)
<1>2. n \in Nat /\ DOMAIN receipts = 1 .. n
  BY <1>1, Rows
<1>3. receipts' = [i \in 1 .. n |-> IF receipts[i].job = j THEN [receipts[i] EXCEPT !.status = s] ELSE receipts[i]]
  BY <1>2 DEF B!SetStatus
<1>4. \A x \in B!Row : LET y == [x EXCEPT !.status = s]
                       IN  y \in B!Row /\ y.job = x.job /\ y.comment = x.comment /\ y.base = x.base /\ y.status = s
  BY DEF B!Row
<1>5. DOMAIN receipts' = 1 .. n
  BY <1>3
<1>6. \A i \in 1 .. n : /\ receipts'[i] \in B!Row /\ receipts'[i].job = receipts[i].job
                        /\ receipts'[i].comment = receipts[i].comment
                        /\ receipts[i].job = j => receipts'[i].status = s
                        /\ receipts[i].job # j => receipts'[i] = receipts[i]
  BY <1>1, <1>2, <1>3, <1>4, Rows
<1>7. receipts' \in Seq(B!Row)
  BY <1>2, <1>3, <1>6
<1>8. \A i, k \in DOMAIN receipts' : receipts'[i].job = receipts'[k].job => i = k
  BY <1>1, <1>2, <1>5, <1>6 DEF TablesTyped
<1>9. ConversationTyped' /\ TablesTyped'
  BY <1>1, <1>7, <1>8 DEF ConversationTyped, TablesTyped
<1>10. (\A i \in DOMAIN receipts : RowHolds(receipts[i]))'
  <2>1. SUFFICES ASSUME NEW i \in DOMAIN receipts' PROVE RowHolds(receipts[i])'
    OBVIOUS
  <2>2. i \in DOMAIN receipts
    BY <1>2, <1>5
  <2>3. PICK x \in B!Row : x = receipts[i]
    BY <1>1, <2>2, Rows
  <2>4. PICK y \in B!Row : y = receipts'[i]
    BY <1>2, <1>6, <2>2
  <2>5. RowHolds(x)
    BY <1>1, <2>2, <2>3
  <2>6. y.job = x.job /\ y.comment = x.comment /\ (x.job = j => y.status = s) /\ (x.job # j => y = x)
    BY <1>2, <1>6, <2>2, <2>3, <2>4
  <2>7. x.job = j => withdrawn[x.comment] = None \/ withdrawn[x.comment].receipted
    BY <2>2, <2>3
  <2>8. s # "reserved"
    BY DEF B!Terminal
  <2>9. RowHolds(y)'
    BY <2>5, <2>6, <2>7, <2>8 DEF RowHolds
  <2>. QED
    BY <2>4, <2>9 DEF RowHolds
<1>11. \A x \in Jobs : B!Receipted(x) => B!Receipted(x)'
  BY <1>2, <1>5, <1>6 DEF B!Receipted
<1>12. \A x \in Jobs : JobHolds(x)'
  BY <1>1, <1>11 DEF JobHolds
<1>13. \A x \in Jobs, o \in B!Outcomes : PostHolds(x, o)'
  <2>1. ASSUME NEW x \in Jobs, NEW o \in B!Outcomes PROVE PostHolds(x, o)'
    <3>1. PostHolds(x, o)
      BY <1>1
    <3>2. UNCHANGED <<sent, posts, publications, launched>>
      OBVIOUS
    <3>. QED
      BY ONLY <3>1, <3>2 DEF PostHolds
  <2>. QED
    BY <2>1
<1>. QED
  BY <1>2, <1>5, <1>6, <1>9, <1>10, <1>12, <1>13 DEF TablesHold

\* The receipt an invocation is about, and no other, carries its job.
LEMMA Owned ==
    ASSUME TablesTyped, NEW status, Has(at, status)
    PROVE  \E j \in Jobs, k \in DOMAIN receipts :
              /\ j = at.job /\ receipts[k].job = j /\ receipts[k].comment = at.comment /\ receipts[k].status = status
              /\ at.comment \in Comments
              /\ \A i \in DOMAIN receipts : receipts[i].job = j => i = k
<1>1. PICK k \in DOMAIN receipts : receipts[k].job = at.job /\ receipts[k].comment = at.comment /\ receipts[k].status = status
  BY DEF Has
<1>2. receipts[k].job \in Jobs /\ receipts[k].comment \in Comments
  BY <1>1, Rows
<1>3. \A i \in DOMAIN receipts : receipts[i].job = at.job => i = k
  BY <1>1 DEF TablesTyped
<1>. QED
  BY <1>1, <1>2, <1>3

LEMMA RereadSound ==
    ASSUME B!BridgeConstants, BridgeInv, B!Reread PROVE BridgeInv'
<1>1. UNCHANGED <<now, main, mirror, thread, comments, publications, posts, launched, sent, withdrawn, lastRead>>
  BY DEF B!Reread, B!World
<1>2. at \in Invocations /\ at.step = "reread" /\ Has(at, "reserved") /\ TablesTyped /\ PollHolds /\ ConversationTyped
  BY DEF BridgeInv, TablesHold, TablesTyped, InvocationHolds, B!Reread
<1>3. PICK j \in Jobs, k \in DOMAIN receipts :
         /\ j = at.job /\ receipts[k].job = j /\ receipts[k].comment = at.comment /\ at.comment \in Comments
         /\ \A i \in DOMAIN receipts : receipts[i].job = j => i = k
  BY <1>2, Owned
<1>4. CASE receipts' = receipts /\ B!EndDispatch(TRUE)
  BY <1>1, <1>4, DelayHolds, IdleHolds, InvocationMoves
<1>5. CASE B!Valid(at.comment) /\ B!SetStatus(j, "launching") /\ B!Go("launch") /\ UNCHANGED poll
  <2>1. PICK a \in Invocations : a = [at EXCEPT !.step = "launch"] /\ at' = a
    BY <1>2, <1>5 DEF B!Go, Invocations, Modes
  <2>2. a.step = "launch" /\ a.job = j /\ a.comment = at.comment
    BY <1>2, <1>3, <2>1 DEF Invocations
  <2>3. withdrawn[at.comment] = None
    BY <1>2, <1>3, <1>5 DEF B!Valid, ConversationTyped
  <2>4. \A i \in DOMAIN receipts : receipts[i].job = j => withdrawn[receipts[i].comment] = None
    BY <1>3, <2>3
  <2>5. poll' \in [next: Nat, failures: 0 .. 2] /\ PollHolds'
    BY <1>1, <1>2, <1>5 DEF PollHolds, TablesTyped
  <2>6. "launching" \notin B!Terminal
    BY DEF B!Terminal
  <2>7. /\ TablesHold'
        /\ \A i \in DOMAIN receipts : receipts[i].job = j =>
              /\ i \in DOMAIN receipts' /\ receipts'[i].job = j /\ receipts'[i].status = "launching"
              /\ receipts'[i].comment = receipts[i].comment
    BY <1>1, <1>5, <2>1, <2>4, <2>5, <2>6, StatusMoves
  <2>8. Has(a, "launching")'
    BY <1>3, <2>2, <2>7 DEF Has
  <2>9. InvocationHolds(a)'
    BY <2>2, <2>8 DEF InvocationHolds
  <2>. QED
    BY <2>1, <2>7, <2>9 DEF BridgeInv
<1>. QED
  BY <1>3, <1>4, <1>5 DEF B!Reread

LEMMA RecordSound ==
    ASSUME B!BridgeConstants, BridgeInv, B!Record PROVE BridgeInv'
<1>1. UNCHANGED <<now, main, mirror, thread, comments, publications, posts, launched, sent, withdrawn, lastRead>>
  BY DEF B!Record, B!World
<1>2. /\ at \in Invocations /\ at.step = "record" /\ Has(at, "launching") /\ TablesTyped
      /\ launched[at.job] \in B!Terminal /\ \A i \in DOMAIN receipts : RowHolds(receipts[i])
  BY DEF BridgeInv, TablesHold, TablesTyped, InvocationHolds, B!Record
<1>3. PICK j \in Jobs, k \in DOMAIN receipts :
         /\ j = at.job /\ receipts[k].job = j /\ receipts[k].status = "launching"
         /\ \A i \in DOMAIN receipts : receipts[i].job = j => i = k
  BY <1>2, Owned
<1>4. PICK s \in B!Terminal : s = launched[j] /\ B!SetStatus(j, s) /\ B!EndDispatch(FALSE)
  BY <1>2, <1>3 DEF B!Record
<1>5. RowHolds(receipts[k])
  BY <1>2
<1>6. \A i \in DOMAIN receipts : receipts[i].job = j =>
               withdrawn[receipts[i].comment] = None \/ withdrawn[receipts[i].comment].receipted
  BY <1>3, <1>5 DEF RowHolds
<1>7. poll' \in [next: Nat, failures: 0 .. 2] /\ PollHolds' /\ at' = B!Idle
  BY <1>1, <1>4, DelayHolds
<1>8. TablesHold'
  BY <1>1, <1>4, <1>6, <1>7, IdleHolds, StatusMoves
<1>9. InvocationHolds(B!Idle)'
  BY DEF InvocationHolds, B!Idle
<1>. QED
  BY <1>7, <1>8, <1>9 DEF BridgeInv

\* The pending write of a job is marked: the next one, behind what the one before it sent.
LEMMA PublicationMoves ==
    ASSUME BridgeInv, B!BridgeConstants, NEW j \in Jobs, NEW p \in {1, 2, 3, 4},
           publications' = [publications EXCEPT ![j] = p],
           B!Receipted(j),
           p = 1 => publications[j] = None,
           p = 2 => publications[j] = 1 /\ sent[<<j, "branch">>] = 1,
           p = 3 => publications[j] = 2 /\ sent[<<j, "commit">>] = 1,
           p = 4 => publications[j] = 3 /\ sent[<<j, "draft">>] = 1,
           p = 3 => \A i \in DOMAIN receipts : receipts[i].job = j => withdrawn[receipts[i].comment] = None,
           at' \in Invocations,
           UNCHANGED <<now, main, mirror, thread, comments, receipts, poll, posts, launched, sent, withdrawn, lastRead>>
    PROVE  TablesHold'
<1>1. /\ ConversationTyped /\ TablesTyped /\ PollHolds
      /\ \A i \in DOMAIN receipts : RowHolds(receipts[i])
      /\ \A x \in Jobs : JobHolds(x)
      /\ \A x \in Jobs, o \in B!Outcomes : PostHolds(x, o)
  BY DEF BridgeInv, TablesHold
<1>2. ConversationTyped' /\ PollHolds'
  BY <1>1 DEF ConversationTyped, PollHolds
<1>3. publications \in [Jobs -> {None, 1, 2, 3, 4}]
  BY <1>1 DEF TablesTyped
<1>4. publications' \in [Jobs -> {None, 1, 2, 3, 4}]
  BY <1>3
<1>5. publications'[j] = p /\ \A x \in Jobs : x # j => publications'[x] = publications[x]
  BY <1>3
<1>6. TablesTyped'
  BY <1>1, <1>4 DEF TablesTyped
<1>7. None \notin {1, 2, 3, 4}
  BY BridgeNumbers
<1>8. (\A i \in DOMAIN receipts : RowHolds(receipts[i]))'
  BY <1>1, <1>5, Rows, RowsStay DEF RowHolds
<1>9. \A x \in Jobs : JobHolds(x)'
  <2>1. ASSUME NEW x \in Jobs PROVE JobHolds(x)'
    <3>1. JobHolds(x)
      BY <1>1
    <3>2. B!Receipted(x)' <=> B!Receipted(x)
      BY DEF B!Receipted
    <3>3. CASE x # j
      BY <1>5, <3>1, <3>2, <3>3 DEF JobHolds
    <3>4. CASE x = j
      BY <1>5, <1>7, <3>1, <3>2, <3>4 DEF JobHolds
    <3>. QED
      BY <3>3, <3>4
  <2>. QED
    BY <2>1
<1>10. \A x \in Jobs, o \in B!Outcomes : PostHolds(x, o)'
  <2>1. ASSUME NEW x \in Jobs, NEW o \in B!Outcomes PROVE PostHolds(x, o)'
    BY <1>1, <1>5, <1>7 DEF PostHolds
  <2>. QED
    BY <2>1
<1>. QED
  BY <1>2, <1>6, <1>8, <1>9, <1>10 DEF TablesHold

\* A request is sent: a write that is pending and was not sent, or a status that is pending and was not.
LEMMA SentMoves ==
    ASSUME BridgeInv, B!BridgeConstants, NEW j \in Jobs, NEW w \in Requested \cup B!Outcomes,
           sent' = [sent EXCEPT ![<<j, w>>] = @ + 1], sent[<<j, w>>] = 0,
           w = "branch" => publications[j] = 1,
           w = "commit" => publications[j] = 2,
           w = "draft" => publications[j] = 3,
           w \in B!Outcomes => posts[<<j, w>>] = "pending",
           at' \in Invocations,
           UNCHANGED <<now, main, mirror, thread, comments, receipts, poll, publications, posts, launched, withdrawn, lastRead>>
    PROVE  TablesHold' /\ sent'[<<j, w>>] = 1 /\ \A v \in Requested : v # w => sent'[<<j, v>>] = sent[<<j, v>>]
<1>1. /\ ConversationTyped /\ TablesTyped /\ PollHolds
      /\ \A i \in DOMAIN receipts : RowHolds(receipts[i])
      /\ \A x \in Jobs : JobHolds(x)
      /\ \A x \in Jobs, o \in B!Outcomes : PostHolds(x, o)
  BY DEF BridgeInv, TablesHold
<1>2. ConversationTyped' /\ PollHolds'
  BY <1>1 DEF ConversationTyped, PollHolds
<1>3. sent \in [B!Requests -> Nat]
  BY <1>1 DEF TablesTyped
<1>4. <<j, w>> \in B!Requests
  BY WritesNamed
<1>5. sent' \in [B!Requests -> Nat]
  BY <1>3, <1>4
<1>6. sent'[<<j, w>>] = 1 /\ \A r \in B!Requests : r # <<j, w>> => sent'[r] = sent[r]
  BY <1>3, <1>4
<1>7. \A x \in Jobs : \A v \in Requested \cup B!Outcomes :
         /\ x = j /\ v = w => sent'[<<x, v>>] = 1
         /\ x # j \/ v # w => sent'[<<x, v>>] = sent[<<x, v>>]
  BY <1>6, WritesNamed
<1>8. TablesTyped'
  BY <1>1, <1>5 DEF TablesTyped
<1>9. (\A i \in DOMAIN receipts : RowHolds(receipts[i]))'
  BY <1>1, RowsStay DEF RowHolds
<1>10. \A x \in Jobs : JobHolds(x)'
  <2>1. ASSUME NEW x \in Jobs PROVE JobHolds(x)'
    <3>1. JobHolds(x)
      BY <1>1
    <3>2. B!Receipted(x)' <=> B!Receipted(x)
      BY DEF B!Receipted
    <3>3. /\ x = j /\ w = "branch" => sent'[<<x, "branch">>] = 1
          /\ x = j /\ w = "commit" => sent'[<<x, "commit">>] = 1
          /\ x = j /\ w = "draft" => sent'[<<x, "draft">>] = 1
          /\ x # j \/ w # "branch" => sent'[<<x, "branch">>] = sent[<<x, "branch">>]
          /\ x # j \/ w # "commit" => sent'[<<x, "commit">>] = sent[<<x, "commit">>]
          /\ x # j \/ w # "draft" => sent'[<<x, "draft">>] = sent[<<x, "draft">>]
      BY <1>7 DEF Requested
    <3>4. publications'[x] = publications[x] /\ launched'[x] = launched[x]
      OBVIOUS
    <3>5. None \notin {1, 2, 3, 4}
      BY BridgeNumbers
    <3>6. w = "branch" => publications[j] = 1
      OBVIOUS
    <3>7. w = "commit" => publications[j] = 2
      OBVIOUS
    <3>8. w = "draft" => publications[j] = 3
      OBVIOUS
    <3>9. sent[<<j, w>>] = 0
      OBVIOUS
    <3>. QED
      BY ONLY <3>1, <3>2, <3>3, <3>4, <3>5, <3>6, <3>7, <3>8, <3>9 DEF JobHolds, Requested
  <2>. QED
    BY <2>1
<1>11. \A x \in Jobs, o \in B!Outcomes : PostHolds(x, o)'
  <2>1. ASSUME NEW x \in Jobs, NEW o \in B!Outcomes PROVE PostHolds(x, o)'
    <3>1. PostHolds(x, o)
      BY <1>1
    <3>2. UNCHANGED <<posts, publications, launched>>
      OBVIOUS
    <3>3. CASE x = j /\ o = w
      <4>1. sent'[<<x, o>>] = 1 /\ posts[<<x, o>>] = "pending"
        BY <1>7, <3>3
      <4>. QED
        BY ONLY <3>1, <3>2, <4>1 DEF PostHolds
    <3>4. CASE x # j \/ o # w
      <4>1. sent'[<<x, o>>] = sent[<<x, o>>]
        BY <1>7, <3>4
      <4>. QED
        BY ONLY <3>1, <3>2, <4>1 DEF PostHolds
    <3>. QED
      BY <3>3, <3>4
  <2>. QED
    BY <2>1
<1>. QED
  BY <1>2, <1>6, <1>7, <1>8, <1>9, <1>10, <1>11 DEF TablesHold

\* A status of a job is marked before it is posted, or as posted after it was.
LEMMA PostsMove ==
    ASSUME BridgeInv, B!BridgeConstants, NEW j \in Jobs, NEW w \in B!Outcomes, NEW v \in {"pending", "posted"},
           posts' = [posts EXCEPT ![<<j, w>>] = v],
           w = "published" => publications[j] = 4,
           w = "awaiting" => launched[j] = "completed",
           w = "failed" => launched[j] = "failed",
           at' \in Invocations,
           UNCHANGED <<now, main, mirror, thread, comments, receipts, poll, publications, sent, launched, withdrawn, lastRead>>
    PROVE  TablesHold' /\ posts'[<<j, w>>] = v
<1>1. /\ ConversationTyped /\ TablesTyped /\ PollHolds
      /\ \A i \in DOMAIN receipts : RowHolds(receipts[i])
      /\ \A x \in Jobs : JobHolds(x)
      /\ \A x \in Jobs, o \in B!Outcomes : PostHolds(x, o)
  BY DEF BridgeInv, TablesHold
<1>2. ConversationTyped' /\ PollHolds'
  BY <1>1 DEF ConversationTyped, PollHolds
<1>3. posts \in [Jobs \X B!Outcomes -> {"none", "pending", "posted"}]
  BY <1>1 DEF TablesTyped
<1>4. <<j, w>> \in Jobs \X B!Outcomes
  OBVIOUS
<1>5. posts' \in [Jobs \X B!Outcomes -> {"none", "pending", "posted"}]
  BY <1>3, <1>4
<1>6. posts'[<<j, w>>] = v /\ \A r \in Jobs \X B!Outcomes : r # <<j, w>> => posts'[r] = posts[r]
  BY <1>3, <1>4
<1>7. TablesTyped'
  BY <1>1, <1>5 DEF TablesTyped
<1>8. (\A i \in DOMAIN receipts : RowHolds(receipts[i]))'
  BY <1>1, RowsStay DEF RowHolds
<1>9. \A x \in Jobs : JobHolds(x)'
  <2>1. ASSUME NEW x \in Jobs PROVE JobHolds(x)'
    <3>1. JobHolds(x)
      BY <1>1
    <3>2. B!Receipted(x)' <=> B!Receipted(x)
      BY DEF B!Receipted
    <3>3. UNCHANGED <<sent, publications, launched>>
      OBVIOUS
    <3>. QED
      BY ONLY <3>1, <3>2, <3>3 DEF JobHolds
  <2>. QED
    BY <2>1
<1>10. \A x \in Jobs, o \in B!Outcomes : PostHolds(x, o)'
  <2>1. ASSUME NEW x \in Jobs, NEW o \in B!Outcomes PROVE PostHolds(x, o)'
    <3>1. PostHolds(x, o)
      BY <1>1
    <3>2. UNCHANGED <<sent, publications, launched>>
      OBVIOUS
    <3>3. CASE x = j /\ o = w
      BY <1>6, <3>1, <3>2, <3>3 DEF PostHolds
    <3>4. CASE x # j \/ o # w
      <4>1. <<x, o>> # <<j, w>> /\ <<x, o>> \in Jobs \X B!Outcomes
        BY <3>4
      <4>2. posts'[<<x, o>>] = posts[<<x, o>>]
        BY <1>6, <4>1
      <4>. QED
        BY ONLY <3>1, <3>2, <4>2 DEF PostHolds
    <3>. QED
      BY <3>3, <3>4
  <2>. QED
    BY <2>1
<1>. QED
  BY <1>2, <1>6, <1>7, <1>8, <1>9, <1>10 DEF TablesHold

LEMMA MarkSound ==
    ASSUME B!BridgeConstants, BridgeInv, B!Mark PROVE BridgeInv'
<1>1. UNCHANGED <<now, main, mirror, thread, comments, receipts, poll, posts, launched, sent, withdrawn, lastRead>>
  BY DEF B!Mark, B!World
<1>2. /\ at \in Invocations /\ at.step = "mark" /\ Has(at, "completed") /\ TablesTyped /\ PollHolds /\ ConversationTyped
      /\ at.write \in {1, 2, 3} /\ publications[at.job] = Marked(at)
      /\ at.write = 2 => sent[<<at.job, "branch">>] = 1
      /\ at.write = 3 => sent[<<at.job, "commit">>] = 1
      /\ \A j \in Jobs : JobHolds(j)
  BY DEF BridgeInv, TablesHold, TablesTyped, InvocationHolds, B!Mark
<1>3. PICK j \in Jobs, k \in DOMAIN receipts :
         /\ j = at.job /\ receipts[k].job = j /\ receipts[k].comment = at.comment /\ receipts[k].status = "completed"
         /\ at.comment \in Comments
         /\ \A i \in DOMAIN receipts : receipts[i].job = j => i = k
  BY <1>2, Owned
<1>4. PICK p \in {1, 2, 3} : p = at.write
  BY <1>2
<1>5. CASE at' = B!Idle /\ UNCHANGED publications
  BY <1>1, <1>2, <1>5, IdleHolds, InvocationMoves DEF PollHolds, TablesTyped
<1>6. CASE /\ p = 3 => B!Valid(at.comment)
           /\ publications' = [publications EXCEPT ![j] = p] /\ B!Go("send")
  <2>1. PICK a \in Invocations : a = [at EXCEPT !.step = "send"] /\ at' = a
    BY <1>2, <1>6 DEF B!Go, Invocations, Modes
  <2>2. a.step = "send" /\ a.job = j /\ a.comment = at.comment /\ a.write = p
    BY <1>2, <1>3, <1>4, <2>1 DEF Invocations
  <2>3. p = 3 => withdrawn[at.comment] = None
    BY <1>2, <1>3, <1>6 DEF B!Valid, ConversationTyped
  <2>4. p = 3 => \A i \in DOMAIN receipts : receipts[i].job = j => withdrawn[receipts[i].comment] = None
    BY <1>3, <2>3
  <2>5. B!Receipted(j)
    BY <1>3 DEF B!Receipted
  <2>6. /\ p = 1 => publications[j] = None
        /\ p = 2 => publications[j] = 1 /\ sent[<<j, "branch">>] = 1
        /\ p = 3 => publications[j] = 2 /\ sent[<<j, "commit">>] = 1
    BY <1>2, <1>3, <1>4 DEF Marked
  <2>7. TablesHold'
    <3>1. p \in {1, 2, 3, 4} /\ p # 4 /\ at' \in Invocations
      BY <2>1
    <3>2. publications' = [publications EXCEPT ![j] = p]
      BY <1>6
    <3>. QED
      BY <1>1, <2>4, <2>5, <2>6, <3>1, <3>2, PublicationMoves, Zenon
  <2>8. Has(a, "completed")'
    BY <1>1, <1>3, <2>2 DEF Has
  <2>9. publications'[j] = p
    BY <1>2, <1>6 DEF TablesTyped
  <2>10. sent[<<j, B!Writes[p]>>] = 0
    <3>1. JobHolds(j)
      BY <1>2
    <3>2. p = 1 => sent[<<j, "branch">>] = 0
      BY <2>6, <3>1 DEF JobHolds
    <3>3. p = 2 => sent[<<j, "commit">>] = 0
      BY <2>6, <3>1 DEF JobHolds
    <3>4. p = 3 => sent[<<j, "draft">>] = 0
      BY <2>6, <3>1 DEF JobHolds
    <3>. QED
      BY <3>2, <3>3, <3>4, WritesNamed
  <2>11. InvocationHolds(a)'
    BY <1>1, <2>2, <2>8, <2>9, <2>10 DEF InvocationHolds
  <2>. QED
    BY <2>1, <2>7, <2>11 DEF BridgeInv
<1>7. p = 3 => B!Rechecked
  BY <1>4 DEF B!Rechecked
<1>. QED
  BY <1>3, <1>4, <1>5, <1>6, <1>7 DEF B!Mark

LEMMA SendSound ==
    ASSUME B!BridgeConstants, BridgeInv, B!Send PROVE BridgeInv'
<1>1. UNCHANGED <<now, main, mirror, thread, comments, receipts, poll, publications, posts, launched, withdrawn, lastRead>>
  BY DEF B!Send, B!World, B!Tables
<1>2. /\ at \in Invocations /\ at.step = "send" /\ Has(at, "completed") /\ TablesTyped
      /\ at.write \in {1, 2, 3} /\ publications[at.job] = at.write
      /\ sent[<<at.job, B!Writes[at.write]>>] = 0
  BY DEF BridgeInv, TablesHold, TablesTyped, InvocationHolds, B!Send
<1>3. PICK j \in Jobs, k \in DOMAIN receipts :
         /\ j = at.job /\ receipts[k].job = j /\ receipts[k].comment = at.comment /\ receipts[k].status = "completed"
  BY <1>2, Owned
<1>4. PICK p \in {1, 2, 3} : p = at.write
  BY <1>2
<1>5. PICK w \in Requested : w = B!Writes[p]
  BY WritesNamed DEF Requested
<1>6. /\ w = "branch" <=> p = 1
      /\ w = "commit" <=> p = 2
      /\ w = "draft" <=> p = 3
      /\ w \notin B!Outcomes
  BY <1>5, WritesNamed
<1>7. sent' = [sent EXCEPT ![<<j, w>>] = @ + 1] /\ sent[<<j, w>>] = 0
  BY <1>2, <1>3, <1>4, <1>5 DEF B!Send
<1>8. PICK a \in Invocations :
         /\ at' = a /\ a.job = j /\ a.comment = at.comment
         /\ p = 3 => a.step = "publish" /\ a.write = 3
         /\ p # 3 => a.step = "mark" /\ a.write = p + 1
  <2>1. CASE p = 3
    <3>1. at' = [at EXCEPT !.step = "publish"]
      BY <1>4, <2>1, WritesNamed DEF B!Send
    <3>2. [at EXCEPT !.step = "publish"] \in Invocations
      BY <1>2 DEF Invocations, Modes
    <3>. QED
      BY <1>2, <1>3, <1>4, <2>1, <3>1, <3>2 DEF Invocations
  <2>2. CASE p # 3
    <3>1. PICK q \in {2, 3} : q = p + 1
      BY <2>2
    <3>2. at' = [at EXCEPT !.step = "mark", !.write = q]
      BY <1>4, <2>2, <3>1, WritesNamed DEF B!Send
    <3>3. q \in Values /\ "mark" \in Modes
      BY DEF Values, Modes
    <3>4. [at EXCEPT !.step = "mark", !.write = q] \in Invocations
      BY <1>2, <3>3 DEF Invocations
    <3>. QED
      BY <1>2, <1>3, <2>2, <3>1, <3>2, <3>4 DEF Invocations
  <2>. QED
    BY <2>1, <2>2
<1>9. TablesHold' /\ sent'[<<j, w>>] = 1
  BY <1>1, <1>2, <1>3, <1>4, <1>6, <1>7, <1>8, SentMoves
<1>10. Has(a, "completed")'
  BY <1>1, <1>3, <1>8 DEF Has
<1>11. publications'[j] = p
  BY <1>1, <1>2, <1>3, <1>4
<1>12. InvocationHolds(a)'
  BY <1>6, <1>8, <1>9, <1>10, <1>11 DEF InvocationHolds, Marked
<1>. QED
  BY <1>8, <1>9, <1>12 DEF BridgeInv

LEMMA PublishSound ==
    ASSUME B!BridgeConstants, BridgeInv, B!Publish PROVE BridgeInv'
<1>1. UNCHANGED <<now, main, mirror, thread, comments, receipts, poll, posts, launched, sent, withdrawn, lastRead>>
  BY DEF B!Publish, B!World
<1>2. /\ at.step = "publish" /\ Has(at, "completed") /\ TablesTyped
      /\ publications[at.job] = 3 /\ sent[<<at.job, "draft">>] = 1
  BY DEF BridgeInv, TablesHold, InvocationHolds, B!Publish
<1>3. PICK j \in Jobs, k \in DOMAIN receipts : j = at.job /\ receipts[k].job = j
  BY <1>2, Owned
<1>4. B!Receipted(j)
  BY <1>3 DEF B!Receipted
<1>5. publications' = [publications EXCEPT ![j] = 4] /\ at' = B!Idle
  BY <1>3, WritesNamed DEF B!Publish
<1>6. TablesHold'
  <2> DEFINE p == 4
  <2>2. p \in {1, 2, 3, 4} /\ p # 1 /\ p # 2 /\ p # 3 /\ at' \in Invocations
    BY <1>5, IdleHolds
  <2>3. publications' = [publications EXCEPT ![j] = p] /\ publications[j] = 3 /\ sent[<<j, "draft">>] = 1
    BY <1>2, <1>3, <1>5
  <2> HIDE DEF p
  <2>. QED
    BY <1>1, <1>4, <2>2, <2>3, PublicationMoves, Zenon
<1>7. InvocationHolds(B!Idle)'
  BY DEF InvocationHolds, B!Idle
<1>. QED
  BY <1>5, <1>6, <1>7 DEF BridgeInv

LEMMA MarkStatusSound ==
    ASSUME B!BridgeConstants, BridgeInv, B!MarkStatus PROVE BridgeInv'
<1>1. UNCHANGED <<now, main, mirror, thread, comments, receipts, poll, publications, launched, sent, withdrawn, lastRead>>
  BY DEF B!MarkStatus, B!World
<1>2. /\ TablesTyped /\ \A i \in DOMAIN receipts : RowHolds(receipts[i])
      /\ \A x \in Jobs, o \in B!Outcomes : PostHolds(x, o)
  BY DEF BridgeInv, TablesHold
<1>3. B!Unreported \in SUBSET DOMAIN receipts /\ B!Unreported # {}
  BY DEF B!MarkStatus, B!Unreported
<1>4. PICK i \in DOMAIN receipts, r \in B!Row : i = B!Min(B!Unreported) /\ r = receipts[i] /\ i \in B!Unreported
  BY <1>2, <1>3, FirstRow
<1>5. PICK j \in Jobs : j = r.job
  BY <1>2, <1>4, Rows
<1>6. RowHolds(r) /\ r.status \in B!Terminal
  BY <1>2, <1>4 DEF B!MarkStatus, B!Safe
<1>7. PICK w \in B!Outcomes : w = B!Outcome(r)
  BY <1>6 DEF B!Outcome, B!Outcomes, B!Terminal
<1>8. posts[<<j, w>>] = "none"
  BY <1>4, <1>5, <1>7 DEF B!Unreported
<1>9. /\ w = "published" => publications[j] = 4
      /\ w = "awaiting" => launched[j] = "completed"
      /\ w = "failed" => launched[j] = "failed"
  BY <1>5, <1>6, <1>7, WritesNamed DEF B!Outcome, RowHolds, B!Terminal
<1>10. posts' = [posts EXCEPT ![<<j, w>>] = "pending"]
  BY <1>4, <1>5, <1>7 DEF B!MarkStatus
<1>11. PICK a \in Invocations : a = [B!Idle EXCEPT !.step = "post", !.job = j, !.write = w] /\ at' = a
  BY <1>4, <1>5, <1>7, IdleHolds DEF B!MarkStatus, Modes, Values, Invocations
<1>12. a.step = "post" /\ a.job = j /\ a.write = w
  BY <1>11 DEF B!Idle
<1>13. TablesHold' /\ posts'[<<j, w>>] = "pending"
  BY <1>1, <1>9, <1>10, <1>11, PostsMove
<1>14. sent'[<<j, w>>] = 0
  <2>1. PostHolds(j, w)
    BY <1>2
  <2>. QED
    BY <1>1, <1>8, <2>1 DEF PostHolds
<1>15. InvocationHolds(a)'
  BY <1>12, <1>13, <1>14 DEF InvocationHolds
<1>. QED
  BY <1>11, <1>13, <1>15 DEF BridgeInv

LEMMA PostSound ==
    ASSUME B!BridgeConstants, BridgeInv, B!Post PROVE BridgeInv'
<1>1. UNCHANGED <<now, main, mirror, thread, comments, receipts, poll, publications, posts, launched, withdrawn, lastRead>>
  BY DEF B!Post, B!World, B!Tables
<1>2. /\ at \in Invocations /\ at.step = "post" /\ at.job \in Jobs /\ at.write \in B!Outcomes
      /\ posts[<<at.job, at.write>>] = "pending" /\ sent[<<at.job, at.write>>] = 0
  BY DEF BridgeInv, TablesHold, TablesTyped, InvocationHolds, B!Post
<1>3. PICK j \in Jobs, w \in B!Outcomes : j = at.job /\ w = at.write
  BY <1>2
<1>4. sent' = [sent EXCEPT ![<<j, w>>] = @ + 1]
  BY <1>3 DEF B!Post
<1>5. PICK a \in Invocations : a = [at EXCEPT !.step = "posted"] /\ at' = a
  BY <1>2 DEF B!Post, B!Go, Invocations, Modes
<1>6. a.step = "posted" /\ a.job = j /\ a.write = w
  BY <1>2, <1>3, <1>5 DEF Invocations
<1>7. w \notin Requested
  BY WritesNamed
<1>8. TablesHold'
  BY <1>1, <1>2, <1>3, <1>4, <1>5, <1>7, SentMoves DEF Requested
<1>9. InvocationHolds(a)'
  BY <1>1, <1>2, <1>3, <1>6 DEF InvocationHolds
<1>. QED
  BY <1>5, <1>8, <1>9 DEF BridgeInv

LEMMA PostedSound ==
    ASSUME B!BridgeConstants, BridgeInv, B!Posted PROVE BridgeInv'
<1>1. UNCHANGED <<now, main, mirror, thread, comments, receipts, poll, publications, launched, sent, withdrawn, lastRead>>
  BY DEF B!Posted, B!World
<1>2. /\ at.step = "posted" /\ at.job \in Jobs /\ at.write \in B!Outcomes
      /\ posts[<<at.job, at.write>>] = "pending"
      /\ \A x \in Jobs, o \in B!Outcomes : PostHolds(x, o)
  BY DEF BridgeInv, TablesHold, InvocationHolds, B!Posted
<1>3. PICK j \in Jobs, w \in B!Outcomes : j = at.job /\ w = at.write
  BY <1>2
<1>4. posts' = [posts EXCEPT ![<<j, w>>] = "posted"] /\ at' = B!Idle
  BY <1>3 DEF B!Posted
<1>5. PostHolds(j, w)
  BY <1>2
<1>6. /\ w = "published" => publications[j] = 4
      /\ w = "awaiting" => launched[j] = "completed"
      /\ w = "failed" => launched[j] = "failed"
  BY <1>2, <1>3, <1>5 DEF PostHolds
<1>7. TablesHold'
  BY <1>1, <1>4, <1>6, IdleHolds, PostsMove
<1>8. InvocationHolds(B!Idle)'
  BY DEF InvocationHolds, B!Idle
<1>. QED
  BY <1>4, <1>7, <1>8 DEF BridgeInv

\* The conversation and the clock move on; the tables, the invocation and what was sent stay.
LEMMA WorldMoves ==
    ASSUME BridgeInv, ConversationTyped', PollHolds',
           \A c \in Comments : comments[c] # None => comments'[c] # None,
           \A i \in DOMAIN receipts, x \in B!Row : x = receipts[i] => RowHolds(x)',
           UNCHANGED <<receipts, poll, publications, posts, launched, at, sent, lastRead>>
    PROVE  BridgeInv'
<1>1. /\ TablesTyped /\ at \in Invocations /\ InvocationHolds(at)
      /\ \A x \in Jobs : JobHolds(x)
      /\ \A x \in Jobs, o \in B!Outcomes : PostHolds(x, o)
  BY DEF BridgeInv, TablesHold, TablesTyped
<1>2. TablesTyped'
  BY <1>1 DEF TablesTyped
<1>3. (\A i \in DOMAIN receipts : RowHolds(receipts[i]))'
  BY <1>1, RowsStay
<1>4. \A x \in Jobs : JobHolds(x)'
  <2>1. ASSUME NEW x \in Jobs PROVE JobHolds(x)'
    <3>1. JobHolds(x)
      BY <1>1
    <3>2. B!Receipted(x)' <=> B!Receipted(x)
      BY DEF B!Receipted
    <3>3. UNCHANGED <<sent, publications, launched>>
      OBVIOUS
    <3>. QED
      BY ONLY <3>1, <3>2, <3>3 DEF JobHolds
  <2>. QED
    BY <2>1
<1>5. \A x \in Jobs, o \in B!Outcomes : PostHolds(x, o)'
  <2>1. ASSUME NEW x \in Jobs, NEW o \in B!Outcomes PROVE PostHolds(x, o)'
    <3>1. PostHolds(x, o)
      BY <1>1
    <3>2. UNCHANGED <<sent, posts, publications, launched>>
      OBVIOUS
    <3>. QED
      BY ONLY <3>1, <3>2 DEF PostHolds
  <2>. QED
    BY <2>1
<1>6. PICK a \in Invocations : a = at /\ a = at' /\ InvocationHolds(a)
  BY <1>1
<1>7. InvocationHolds(a)'
  <2>1. \A status : Has(a, status)' <=> Has(a, status)
    BY DEF Has
  <2>2. B!Receipted(a.job)' <=> B!Receipted(a.job)
    BY DEF B!Receipted
  <2>3. Marked(a)' = Marked(a)
    BY DEF Marked
  <2>4. UNCHANGED <<sent, posts, publications, launched>>
    OBVIOUS
  <2>5. a.comment \in Comments /\ comments[a.comment] # None => comments'[a.comment] # None
    OBVIOUS
  <2>. QED
    BY ONLY <1>6, <2>1, <2>2, <2>3, <2>4, <2>5 DEF InvocationHolds
<1>8. InvocationHolds(at)'
  BY <1>6, <1>7
<1>. QED
  BY <1>2, <1>3, <1>4, <1>5, <1>8 DEF BridgeInv, TablesHold

LEMMA CommentSound ==
    ASSUME B!BridgeConstants, BridgeInv, B!Comment PROVE BridgeInv'
<1>1. UNCHANGED <<now, main, mirror, receipts, poll, publications, posts, launched, at, sent, withdrawn, lastRead>>
  BY DEF B!Comment, B!Tables
<1>2. ConversationTyped /\ PollHolds /\ \A i \in DOMAIN receipts : RowHolds(receipts[i])
  BY DEF BridgeInv, TablesHold
<1>3. PICK c \in Comments : /\ comments[c] = None /\ thread' = Append(thread, c)
                            /\ comments' = [comments EXCEPT ![c] = [base |-> main, edited |-> FALSE]]
  BY DEF B!Comment
<1>4. PICK m \in Posted : m = [base |-> main, edited |-> FALSE] /\ ~m.edited
  <2>1. main \in 0 .. MaxMoves /\ FALSE \in BOOLEAN
    BY <1>2 DEF ConversationTyped
  <2>2. [base |-> main, edited |-> FALSE] \in Posted
    BY <2>1 DEF Posted
  <2>. QED
    BY <2>2
<1>5. m # None
  BY BridgeNumbers
<1>6. comments' = [comments EXCEPT ![c] = m]
  BY <1>3, <1>4
<1>7. comments \in [Comments -> Posted \cup {None}]
  BY <1>2 DEF ConversationTyped
<1>8. /\ comments' \in [Comments -> Posted \cup {None}] /\ comments'[c] = m
      /\ \A d \in Comments : d # c => comments'[d] = comments[d]
  BY <1>6, <1>7
<1>9. thread \in Seq(Comments) /\ \A i \in DOMAIN thread : comments[thread[i]] # None
  BY <1>2 DEF ConversationTyped
<1>10. /\ thread' \in Seq(Comments) /\ DOMAIN thread' = 1 .. (Len(thread) + 1) /\ DOMAIN thread = 1 .. Len(thread)
       /\ Len(thread) \in Nat
       /\ \A i \in 1 .. Len(thread) : thread'[i] = thread[i]
       /\ thread'[Len(thread) + 1] = c
  BY <1>3, <1>9
<1>11. \A d \in Comments : comments[d] # None => comments'[d] # None
  BY <1>3, <1>8
<1>12. \A i \in DOMAIN thread' : comments'[thread'[i]] # None
  BY <1>5, <1>8, <1>9, <1>10, <1>11
<1>13. \A d \in Comments : withdrawn'[d] # None <=> comments'[d] # None /\ comments'[d].edited
  BY <1>1, <1>2, <1>3, <1>4, <1>8 DEF ConversationTyped
<1>14. ConversationTyped'
  BY <1>1, <1>2, <1>8, <1>10, <1>12, <1>13 DEF ConversationTyped
<1>15. PollHolds'
  BY <1>1, <1>2 DEF PollHolds
<1>16. \A i \in DOMAIN receipts, x \in B!Row : x = receipts[i] => RowHolds(x)'
  BY <1>1, <1>2 DEF RowHolds
<1>. QED
  BY <1>1, <1>11, <1>14, <1>15, <1>16, WorldMoves

LEMMA WithdrawSound ==
    ASSUME B!BridgeConstants, BridgeInv, B!Withdraw PROVE BridgeInv'
<1>1. UNCHANGED <<now, main, mirror, thread, receipts, poll, publications, posts, launched, at, sent, lastRead>>
  BY DEF B!Withdraw, B!Tables
<1>2. /\ ConversationTyped /\ PollHolds /\ TablesTyped /\ \A i \in DOMAIN receipts : RowHolds(receipts[i])
      /\ \A x \in Jobs : JobHolds(x)
  BY DEF BridgeInv, TablesHold
<1>3. PICK c \in Comments :
         /\ comments[c] # None /\ ~comments[c].edited
         /\ comments' = [comments EXCEPT ![c].edited = TRUE]
         /\ withdrawn' = [withdrawn EXCEPT ![c] = [receipted |-> \E i \in DOMAIN receipts : receipts[i].comment = c,
                                                   committed |-> sent[<<JobOf[c], "commit">>] > 0]]
  BY DEF B!Withdraw
<1>4. comments \in [Comments -> Posted \cup {None}] /\ withdrawn \in [Comments -> Withdrawals \cup {None}]
  BY <1>2 DEF ConversationTyped
<1>5. PICK m \in Posted : m = [comments[c] EXCEPT !.edited = TRUE] /\ m.edited
  <2>1. PICK o \in Posted : o = comments[c]
    BY <1>3, <1>4
  <2>2. o.base \in 0 .. MaxMoves /\ TRUE \in BOOLEAN /\ o = [base |-> o.base, edited |-> o.edited]
    BY DEF Posted
  <2>3. [o EXCEPT !.edited = TRUE] = [base |-> o.base, edited |-> TRUE]
    <3>1. PICK b, e : o = [base |-> b, edited |-> e] /\ b = o.base
      BY <2>2
    <3>2. [o EXCEPT !.edited = TRUE] = [base |-> b, edited |-> TRUE]
      <4>1. \A t : [o EXCEPT !.edited = t] = [base |-> b, edited |-> t]
        BY <3>1
      <4>. QED
        BY <4>1, Zenon
    <3>. QED
      BY <3>1, <3>2, Zenon
  <2>4. [base |-> o.base, edited |-> TRUE] \in Posted
    BY <2>2 DEF Posted
  <2>. QED
    BY <2>1, <2>3, <2>4
<1>6. PICK v \in Withdrawals :
         /\ v = [receipted |-> \E i \in DOMAIN receipts : receipts[i].comment = c,
                 committed |-> sent[<<JobOf[c], "commit">>] > 0]
         /\ v.receipted <=> \E i \in DOMAIN receipts : receipts[i].comment = c
         /\ v.committed <=> sent[<<JobOf[c], "commit">>] > 0
  <2>1. PICK p \in BOOLEAN : p <=> \E i \in DOMAIN receipts : receipts[i].comment = c
    BY Zenon
  <2>2. PICK q \in BOOLEAN : q <=> sent[<<JobOf[c], "commit">>] > 0
    BY Zenon
  <2>3. (\E i \in DOMAIN receipts : receipts[i].comment = c) = p
    BY <2>1, Zenon
  <2>4. (sent[<<JobOf[c], "commit">>] > 0) = q
    BY <2>2
  <2>5. [receipted |-> p, committed |-> q] \in Withdrawals
    BY DEF Withdrawals
  <2>. QED
    BY <2>1, <2>2, <2>3, <2>4, <2>5
<1>7. m # None /\ v # None
  BY BridgeNumbers
<1>8. comments' = [comments EXCEPT ![c] = m] /\ withdrawn' = [withdrawn EXCEPT ![c] = v]
  BY <1>3, <1>4, <1>5, <1>6
<1>9. /\ comments' \in [Comments -> Posted \cup {None}] /\ comments'[c] = m
      /\ \A d \in Comments : d # c => comments'[d] = comments[d]
  BY <1>4, <1>8
<1>10. /\ withdrawn' \in [Comments -> Withdrawals \cup {None}] /\ withdrawn'[c] = v
       /\ \A d \in Comments : d # c => withdrawn'[d] = withdrawn[d]
  BY <1>4, <1>8
<1>11. \A d \in Comments : comments[d] # None => comments'[d] # None
  BY <1>7, <1>9
<1>12. \A d \in Comments : withdrawn'[d] # None <=> comments'[d] # None /\ comments'[d].edited
  BY <1>2, <1>5, <1>7, <1>9, <1>10 DEF ConversationTyped
<1>13. \A i \in DOMAIN thread : comments'[thread[i]] # None
  BY <1>2, <1>11 DEF ConversationTyped
<1>14. ConversationTyped'
  BY <1>1, <1>2, <1>9, <1>10, <1>12, <1>13 DEF ConversationTyped
<1>15. PollHolds'
  BY <1>1, <1>2 DEF PollHolds
<1>16. ASSUME NEW i \in DOMAIN receipts, NEW x \in B!Row, x = receipts[i] PROVE RowHolds(x)'
  <2>1. RowHolds(x) /\ x.comment \in Comments /\ x.job \in Jobs
    BY <1>2, <1>16, Rows
  <2>2. CASE x.comment # c
    BY <1>1, <1>10, <2>1, <2>2 DEF RowHolds
  <2>3. CASE x.comment = c
    <3>1. withdrawn'[x.comment] = v /\ v.receipted
      BY <1>6, <1>10, <1>16, <2>3
    <3>2. publications[x.job] \in {3, 4} => v.committed
      <4>1. JobHolds(x.job) /\ x.job = JobOf[c]
        BY <1>2, <2>1, <2>3 DEF RowHolds
      <4>. QED
        BY <1>6, <4>1 DEF JobHolds
    <3>. QED
      BY <1>1, <2>1, <3>1, <3>2 DEF RowHolds
  <2>. QED
    BY <2>2, <2>3
<1>. QED
  BY <1>1, <1>11, <1>14, <1>15, <1>16, WorldMoves

LEMMA ClockAndMainSound ==
    ASSUME B!BridgeConstants, BridgeInv, B!MainMoves \/ B!Tick PROVE BridgeInv'
<1>1. UNCHANGED <<thread, comments, withdrawn, receipts, poll, publications, posts, launched, at, sent, lastRead>>
  BY DEF B!MainMoves, B!Tick, B!Tables
<1>2. ConversationTyped /\ PollHolds /\ \A i \in DOMAIN receipts : RowHolds(receipts[i])
  BY DEF BridgeInv, TablesHold
<1>3. now' \in 1 .. Horizon /\ now' >= now /\ main' \in 0 .. MaxMoves /\ mirror' \in 0 .. main'
  BY <1>2, BridgeNumbers DEF B!MainMoves, B!Tick, ConversationTyped
<1>4. ConversationTyped'
  BY <1>1, <1>2, <1>3 DEF ConversationTyped
<1>5. PollHolds'
  BY <1>1, <1>2, <1>3, BridgeNumbers DEF PollHolds, ConversationTyped
<1>6. \A i \in DOMAIN receipts, x \in B!Row : x = receipts[i] => RowHolds(x)'
  BY <1>1, <1>2 DEF RowHolds
<1>. QED
  BY <1>1, <1>4, <1>5, <1>6, WorldMoves

LEMMA BridgeStep ==
    ASSUME B!BridgeConstants, BridgeInv, [B!Next]_B!vars PROVE BridgeInv'
<1>1. CASE B!Dispatch
  BY <1>1, PollSound, ReadCommentsSound, ReserveSound, RereadSound, LaunchSound, WorkerEndsSound, RecordSound DEF B!Dispatch
<1>2. CASE B!Publisher
  BY <1>2, PrepareSound, MarkSound, SendSound, PublishSound DEF B!Publisher
<1>3. CASE B!Status
  BY <1>3, MarkStatusSound, PostSound, PostedSound DEF B!Status
<1>4. CASE B!Die \/ B!Comment \/ B!Withdraw \/ B!MainMoves \/ B!Tick
  BY <1>4, DieSound, CommentSound, WithdrawSound, ClockAndMainSound
<1>5. CASE UNCHANGED B!vars
  BY <1>5, InvocationMoves DEF B!vars, BridgeInv, TablesHold, TablesTyped, PollHolds
<1>. QED
  BY <1>1, <1>2, <1>3, <1>4, <1>5 DEF B!Next

\* As many jobs have a receipt as there are receipts.
LEMMA JobsCounted ==
    ASSUME TablesTyped
    PROVE  B!Cardinality({receipts[i].job : i \in DOMAIN receipts}) = Len(receipts)
<1> DEFINE n == Len(receipts)
           S == {receipts[i].job : i \in DOMAIN receipts}
           f == [i \in 1 .. n |-> receipts[i].job]
<1>1. n \in Nat /\ DOMAIN receipts = 1 .. n
  BY Rows
<1>2. f \in [1 .. n -> S] /\ \A a, b \in 1 .. n : f[a] = f[b] => a = b
  BY <1>1 DEF TablesTyped
<1>3. \A t \in S : \E i \in 1 .. n : f[i] = t
  BY <1>1
<1> HIDE DEF S, f
<1>4. f \in Bijection(1 .. n, S)
  BY <1>2, <1>3, Fun_IsBij
<1>5. ExistsBijection(1 .. n, S)
  BY <1>4, Fun_ExistsBij
<1>6. Cardinality(S) = n
  BY <1>1, <1>5, FS_CountingElements
<1>7. B!Cardinality(S) = Cardinality(S)
  BY Zenon DEF B!Cardinality, Cardinality
<1>. QED
  BY <1>6, <1>7 DEF S

\* What the receipts say of a job is what its one receipt says.
LEMMA StatusOfRow ==
    ASSUME TablesTyped, NEW i \in DOMAIN receipts
    PROVE  B!StatusOf(receipts[i].job) = receipts[i].status
<1> DEFINE P(r) == r \in B!Range(receipts) /\ r.job = receipts[i].job
<1>1. B!Range(receipts) = {receipts[k] : k \in DOMAIN receipts}
  BY DEF B!Range
<1>2. \A r \in B!Range(receipts) : r.job = receipts[i].job => r = receipts[i]
  BY <1>1 DEF TablesTyped
<1>3. receipts[i] \in B!Range(receipts)
  BY <1>1
<1>4. (CHOOSE r \in B!Range(receipts) : r.job = receipts[i].job) = receipts[i]
  BY <1>2, <1>3
<1>. QED
  BY <1>4 DEF B!StatusOf

LEMMA BridgeIsSound ==
    ASSUME B!BridgeConstants, BridgeInv
    PROVE  /\ B!TypeOK /\ B!ReceiptsAreTrue /\ B!EditsAreHonoured /\ B!WritesAreNeverRepeated /\ B!StatusesAreTrue
<1>1. /\ ConversationTyped /\ TablesTyped /\ PollHolds
      /\ \A i \in DOMAIN receipts : RowHolds(receipts[i])
      /\ \A j \in Jobs : JobHolds(j)
      /\ \A j \in Jobs, o \in B!Outcomes : PostHolds(j, o)
  BY DEF BridgeInv, TablesHold
<1>2. None \notin {1, 2, 3, 4} /\ None # "completed" /\ None # "failed" /\ None # "claimed"
  BY BridgeNumbers
<1>3. B!TypeOK
  <2>1. publications \in [Jobs -> {None} \cup 1 .. B!Published]
    BY <1>1, WritesNamed DEF TablesTyped
  <2>2. at.job \in Jobs \cup {None} /\ at.comment \in Comments \cup {None}
    BY <1>1 DEF TablesTyped, Invocations
  <2>3. B!Cardinality({receipts[i].job : i \in DOMAIN receipts}) = Len(receipts)
    BY <1>1, JobsCounted
  <2>4. /\ comments \in [Comments -> [base: 0 .. MaxMoves, edited: BOOLEAN] \cup {None}]
        /\ withdrawn \in [Comments -> [receipted: BOOLEAN, committed: BOOLEAN] \cup {None}]
        /\ thread \in Seq(Comments) /\ now \in 1 .. Horizon /\ main \in 0 .. MaxMoves /\ mirror \in 0 .. main
    BY <1>1 DEF ConversationTyped, Posted, Withdrawals
  <2>5. /\ receipts \in Seq(B!Row) /\ poll \in [next: Nat, failures: 0 .. 2]
        /\ posts \in [Jobs \X B!Outcomes -> {"none", "pending", "posted"}]
        /\ launched \in [Jobs -> B!Terminal \cup {None, "claimed"}]
        /\ sent \in [B!Requests -> Nat]
    BY <1>1 DEF TablesTyped
  <2>. QED
    BY <2>1, <2>2, <2>3, <2>4, <2>5 DEF B!TypeOK
<1>4. B!ReceiptsAreTrue
  <2>1. ASSUME NEW j \in Jobs, launched[j] # None
        PROVE  B!Receipted(j) /\ (B!StatusOf(j) = "launching" \/ B!StatusOf(j) = launched[j])
    <3>1. B!Receipted(j)
      BY <1>1, <2>1 DEF JobHolds
    <3>2. PICK i \in DOMAIN receipts : receipts[i].job = j
      BY <3>1 DEF B!Receipted
    <3>3. B!StatusOf(j) = receipts[i].status
      BY <1>1, <3>2, StatusOfRow
    <3>4. RowHolds(receipts[i]) /\ receipts[i].status \in B!Terminal \cup {"reserved", "launching"}
      BY <1>1, Rows
    <3>. QED
      BY <2>1, <3>1, <3>2, <3>3, <3>4 DEF RowHolds
  <2>2. \A i \in DOMAIN receipts : receipts[i].status \in B!Terminal => launched[receipts[i].job] = receipts[i].status
    BY <1>1 DEF RowHolds
  <2>. QED
    BY <2>1, <2>2 DEF B!ReceiptsAreTrue
<1>5. B!EditsAreHonoured
  <2>1. ASSUME NEW i \in DOMAIN receipts, withdrawn[receipts[i].comment] # None
        PROVE  /\ withdrawn[receipts[i].comment].receipted \/ launched[receipts[i].job] = None
               /\ withdrawn[receipts[i].comment].committed \/ sent[<<receipts[i].job, "draft">>] = 0
    <3>1. PICK r \in B!Row : r = receipts[i] /\ RowHolds(r) /\ r.job \in Jobs
      BY <1>1, Rows
    <3>2. JobHolds(r.job) /\ publications[r.job] \in {None, 1, 2, 3, 4}
      BY <1>1, <3>1 DEF TablesTyped
    <3>3. withdrawn[r.comment].receipted \/ launched[r.job] = None
      BY <2>1, <3>1 DEF RowHolds
    <3>4. withdrawn[r.comment].committed \/ publications[r.job] \in {None, 1, 2}
      BY <2>1, <3>1, <3>2 DEF RowHolds
    <3>5. publications[r.job] \in {None, 1, 2} => sent[<<r.job, "draft">>] = 0
      BY <3>2 DEF JobHolds
    <3>. QED
      BY <3>1, <3>3, <3>4, <3>5
  <2>. QED
    BY <2>1 DEF B!EditsAreHonoured
<1>6. B!WritesAreNeverRepeated
  <2>1. ASSUME NEW q \in B!Requests PROVE sent[q] <= 1
    <3>1. PICK j \in Jobs, w \in Requested \cup B!Outcomes : q = <<j, w>>
      BY WritesNamed DEF B!Requests
    <3>. QED
      BY <1>1, <3>1 DEF JobHolds, PostHolds
  <2>. QED
    BY <2>1 DEF B!WritesAreNeverRepeated
<1>7. B!StatusesAreTrue
  <2>1. ASSUME NEW j \in Jobs, NEW o \in B!Outcomes, posts[<<j, o>>] # "none"
        PROVE  CASE o = "published" -> \A w \in B!Range(B!Writes) : sent[<<j, w>>] = 1
                 [] o = "awaiting" -> launched[j] = "completed"
                 [] OTHER -> launched[j] = o
    <3>1. PostHolds(j, o) /\ JobHolds(j)
      BY <1>1
    <3>2. CASE o = "published"
      BY <2>1, <3>1, <3>2, WritesNamed DEF PostHolds, JobHolds, Requested
    <3>3. CASE o = "awaiting"
      BY <2>1, <3>1, <3>3 DEF PostHolds
    <3>4. CASE o = "failed"
      BY <2>1, <3>1, <3>4 DEF PostHolds
    <3>. QED
      BY <3>2, <3>3, <3>4 DEF B!Outcomes
  <2>2. DOMAIN posts = Jobs \X B!Outcomes
    BY <1>1 DEF TablesTyped
  <2>3. ASSUME NEW p \in DOMAIN posts, posts[p] # "none"
        PROVE  CASE p[2] = "published" -> \A w \in B!Range(B!Writes) : sent[<<p[1], w>>] = 1
                 [] p[2] = "awaiting" -> launched[p[1]] = "completed"
                 [] OTHER -> launched[p[1]] = p[2]
    BY <2>1, <2>2, <2>3
  <2>. QED
    BY <2>3 DEF B!StatusesAreTrue
<1>. QED
  BY <1>3, <1>4, <1>5, <1>6, <1>7

LEMMA StepFailsClosed ==
    ASSUME B!BridgeConstants, BridgeInv, [B!Next]_B!vars PROVE B!FailClosed /\ B!PollsAreSpaced
<1>1. None \notin {1, 2, 3, 4}
  BY BridgeNumbers
<1>2. CASE B!Poll \/ B!Prepare \/ B!MarkStatus
  <2>1. B!Safe
    BY <1>2 DEF B!Poll, B!Prepare, B!MarkStatus
  <2>2. \A j \in Jobs : publications[j] \notin {1, 2, 3}
    BY <1>1, <2>1, WritesNamed DEF B!Safe
  <2>3. \A i \in DOMAIN receipts : receipts[i].status \notin {"reserved", "launching"}
    BY <2>1 DEF B!Safe, B!Terminal
  <2>4. \A p \in DOMAIN posts : posts[p] # "pending"
    BY <2>1 DEF B!Safe
  <2>5. ~B!Uncertain
    BY <2>2, <2>3, <2>4, WritesNamed DEF B!Uncertain
  <2>6. B!Poll => now > lastRead
    BY BridgeNumbers DEF BridgeInv, TablesHold, TablesTyped, ConversationTyped, PollHolds, B!Poll
  <2>7. B!Prepare => at'.step = "mark"
    BY DEF B!Prepare
  <2>8. B!MarkStatus => at'.step = "post"
    BY DEF B!MarkStatus, B!Idle
  <2>9. B!PollsAreSpaced
    BY <1>2, <2>6, <2>7, <2>8 DEF B!PollsAreSpaced
  <2>. QED
    BY <2>5, <2>9 DEF B!FailClosed
<1>3. CASE at.step # "idle"
  BY <1>3 DEF B!FailClosed, B!PollsAreSpaced, B!Uncertain
<1>4. CASE UNCHANGED <<at, sent, launched>>
  BY <1>4 DEF B!FailClosed, B!PollsAreSpaced
<1>5. CASE B!ReadComments \/ B!Reserve \/ B!Reread \/ B!Launch \/ B!WorkerEnds \/ B!Record
  BY <1>3, <1>5 DEF B!ReadComments, B!Reserve, B!Reread, B!Launch, B!WorkerEnds, B!Record
<1>6. CASE B!Mark \/ B!Send \/ B!Publish \/ B!Post \/ B!Posted \/ B!Die
  BY <1>3, <1>6 DEF B!Mark, B!Send, B!Publish, B!Post, B!Posted, B!Die
<1>7. CASE B!Comment \/ B!Withdraw \/ B!MainMoves \/ B!Tick
  BY <1>4, <1>7 DEF B!Comment, B!Withdraw, B!MainMoves, B!Tick
<1>8. CASE UNCHANGED B!vars
  BY <1>4, <1>8 DEF B!vars
<1>. QED
  BY <1>2, <1>5, <1>6, <1>7, <1>8 DEF B!Next, B!Dispatch, B!Publisher, B!Status

\* Whatever answers are lost, whoever dies and however often a command is edited: a worker runs under a receipt
\* that says so, an edit that comes before the receipt keeps the worker from running and one that comes before
\* the commit keeps the draft from being made, no request is sent twice and no status is posted that is not true.
THEOREM BridgeSafety ==
    ASSUME B!BridgeConstants
    PROVE  B!Spec => [](/\ B!TypeOK /\ B!ReceiptsAreTrue /\ B!EditsAreHonoured
                        /\ B!WritesAreNeverRepeated /\ B!StatusesAreTrue)
<1>1. B!Init => BridgeInv
  BY BridgeStarts
<1>2. BridgeInv /\ [B!Next]_B!vars => BridgeInv'
  BY BridgeStep
<1>3. BridgeInv => /\ B!TypeOK /\ B!ReceiptsAreTrue /\ B!EditsAreHonoured
                   /\ B!WritesAreNeverRepeated /\ B!StatusesAreTrue
  BY BridgeIsSound
<1>. QED
  BY <1>1, <1>2, <1>3, PTL DEF B!Spec

\* And once an outcome is uncertain and its process is gone no mode runs a worker or writes again, and two polls
\* are an interval apart even when the first of them died.
THEOREM BridgeFailsClosed ==
    ASSUME B!BridgeConstants
    PROVE  B!Spec => [][B!FailClosed /\ B!PollsAreSpaced]_B!vars
<1>1. B!Init => BridgeInv
  BY BridgeStarts
<1>2. BridgeInv /\ [B!Next]_B!vars => BridgeInv'
  BY BridgeStep
<1>3. BridgeInv /\ [B!Next]_B!vars => B!FailClosed /\ B!PollsAreSpaced
  BY StepFailsClosed
<1>. QED
  BY <1>1, <1>2, <1>3, PTL DEF B!Spec
=====
