--------------------------- MODULE OutcomeHistory ---------------------------
(***************************************************************************)
(* What the outcome evidence of one analysis promises its readers          *)
(* (corner_analysis_outcomes.py): a history that only grows, begun by one  *)
(* settlement and extended by corrections, each of which says something    *)
(* else than the entry before it.                                          *)
(***************************************************************************)
EXTENDS Naturals, Sequences

CONSTANTS Keys,     \* idempotency keys; an outcome's id is made from its key
          Results   \* what a source can say of the match

VARIABLE history

Entry == [id: Keys, evidence: Results]
Used == {history[i].id : i \in 1 .. Len(history)}

Init == history = <<>>

Settle(e) ==
    /\ history = <<>>
    /\ history' = <<e>>

Correct(e) ==
    /\ history # <<>>
    /\ e.id \notin Used
    /\ e.evidence # history[Len(history)].evidence
    /\ history' = Append(history, e)

Next == \E e \in Entry : Settle(e) \/ Correct(e)

Spec == Init /\ [][Next]_history
=============================================================================
