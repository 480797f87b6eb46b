------------------------ MODULE AtMostOnceAcquisition ------------------------
(***************************************************************************)
(* What guarded_acquisition.run_once promises the operator who pays for    *)
(* the requests: each authorized experiment claims a batch of obligations  *)
(* that no other experiment ever claims, is charged at most once for it    *)
(* and after the claim, and sends at most one request, after the charge.   *)
(***************************************************************************)
EXTENDS Naturals

CONSTANTS Experiments, Obligations

VARIABLES batch,    \* per experiment: the obligations it claimed
          charges,  \* per experiment: credits charged to the shared budget
          requests  \* per experiment: requests sent to the provider

Init ==
    /\ batch = [e \in Experiments |-> {}]
    /\ charges = [e \in Experiments |-> 0]
    /\ requests = [e \in Experiments |-> 0]

Claim(e, b) ==
    /\ batch[e] = {} /\ b # {}
    /\ \A other \in Experiments : batch[other] \cap b = {}
    /\ batch' = [batch EXCEPT ![e] = b]
    /\ UNCHANGED <<charges, requests>>

Charge(e) ==
    /\ batch[e] # {} /\ charges[e] = 0
    /\ charges' = [charges EXCEPT ![e] = 1]
    /\ UNCHANGED <<batch, requests>>

Ask(e) ==
    /\ charges[e] = 1 /\ requests[e] = 0
    /\ requests' = [requests EXCEPT ![e] = 1]
    /\ UNCHANGED <<batch, charges>>

Next == \E e \in Experiments :
           \/ \E b \in SUBSET Obligations : Claim(e, b)
           \/ Charge(e)
           \/ Ask(e)

Spec == Init /\ [][Next]_<<batch, charges, requests>>
=============================================================================
