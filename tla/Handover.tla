------------------------------ MODULE Handover ------------------------------
(***************************************************************************)
(* What the outbox promises of a handover package: it is sent at least once, *)
(* ACCEPTED only if the gateway took it, and settled for good.              *)
(***************************************************************************)
EXTENDS Naturals

CONSTANT Delivery

VARIABLES
    phase,   \* "absent", "open", "accepted" or "failed"
    taken    \* the deliveries the gateway has taken, possibly several times

Init ==
    /\ phase = [d \in Delivery |-> "absent"]
    /\ taken = {}

Submit(d) ==
    /\ phase[d] = "absent"
    /\ phase' = [phase EXCEPT ![d] = "open"]
    /\ UNCHANGED taken

\* A sender that lost its lease may reach the gateway after the settlement.
Take(d) ==
    /\ phase[d] # "absent"
    /\ taken' = taken \cup {d}
    /\ UNCHANGED phase

Accept(d) ==
    /\ phase[d] = "open"
    /\ d \in taken
    /\ phase' = [phase EXCEPT ![d] = "accepted"]
    /\ UNCHANGED taken

Fail(d) ==
    /\ phase[d] = "open"
    /\ phase' = [phase EXCEPT ![d] = "failed"]
    /\ UNCHANGED taken

Next == \E d \in Delivery : Submit(d) \/ Take(d) \/ Accept(d) \/ Fail(d)

Spec == Init /\ [][Next]_<<phase, taken>>
=============================================================================
