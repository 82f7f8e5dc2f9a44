------------------------------ MODULE MCOutbox ------------------------------
(* Small instances of Outbox for TLC.                                        *)
EXTENDS Outbox, TLC

CONSTANTS i1, i2, s1, s2

\* Two instances, one sender each.
TwoInstances == s1 :> i1 @@ s2 :> i2

\* Bound: three attempts at two deliveries together.
FewAttempts ==
    \A d, e \in Delivery : d # e => table[d].attempts + table[e].attempts <= 3
=============================================================================
