----------------------------- MODULE MCRuntime -----------------------------
(* One product without a health endpoint, or with one whose answers the       *)
(* translator of its contract has to put into words.                         *)
EXTENDS Runtime

CONSTANTS r1, r2, p1

SomeContracts ==
    {[endpoint |-> "none", format |-> "any", values |-> FALSE, translator |-> FALSE],
     [endpoint |-> "absolute", format |-> "json", values |-> TRUE, translator |-> TRUE]}
=============================================================================
