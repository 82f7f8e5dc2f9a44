---------------------------- MODULE MCChainHead ----------------------------
(* The executions of a run are interchangeable.                            *)
EXTENDS ChainHead, TLC

CONSTANTS e1, e2, e3

Symmetry == Permutations(Execution)
=============================================================================
