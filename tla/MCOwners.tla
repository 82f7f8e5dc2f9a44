------------------------------ MODULE MCOwners ------------------------------
(* Instances of Owners for TLC. *)
EXTENDS Owners, TLC

Symmetry == Permutations(Worker)
=============================================================================
