----------------------------- MODULE MCEcosystem -----------------------------
(* Small instances of Ecosystem for TLC.                                     *)
EXTENDS Ecosystem, TLC

\* Workers and answers are interchangeable: sound for the safety runs.
Symmetry == Permutations(Worker) \cup Permutations(Response)
=============================================================================
