---------------------------- MODULE MCEvidence ----------------------------
(* Small instances of Evidence for TLC.                                     *)
EXTENDS Evidence

\* The first product fails or echoes, the second fails or answers.
MixedAnswers == <<{None, "envelope"}, {None, "own"}>>

\* Each dispatch has a trace of its own.
OwnTraces == <<"t1", "t2">>
=============================================================================
