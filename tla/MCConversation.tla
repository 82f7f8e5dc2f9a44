--------------------------- MODULE MCConversation ---------------------------
(* The instances, and the turns, of a run are interchangeable.              *)
EXTENDS Conversation, TLC

CONSTANTS i1, i2, t1, t2

Symmetry == Permutations(Instance) \cup Permutations(Turn)

\* Dispatches of two turns have nothing in common but the event loop: one turn
\* at a time runs something.
OneRuns == \A t, u \in Turn : turn[t].plan # {} /\ turn[u].plan # {} => t = u
=============================================================================
