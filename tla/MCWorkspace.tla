---------------------------- MODULE MCWorkspace ----------------------------
(* Instances, actors, products, exchanges and sessions are interchangeable. *)
EXTENDS Workspace, TLC

CONSTANTS i1, i2, s1, s2, w1, p1, p2, p3, x1, x2

CONSTANTS a1, a2

Symmetry == Permutations(Instance) \cup Permutations(Actor)
              \cup Permutations(Product) \cup Permutations(SessionId)
              \cup Permutations(Exchange)

\* Exchanges on the one hand and sessions, contexts and transfers on the other
\* have no row in common: a behaviour has requests of one kind only, and one of
\* exchanges has neither a migration nor a session with a product.
Exchanging == \/ detached # {} \/ \E x \in Exchange : exchange[x] # None
              \/ \E i \in Instance : job[i].at = "exchange"
Conversing == \/ answer # {} \/ transfer # {}
              \/ \E s \in SessionId : session[s] # None
                    /\ (session[s].state # "ACTIVE" \/ session[s].product # None)
              \/ \E w \in Place : legacy[w] # Empty
              \/ \E i \in Instance : job[i].at \in {"state", "upsert", "target"}
Apart == ~(Exchanging /\ Conversing)
=============================================================================
