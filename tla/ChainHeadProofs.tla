--------------------------- MODULE ChainHeadProofs ---------------------------
(***************************************************************************)
(* Machine-checked proofs about ChainHead, for every number of executions,    *)
(* every timeout and every speed of the requests.                            *)
(***************************************************************************)
EXTENDS ChainHead, TLAPS

-----------------------------------------------------------------------------
(* The inductive invariants.                                                *)

\* A request is not waited for longer than it takes.
TimedOK ==
    \A e \in Execution : pc[e] \in {"sent", "served", "refused"} => timer[e] <= delay

TInv == TypeOK /\ TimedOK

\* In the chains c, the entry at position n + 1 of o is e's, appended to the head n.
Held(c, e, o, n) ==
    /\ n < Len(c[o])
    /\ c[o][n + 1].exec = e
    /\ c[o][n + 1].parent = n

\* The worker of e has had its post accepted in the stage that it is at.
Appended(e) ==
    \/ pc[e] \in Inside /\ at[e] \in {3, 4, 9, 10}
    \/ pc[e] = "served" /\ at[e] \in Posts

\* Where a worker is without a lease, and where an owner may refuse it.
PlaceOK ==
    \A e \in Execution :
        /\ pc[e] = "idle" => at[e] = 1
        /\ pc[e] \in {"between", "wait"} => at[e] \in {1, 7}
        /\ pc[e] = "refused" => at[e] \in Posts

\* A stage that the worker has begun to ask for is not COMPLETED.
OpenOK ==
    \A e \in Execution :
        pc[e] \in Inside /\ ~(pc[e] = "ready" /\ at[e] \in ReadsHead)
            => stage[e][OwnerOf(at[e])] = None

\* Karma is asked only behind a Bucket stage that is COMPLETED.
BucketFirst ==
    \A e \in Execution :
        pc[e] \in Inside /\ OwnerOf(at[e]) = "karma" => stage[e]["bucket"] # None

\* What a worker has had accepted, and what a row records, is in the chain.
HeadHeld ==
    \A e \in Execution : Appended(e) => Held(chain, e, OwnerOf(at[e]), head[e])
StageHeld ==
    \A e \in Execution, o \in Owner :
        stage[e][o] # None => Held(chain, e, o, stage[e][o])

\* An entry of Karma's chain repeats the Bucket stage of its execution.
Bound(x) == x.of # None /\ x.of = stage[x.exec]["bucket"]
KarmaBound == \A i \in 1..Len(chain["karma"]) : Bound(chain["karma"][i])
LateBound == \A m \in late : m.owner = "karma" => Bound(m.entry)

IInv ==
    /\ PlaceOK
    /\ OpenOK
    /\ BucketFirst
    /\ HeadHeld
    /\ StageHeld
    /\ KarmaBound
    /\ LateBound

\* What the requests that follow k under the same lease may take.
Ahead(k) ==
    IF k \in {6, 10} THEN 0
    ELSE IF k \in {5, 9} THEN delay
    ELSE IF k \in {4, 8} THEN 2 * delay
    ELSE IF k \in {3, 7} THEN 3 * delay
    ELSE IF k = 2 THEN 4 * delay
    ELSE 5 * delay

\* What is left of the request that e is at.
Current(e) == IF pc[e] = "ready" THEN delay ELSE timer[e]

\* With prompt requests the lease outlasts what its holder has before it.
LeaseCovers ==
    Prompt => \A e \in Execution : pc[e] \in Inside =>
        /\ lease.holder = {Me(e)}
        /\ lease.left > Ahead(at[e]) + Current(e)

\* A post whose sender died is over before the lease that the sender held, and
\* until then nobody is under the lease.
LateCovered ==
    Prompt /\ ~stray => \A m \in late :
        /\ lease.holder # {}
        /\ lease.left > m.left
        /\ \A e \in Execution : pc[e] \notin Inside

\* The worker of e has read a head and its post onto it is not yet processed.
Aiming(e) ==
    \/ pc[e] = "served" /\ at[e] \in ReadsHead
    \/ pc[e] \in {"ready", "sent"} /\ at[e] \in Posts

\* From the reading of a head to the post onto it nobody else appends.
HeadCurrent ==
    Prompt /\ ~stray =>
        \A e \in Execution : Aiming(e) => head[e] = Len(chain[OwnerOf(at[e])])

LInv ==
    /\ LeaseCovers
    /\ LateCovered
    /\ HeadCurrent

-----------------------------------------------------------------------------
(* Types.                                                                   *)

\* An owner's name, and the entry that a worker posts, have their types.
LEMMA OwnerType ==
    ASSUME NEW k \in Request
    PROVE  /\ OwnerOf(k) \in Owner
           /\ LastOf(k) \in Request /\ OwnerOf(LastOf(k)) = OwnerOf(k)
           /\ k \notin LeaseEnd => k + 1 \in Request
           /\ k \in LeaseEnd /\ k # 10 => k = 6
BY DEF Request, OwnerOf, Owner, LastOf, LeaseEnd

LEMMA PostedType ==
    ASSUME TypeOK, NEW e \in Execution
    PROVE  Posted(e) \in Entry
BY OwnerType DEF TypeOK, Posted, Entry, Owner

LEMMA MeType ==
    ASSUME TypeOK, NEW e \in Execution
    PROVE  Me(e) \in Token
BY DEF TypeOK, Me, Token

\* Giving the lease back, and leaving, keep the types of what they change.
LEMMA ReleaseType ==
    ASSUME TypeOK, NEW e \in Execution, Release(e)
    PROVE  lease' \in [holder : SUBSET Token, left : 0..Term]
BY TimeAssumption DEF TypeOK, Release, Nobody, Term

LEMMA LeaveType ==
    ASSUME TInv, NEW e \in Execution, Leave(e), delay' = delay
    PROVE  /\ pc' \in [Execution -> Control] /\ at' \in [Execution -> Request]
           /\ head' \in [Execution -> Nat] /\ timer' \in [Execution -> 0..Waiting]
           /\ TimedOK'
BY TimeAssumption DEF TInv, TypeOK, TimedOK, Leave, Goto, SetTimer, Control, Request, Waiting

LEMMA AbandonType ==
    ASSUME TInv, NEW e \in Execution, Abandon(e), delay' = delay
    PROVE  late' \subseteq [owner : Owner, entry : Entry, left : 0..delay']
<1>1. pc[e] = "sent" => timer[e] \in 0..delay
  BY TimeAssumption DEF TInv, TypeOK, TimedOK, Waiting
<1>2. OwnerOf(at[e]) \in Owner /\ Posted(e) \in Entry
  BY OwnerType, PostedType DEF TInv, TypeOK
<1> QED
  BY <1>1, <1>2 DEF TInv, TypeOK, Abandon

\* What Proceed does to the locals of e: it goes on, or out of the lease.
LEMMA ProceedStep ==
    ASSUME TypeOK, NEW e \in Execution, NEW k \in Request, Proceed(e, k)
    PROVE  \E l \in {"ready", "between", "done"}, a \in Request :
              /\ pc' = [pc EXCEPT ![e] = l]
              /\ at' = [at EXCEPT ![e] = a]
              /\ timer' = [timer EXCEPT ![e] = 0]
              /\ k \in LeaseEnd => /\ Release(e) /\ l # "ready"
                                   /\ l = "between" => a = 7
              /\ k \notin LeaseEnd => l = "ready" /\ a = k + 1 /\ lease' = lease
<1>1. CASE k \in LeaseEnd
  <2>1. CASE k = 10
    <3>1. /\ pc' = [pc EXCEPT ![e] = "done"] /\ at' = [at EXCEPT ![e] = 10]
          /\ timer' = [timer EXCEPT ![e] = 0] /\ Release(e)
      BY <1>1, <2>1 DEF Proceed, Goto, SetTimer
    <3> QED
      BY <1>1, <3>1 DEF Request
  <2>2. CASE k = 6
    <3>1. /\ pc' = [pc EXCEPT ![e] = "between"] /\ at' = [at EXCEPT ![e] = 7]
          /\ timer' = [timer EXCEPT ![e] = 0] /\ Release(e)
      BY <1>1, <2>2 DEF Proceed, Goto, SetTimer
    <3> QED
      BY <1>1, <3>1 DEF Request
  <2> QED
    BY <1>1, <2>1, <2>2 DEF LeaseEnd
<1>2. CASE k \notin LeaseEnd
  <2>1. /\ pc' = [pc EXCEPT ![e] = "ready"] /\ at' = [at EXCEPT ![e] = k + 1]
        /\ timer' = [timer EXCEPT ![e] = 0] /\ lease' = lease
    BY <1>2 DEF Proceed, Goto, SetTimer
  <2> QED
    BY <1>2, <2>1, OwnerType
<1> QED
  BY <1>1, <1>2

LEMMA ProceedType ==
    ASSUME TInv, NEW e \in Execution, NEW k \in Request, Proceed(e, k), delay' = delay
    PROVE  /\ lease' \in [holder : SUBSET Token, left : 0..Term]
           /\ pc' \in [Execution -> Control] /\ at' \in [Execution -> Request]
           /\ timer' \in [Execution -> 0..Waiting]
           /\ TimedOK'
<1>1. TypeOK /\ TimedOK
  BY DEF TInv
<1>2. PICK l \in {"ready", "between", "done"}, a \in Request :
              /\ pc' = [pc EXCEPT ![e] = l]
              /\ at' = [at EXCEPT ![e] = a]
              /\ timer' = [timer EXCEPT ![e] = 0]
              /\ Release(e) \/ lease' = lease
  BY <1>1, ProceedStep
<1>3. lease' \in [holder : SUBSET Token, left : 0..Term]
  BY <1>1, <1>2, ReleaseType DEF TypeOK
<1>4. /\ pc' \in [Execution -> Control] /\ at' \in [Execution -> Request]
      /\ timer' \in [Execution -> 0..Waiting]
  BY <1>1, <1>2, TimeAssumption DEF TypeOK, Control, Waiting
<1>5. TimedOK'
  BY <1>1, <1>2 DEF TypeOK, TimedOK
<1> QED
  BY <1>3, <1>4, <1>5

\* Every step keeps the types.
LEMMA TypeStep == TInv /\ [Next]_vars => TInv'
<1> SUFFICES ASSUME TInv, [Next]_vars PROVE TInv'
  OBVIOUS
<1> USE TimeAssumption DEF Control
<1>0. TypeOK /\ TimedOK
  BY DEF TInv
<1>1. ASSUME NEW e \in Execution, Call(e) PROVE TInv'
  BY <1>0, <1>1 DEF TInv, TypeOK, TimedOK, Call, Goto
<1>2. ASSUME NEW e \in Execution, Approach(e) PROVE TInv'
  BY <1>0, <1>2 DEF TInv, TypeOK, TimedOK, Approach, Goto, SetTimer, Waiting
<1>3. ASSUME NEW e \in Execution, Acquire(e) PROVE TInv'
  <2>1. lease' \in [holder : SUBSET Token, left : 0..Term]
    BY <1>0, <1>3, MeType DEF Acquire, Term
  <2> QED
    BY <1>0, <1>3, <2>1 DEF TInv, TypeOK, TimedOK, Acquire, Goto, SetTimer, Waiting
<1>4. ASSUME NEW e \in Execution, GiveUp(e) PROVE TInv'
  BY <1>0, <1>4, LeaveType DEF TInv, TypeOK, GiveUp
<1>5. ASSUME NEW e \in Execution, Reuse(e) PROVE TInv'
  BY <1>0, <1>5, ProceedType, OwnerType DEF TInv, TypeOK, Reuse
<1>6. ASSUME NEW e \in Execution, Send(e) PROVE TInv'
  BY <1>0, <1>6 DEF TInv, TypeOK, TimedOK, Send, Goto, SetTimer, Waiting
<1>7. ASSUME NEW e \in Execution, Serve(e) PROVE TInv'
  <2> DEFINE o == OwnerOf(at[e])
  <2>1. o \in Owner /\ Posted(e) \in Entry /\ Len(chain[o]) \in Nat /\ pc[e] = "sent"
    BY <1>0, <1>7, OwnerType, PostedType DEF TypeOK, Serve
  <2>2. head' \in [Execution -> Nat]
    BY <1>0, <1>7, <2>1 DEF TypeOK, Serve
  <2>5. chain' \in [Owner -> Seq(Entry)]
    <3>1. chain' = chain \/ chain' = [chain EXCEPT ![o] = Append(@, Posted(e))]
      BY <1>7 DEF Serve
    <3>2. chain[o] \in Seq(Entry)
      BY <1>0, <2>1 DEF TypeOK
    <3>3. Append(chain[o], Posted(e)) \in Seq(Entry)
      BY <2>1, <3>2
    <3> QED
      BY <1>0, <2>1, <3>1, <3>3 DEF TypeOK
  <2>3. /\ pc' \in [Execution -> Control]
        /\ \A f \in Execution : f # e => pc'[f] = pc[f]
    BY <1>0, <1>7 DEF TypeOK, Serve, Goto
  <2> QED
    BY <1>0, <1>7, <2>2, <2>3, <2>5 DEF TInv, TypeOK, TimedOK, Serve
<1>8. ASSUME NEW e \in Execution, Receive(e) PROVE TInv'
  <2>1. OwnerOf(at[e]) \in Owner /\ at[e] \in Request /\ head[e] \in Nat
    BY <1>0, OwnerType DEF TypeOK
  <2>2. stage' \in [Execution -> [Owner -> Nat \cup {None}]]
    BY <1>0, <1>8, <2>1 DEF TypeOK, Receive
  <2> QED
    BY <1>0, <1>8, <2>1, <2>2, ProceedType DEF TInv, TypeOK, Receive
<1>9. ASSUME NEW e \in Execution, Refused(e) PROVE TInv'
  BY <1>0, <1>9, LeaveType, ReleaseType DEF TInv, TypeOK, Refused
<1>10. ASSUME NEW e \in Execution, Lost(e) PROVE TInv'
  <2>1. /\ Leave(e) /\ Release(e) /\ Abandon(e) /\ faults' = faults + 1
        /\ UNCHANGED <<chain, stage, calls, delay>> /\ stray' \in BOOLEAN
    BY <1>0, <1>10 DEF TypeOK, Lost, Strike
  <2>2. /\ lease' \in [holder : SUBSET Token, left : 0..Term]
        /\ late' \subseteq [owner : Owner, entry : Entry, left : 0..delay']
    BY <1>0, <2>1, ReleaseType, AbandonType
  <2>3. /\ pc' \in [Execution -> Control] /\ at' \in [Execution -> Request]
        /\ head' \in [Execution -> Nat] /\ timer' \in [Execution -> 0..Waiting]
        /\ TimedOK'
    BY <1>0, <2>1, LeaveType
  <2> QED
    BY <1>0, <2>1, <2>2, <2>3 DEF TInv, TypeOK
<1>11. ASSUME NEW e \in Execution, Crash(e) PROVE TInv'
  BY <1>0, <1>11, LeaveType, AbandonType DEF TInv, TypeOK, Crash, Strike
<1>12. ASSUME NEW m \in late, ServeLate(m) PROVE TInv'
  <2>1. m.owner \in Owner /\ m.entry \in Entry
    BY <1>0 DEF TypeOK
  <2>2. chain' \in [Owner -> Seq(Entry)]
    BY <1>0, <1>12, <2>1 DEF TypeOK, ServeLate
  <2> QED
    BY <1>0, <1>12, <2>2 DEF TInv, TypeOK, TimedOK, ServeLate, local
<1>13. ASSUME NEW m \in late, DropLate(m) PROVE TInv'
  BY <1>0, <1>13 DEF TInv, TypeOK, TimedOK, DropLate, local
<1>14. CASE Tick
  <2>1. \A n \in Nat : Less(n) \in Nat /\ Less(n) <= n
    BY DEF Less
  <2>2. lease' \in [holder : SUBSET Token, left : 0..Term]
    <3>1. /\ lease' = [lease EXCEPT !.left = Less(lease.left)]
          /\ lease \in [holder : SUBSET Token, left : 0..Term] /\ Term \in Nat
      BY <1>0, <1>14 DEF TypeOK, Tick, Term
    <3>2. Less(lease.left) \in 0..Term
      BY <2>1, <3>1
    <3> QED
      BY <3>1, <3>2
  <2>3. late' \subseteq [owner : Owner, entry : Entry, left : 0..delay']
    <3>1. ASSUME NEW m \in late
          PROVE  [m EXCEPT !.left = Less(m.left)]
                    \in [owner : Owner, entry : Entry, left : 0..delay]
      <4>1. m \in [owner : Owner, entry : Entry, left : 0..delay] /\ delay \in Nat
        BY <1>0 DEF TypeOK
      <4>2. Less(m.left) \in 0..delay
        BY <2>1, <4>1
      <4> QED
        BY <4>1, <4>2
    <3> QED
      BY <1>14, <3>1 DEF Tick
  <2>4. timer' \in [Execution -> 0..Waiting]
        /\ \A e \in Execution : timer'[e] <= timer[e]
    BY <1>0, <1>14 DEF TypeOK, Tick, Timed, Waiting
  <2>5. TimedOK'
    <3> SUFFICES ASSUME NEW e \in Execution, pc'[e] \in {"sent", "served", "refused"}
                 PROVE  timer'[e] <= delay'
      BY DEF TimedOK
    <3>1. timer[e] <= delay /\ timer[e] \in Nat /\ timer'[e] \in Nat /\ delay' = delay /\ delay \in Nat
      BY <1>0, <1>14, <2>4 DEF TypeOK, TimedOK, Tick, Waiting
    <3> QED
      BY <2>4, <3>1
  <2> QED
    BY <1>0, <1>14, <2>2, <2>3, <2>4, <2>5 DEF TInv, TypeOK, Tick
<1>15. CASE UNCHANGED vars
  BY <1>0, <1>15 DEF TInv, TypeOK, TimedOK, vars, local
<1> QED
  BY <1>1, <1>2, <1>3, <1>4, <1>5, <1>6, <1>7, <1>8, <1>9, <1>10, <1>11, <1>12,
     <1>13, <1>14, <1>15 DEF Next, Step

\* The lease, the chains and the workers' locals always have their types
\* (_run_integrity_chain, _chain_head_lease).
THEOREM TypeCorrect == Spec => []TInv
<1>1. Init => TInv
  <2> SUFFICES ASSUME Init PROVE TInv
    OBVIOUS
  <2>1. lease \in [holder : SUBSET Token, left : 0..Term] /\ delay \in 1..T
    BY TimeAssumption DEF Init, Nobody, Term
  <2>2. chain \in [Owner -> Seq(Entry)] /\ late = {}
    BY DEF Init
  <2>3. /\ stage \in [Execution -> [Owner -> Nat \cup {None}]]
        /\ pc \in [Execution -> Control] /\ at \in [Execution -> Request]
        /\ head \in [Execution -> Nat] /\ calls \in [Execution -> Nat]
        /\ timer \in [Execution -> 0..Waiting]
    BY TimeAssumption DEF Init, Waiting, Control, Request
  <2> QED
    BY <2>1, <2>2, <2>3 DEF Init, TInv, TypeOK, TimedOK
<1> QED
  BY <1>1, TypeStep, PTL DEF Spec

-----------------------------------------------------------------------------
(* The chains.  What they hold stays, whatever else happens.                *)

\* An accepted entry is put behind the others.
LEMMA AppendKeeps ==
    ASSUME TypeOK, NEW o \in Owner, NEW x \in Entry, Accepts(o, x),
           chain' = [chain EXCEPT ![o] = Append(@, x)],
           NEW e \in Execution, NEW p \in Owner, NEW n \in Nat
    PROVE  /\ Held(chain, e, p, n) => Held(chain', e, p, n)
           /\ x.exec = e /\ n = x.parent => Held(chain', e, o, n)
<1>1. chain[o] \in Seq(Entry) /\ chain[p] \in Seq(Entry) /\ x.parent = Len(chain[o])
  BY DEF TypeOK, Accepts
<1>2. chain'[o] = Append(chain[o], x) /\ (p # o => chain'[p] = chain[p])
  BY DEF TypeOK
<1>3. /\ Len(chain'[o]) = Len(chain[o]) + 1
      /\ chain'[o][Len(chain[o]) + 1] = x
      /\ \A i \in 1..Len(chain[o]) : chain'[o][i] = chain[o][i]
  BY <1>1, <1>2
<1>4. CASE p = o
  BY <1>1, <1>3, <1>4 DEF Held
<1>5. CASE p # o
  BY <1>1, <1>2, <1>3, <1>5 DEF Held
<1> QED
  BY <1>4, <1>5

\* The entries of Karma's chain stay bound, and a bound one may join them.
LEMMA AppendBinds ==
    ASSUME TypeOK, NEW o \in Owner, NEW x \in Entry,
           chain' = [chain EXCEPT ![o] = Append(@, x)], stage' = stage,
           KarmaBound, o = "karma" => Bound(x)
    PROVE  KarmaBound'
<1>1. \A y : Bound(y)' <=> Bound(y)
  BY DEF Bound
<1>2. CASE o = "karma"
  <2>1. chain["karma"] \in Seq(Entry) /\ chain'["karma"] = Append(chain["karma"], x)
    BY <1>2 DEF TypeOK
  <2>2. \A i \in 1..Len(chain'["karma"]) :
           chain'["karma"][i] = x \/ \E j \in 1..Len(chain["karma"]) :
                                        chain'["karma"][i] = chain["karma"][j]
    BY <2>1
  <2> QED
    BY <1>1, <1>2, <2>2 DEF KarmaBound
<1>3. CASE o # "karma"
  <2>1. chain'["karma"] = chain["karma"]
    BY <1>3 DEF TypeOK, Owner
  <2> QED
    BY <1>1, <2>1 DEF KarmaBound
<1> QED
  BY <1>2, <1>3

\* A worker that stays in its stage, or leaves the lease, and the chains and the
\* rows as they are.
LEMMA QuietInv ==
    ASSUME IInv, NEW e \in Execution, chain' = chain, stage' = stage,
           \A f \in Execution \ {e} :
              pc'[f] = pc[f] /\ at'[f] = at[f] /\ head'[f] = head[f],
           PlaceOK', LateBound',
           pc'[e] \notin Inside \/ (pc'[e] = "ready" /\ at'[e] \in {1, 7})
    PROVE  IInv'
<1>1. /\ \A f \in Execution, o \in Owner : \A n : Held(chain', f, o, n) <=> Held(chain, f, o, n)
      /\ \A y : Bound(y)' <=> Bound(y)
  BY DEF Held, Bound
<1>2. \A f \in Execution : Appended(f)' => f # e /\ Appended(f)
  BY DEF Appended, Inside, Posts
<1>3. OpenOK'
  BY DEF IInv, OpenOK, ReadsHead
<1>4. BucketFirst'
  BY DEF IInv, BucketFirst, OwnerOf
<1>5. HeadHeld' /\ StageHeld'
  BY <1>1, <1>2 DEF IInv, HeadHeld, StageHeld, Held
<1>6. KarmaBound'
  BY <1>1 DEF IInv, KarmaBound
<1> QED
  BY <1>3, <1>4, <1>5, <1>6 DEF IInv

\* A call that ends leaves nothing but the post that it has on its way, which is
\* bound when it goes to Karma.
LEMMA LeaveInv ==
    ASSUME TypeOK, IInv, NEW e \in Execution, Leave(e), UNCHANGED <<chain, stage>>,
           Abandon(e) \/ late' = late
    PROVE  IInv'
<1>1. \A y : Bound(y)' <=> Bound(y)
  BY DEF Bound
<1>2. /\ pc'[e] = "idle" /\ at'[e] = 1
      /\ \A f \in Execution \ {e} :
            pc'[f] = pc[f] /\ at'[f] = at[f] /\ head'[f] = head[f]
  BY DEF TypeOK, Leave, Goto
<1>3. PlaceOK'
  BY <1>2 DEF IInv, PlaceOK
<1>4. LateBound'
  <2>1. CASE Abandon(e) /\ pc[e] = "sent" /\ OwnerOf(at[e]) = "karma"
    <3>1. stage[e]["bucket"] # None
      BY <2>1 DEF IInv, BucketFirst, Inside
    <3>2. Bound(Posted(e))
      BY <2>1, <3>1 DEF Bound, Posted
    <3> QED
      BY <1>1, <2>1, <3>2 DEF IInv, LateBound, Abandon
  <2>2. CASE ~(Abandon(e) /\ pc[e] = "sent" /\ OwnerOf(at[e]) = "karma")
    BY <1>1, <2>2 DEF IInv, LateBound, Abandon
  <2> QED
    BY <2>1, <2>2
<1> QED
  BY <1>2, <1>3, <1>4, QuietInv DEF Inside

\* A worker goes on in its stage with nothing new in the chain, or with the
\* answer of its last request.
LEMMA ReceiveInv ==
    ASSUME TypeOK, IInv, NEW e \in Execution, Receive(e)
    PROVE  IInv'
<1> DEFINE o == OwnerOf(at[e])
<1>1. /\ o \in Owner /\ at[e] \in Request /\ pc[e] = "served" /\ head[e] \in Nat
      /\ UNCHANGED <<chain, late, head>>
  BY OwnerType DEF TypeOK, Receive
<1>2. /\ \A f \in Execution, p \in Owner : \A n : Held(chain', f, p, n) <=> Held(chain, f, p, n)
      /\ stage[e][o] = None
  BY <1>1 DEF Held, IInv, OpenOK, Inside
<1>3. PICK l \in {"ready", "between", "done"}, a \in Request :
              /\ pc' = [pc EXCEPT ![e] = l]
              /\ at' = [at EXCEPT ![e] = a]
              /\ at[e] \in LeaseEnd => l # "ready" /\ (l = "between" => a = 7)
              /\ at[e] \notin LeaseEnd => l = "ready" /\ a = at[e] + 1
  BY <1>1, ProceedStep DEF Receive
<1>4. /\ pc'[e] = l /\ at'[e] = a
      /\ \A f \in Execution \ {e} : pc'[f] = pc[f] /\ at'[f] = at[f]
  BY <1>3 DEF TypeOK
<1>5. /\ \A f \in Execution, p \in Owner :
            (f # e \/ p # o) => stage'[f][p] = stage[f][p]
      /\ at[e] \in StageEnd => stage'[e][o] = head[e]
      /\ at[e] \notin StageEnd => stage' = stage
  BY <1>1 DEF TypeOK, Receive
<1>6. \A y \in Entry : Bound(y) => Bound(y)'
  <2> SUFFICES ASSUME NEW y \in Entry, Bound(y) PROVE Bound(y)'
    OBVIOUS
  <2>1. y.exec \in Execution /\ ~(y.exec = e /\ o = "bucket")
    BY <1>2 DEF Entry, Bound
  <2> QED
    BY <1>5, <2>1 DEF Bound, Owner
<1>7. PlaceOK'
  BY <1>3, <1>4 DEF IInv, PlaceOK
<1>8. OpenOK'
  <2>1. ASSUME l = "ready" PROVE a \in ReadsHead \/ stage'[e][OwnerOf(a)] = None
    BY <1>1, <1>2, <1>3, <1>5, <2>1 DEF Request, LeaseEnd, StageEnd, ReadsHead, OwnerOf
  <2>2. \A f \in Execution \ {e} : stage'[f] = stage[f]
    BY <1>1, <1>5 DEF TypeOK, Receive
  <2> QED
    BY <1>3, <1>4, <2>1, <2>2 DEF IInv, OpenOK, Inside
<1>9. BucketFirst'
  <2>1. ASSUME l = "ready", OwnerOf(a) = "karma" PROVE stage'[e]["bucket"] # None
    <3>1. CASE at[e] = 4
      BY <1>1, <1>5, <3>1, NullAssumption DEF OwnerOf, StageEnd
    <3>2. CASE at[e] # 4
      <4>1. o = "karma" /\ at[e] = 5
        BY <1>1, <1>3, <2>1, <3>2 DEF Request, OwnerOf, LeaseEnd
      <4> QED
        BY <1>1, <1>5, <4>1 DEF IInv, BucketFirst, Inside, StageEnd
    <3> QED
      BY <3>1, <3>2
  <2>2. \A f \in Execution \ {e} : stage'[f] = stage[f]
    BY <1>1, <1>5 DEF TypeOK, Receive
  <2> QED
    BY <1>3, <1>4, <2>1, <2>2 DEF IInv, BucketFirst, Inside
<1>10. HeadHeld'
  <2>1. ASSUME Appended(e)' PROVE Held(chain, e, OwnerOf(a), head[e])
    <3>1. l = "ready" /\ a = at[e] + 1 /\ a \in {3, 4, 9, 10}
      BY <1>3, <1>4, <2>1 DEF Appended, Inside
    <3>2. Appended(e) /\ OwnerOf(a) = o
      BY <1>1, <3>1 DEF Appended, Inside, Posts, Request, OwnerOf
    <3> QED
      BY <3>2 DEF IInv, HeadHeld
  <2>2. \A f \in Execution \ {e} : Appended(f)' => Appended(f)
    BY <1>4 DEF Appended
  <2>3. ASSUME NEW f \in Execution, Appended(f)'
        PROVE  Held(chain', f, OwnerOf(at'[f]), head'[f])
    <3>1. CASE f = e
      BY <1>1, <1>4, <2>1, <2>3, <3>1 DEF Held
    <3>2. CASE f # e
      <4>1. Held(chain, f, OwnerOf(at[f]), head[f])
        BY <2>2, <2>3, <3>2 DEF IInv, HeadHeld
      <4> QED
        BY <1>1, <1>4, <3>2, <4>1 DEF Held
    <3> QED
      BY <3>1, <3>2
  <2> QED
    BY <2>3 DEF HeadHeld
<1>11. StageHeld'
  <2> SUFFICES ASSUME NEW f \in Execution, NEW p \in Owner, stage'[f][p] # None
               PROVE  Held(chain', f, p, stage'[f][p])
    BY DEF StageHeld
  <2>1. CASE f = e /\ p = o /\ at[e] \in StageEnd
    <3>1. Appended(e)
      BY <1>1, <2>1 DEF Appended, Inside, Posts, StageEnd
    <3>2. Held(chain, e, o, head[e])
      BY <3>1 DEF IInv, HeadHeld
    <3> QED
      BY <1>1, <1>5, <2>1, <3>2 DEF Held
  <2>2. CASE ~(f = e /\ p = o /\ at[e] \in StageEnd)
    <3>1. stage'[f][p] = stage[f][p]
      BY <1>5, <2>2
    <3>2. Held(chain, f, p, stage[f][p])
      BY <3>1 DEF IInv, StageHeld
    <3> QED
      BY <1>1, <3>1, <3>2 DEF Held
  <2> QED
    BY <2>1, <2>2
<1>12. KarmaBound' /\ LateBound'
  <2>1. chain["karma"] \in Seq(Entry)
    BY DEF TypeOK, Owner
  <2>2. \A i \in 1..Len(chain["karma"]) : chain["karma"][i] \in Entry
    BY <2>1
  <2>3. \A m \in late : m.entry \in Entry
    BY DEF TypeOK
  <2> QED
    BY <1>1, <1>6, <2>2, <2>3 DEF IInv, KarmaBound, LateBound
<1> QED
  BY <1>7, <1>8, <1>9, <1>10, <1>11, <1>12 DEF IInv

\* Nothing of the chains, the rows and the heads changes, and whoever is under the
\* lease stays in his stage or begins one.
LEMMA StayInv ==
    ASSUME TypeOK, IInv, UNCHANGED <<chain, stage, head>>, PlaceOK', LateBound',
           \A f \in Execution : pc'[f] \in Inside =>
              \/ /\ pc[f] \in Inside /\ at'[f] = at[f]
                 /\ pc[f] = "ready" /\ at[f] \in ReadsHead
                       => stage[f][OwnerOf(at[f])] = None \/ pc'[f] = "ready"
                 /\ pc'[f] = "served" => pc[f] = "served" \/ at[f] \notin Posts
              \/ /\ pc'[f] = "ready" /\ at'[f] \in ReadsHead
                 /\ OwnerOf(at'[f]) = "karma" => stage[f]["bucket"] # None
    PROVE  IInv'
<1>1. /\ \A f \in Execution, o \in Owner : \A n : Held(chain', f, o, n) <=> Held(chain, f, o, n)
      /\ \A y : Bound(y)' <=> Bound(y)
  BY DEF Held, Bound
<1>2. OpenOK'
  BY DEF IInv, OpenOK, Inside
<1>3. BucketFirst'
  BY DEF IInv, BucketFirst
<1>4. HeadHeld'
  <2> SUFFICES ASSUME NEW f \in Execution, Appended(f)'
               PROVE  Held(chain', f, OwnerOf(at'[f]), head'[f])
    BY DEF HeadHeld
  <2>1. Appended(f) /\ at'[f] = at[f]
    BY DEF Appended, Inside, Posts, ReadsHead
  <2> QED
    BY <2>1 DEF IInv, HeadHeld
<1>5. StageHeld' /\ KarmaBound'
  BY <1>1 DEF IInv, StageHeld, KarmaBound
<1> QED
  BY <1>2, <1>3, <1>4, <1>5 DEF IInv

LEMMA ReuseInv ==
    ASSUME TypeOK, IInv, NEW e \in Execution, Reuse(e)
    PROVE  IInv'
<1>1. /\ at[e] \in Request /\ pc[e] = "ready" /\ stage[e][OwnerOf(at[e])] # None
      /\ UNCHANGED <<chain, stage, late, head>>
  BY DEF TypeOK, Reuse
<1>2. PICK l \in {"ready", "between", "done"}, a \in Request :
              /\ pc' = [pc EXCEPT ![e] = l]
              /\ at' = [at EXCEPT ![e] = a]
              /\ LastOf(at[e]) \in LeaseEnd => l # "ready" /\ (l = "between" => a = 7)
              /\ LastOf(at[e]) \notin LeaseEnd => l = "ready" /\ a = LastOf(at[e]) + 1
  BY <1>1, OwnerType, ProceedStep DEF Reuse
<1>3. /\ pc'[e] = l /\ at'[e] = a
      /\ \A f \in Execution \ {e} : pc'[f] = pc[f] /\ at'[f] = at[f]
  BY <1>2 DEF TypeOK
<1>4. l = "ready" => a = 5 /\ stage[e]["bucket"] # None
  BY <1>1, <1>2 DEF Request, LastOf, LeaseEnd, OwnerOf
<1>5. PlaceOK'
  BY <1>2, <1>3 DEF IInv, PlaceOK
<1>6. LateBound'
  BY <1>1 DEF IInv, LateBound, Bound
<1>7. \A f \in Execution \ {e} : pc'[f] \in Inside =>
         /\ pc[f] \in Inside /\ at'[f] = at[f] /\ pc'[f] = pc[f]
  BY <1>3
<1>8. pc'[e] \in Inside => /\ pc'[e] = "ready" /\ at'[e] \in ReadsHead
                           /\ stage[e]["bucket"] # None
  BY <1>3, <1>4 DEF Inside, ReadsHead
<1> QED
  BY <1>1, <1>5, <1>6, <1>7, <1>8, StayInv

LEMMA SendInv ==
    ASSUME TypeOK, IInv, NEW e \in Execution, Send(e)
    PROVE  IInv'
<1>1. /\ pc[e] = "ready" /\ stage[e][OwnerOf(at[e])] = None
      /\ UNCHANGED <<chain, stage, late, head, at>>
      /\ pc'[e] = "sent" /\ \A f \in Execution \ {e} : pc'[f] = pc[f]
  BY DEF TypeOK, Send, Goto
<1>2. PlaceOK'
  BY <1>1 DEF IInv, PlaceOK
<1>3. LateBound'
  BY <1>1 DEF IInv, LateBound, Bound
<1> QED
  BY <1>1, <1>2, <1>3, StayInv DEF Inside

LEMMA ServeInv ==
    ASSUME TypeOK, IInv, NEW e \in Execution, Serve(e)
    PROVE  IInv'
<1> DEFINE o == OwnerOf(at[e])
<1>1. /\ o \in Owner /\ pc[e] = "sent" /\ Posted(e) \in Entry
      /\ UNCHANGED <<stage, late, at>>
      /\ head[e] \in Nat /\ at[e] \in Request
  BY OwnerType, PostedType DEF TypeOK, Serve
<1>2. /\ \A f \in Execution \ {e} : pc'[f] = pc[f] /\ head'[f] = head[f]
      /\ pc'[e] \in {"served", "refused"}
      /\ pc'[e] = "refused" => at[e] \in Posts
  BY DEF TypeOK, Serve, Goto
<1>3. \/ chain' = chain /\ (at[e] \in Posts => pc'[e] = "refused")
      \/ /\ at[e] \in Posts /\ Accepts(o, Posted(e))
         /\ chain' = [chain EXCEPT ![o] = Append(@, Posted(e))]
  BY DEF TypeOK, Serve, Goto
<1>4. \A f \in Execution, p \in Owner, n \in Nat :
         Held(chain, f, p, n) => Held(chain', f, p, n)
  <2> SUFFICES ASSUME NEW f \in Execution, NEW p \in Owner, NEW n \in Nat,
                      Held(chain, f, p, n)
               PROVE  Held(chain', f, p, n)
    OBVIOUS
  <2> QED
    BY <1>1, <1>3, AppendKeeps
<1>5. at[e] \notin ReadsHead => head' = head
  BY DEF Serve
<1>6. OpenOK' /\ BucketFirst' /\ PlaceOK'
  BY <1>1, <1>2 DEF IInv, OpenOK, BucketFirst, PlaceOK, Inside
<1>7. HeadHeld'
  <2>1. ASSUME NEW f \in Execution, Appended(f)'
        PROVE  Held(chain', f, OwnerOf(at[f]), head'[f])
    <3>1. CASE f # e
      <4>1. Appended(f)
        BY <1>1, <1>2, <2>1, <3>1 DEF Appended
      <4>2. Held(chain, f, OwnerOf(at[f]), head[f])
        BY <4>1 DEF IInv, HeadHeld
      <4>3. OwnerOf(at[f]) \in Owner /\ head[f] \in Nat
        BY OwnerType DEF TypeOK
      <4> QED
        BY <1>2, <1>4, <3>1, <4>2, <4>3
    <3>2. CASE f = e /\ at[e] \in {3, 4, 9, 10}
      <4>1. Held(chain, e, o, head[e])
        BY <1>1, <3>2 DEF IInv, HeadHeld, Appended, Inside
      <4>2. head' = head
        BY <1>5, <3>2 DEF ReadsHead
      <4> QED
        BY <1>1, <1>4, <3>2, <4>1, <4>2
    <3>3. CASE f = e /\ at[e] \notin {3, 4, 9, 10}
      <4>1. at[e] \in Posts /\ pc'[e] = "served"
        BY <1>1, <2>1, <3>3 DEF Appended
      <4>2. /\ Accepts(o, Posted(e)) /\ chain' = [chain EXCEPT ![o] = Append(@, Posted(e))]
            /\ head'[e] = head[e]
        BY <1>3, <1>5, <4>1 DEF Posts, ReadsHead
      <4>3. Posted(e).exec = e /\ Posted(e).parent = head[e]
        BY DEF Posted
      <4>4. Held(chain', e, o, head[e])
        BY <1>1, <4>2, <4>3, AppendKeeps
      <4> QED
        BY <3>3, <4>2, <4>4
    <3> QED
      BY <3>1, <3>2, <3>3
  <2> QED
    BY <1>1, <2>1 DEF HeadHeld
<1>8. StageHeld'
  BY <1>1, <1>4 DEF IInv, StageHeld, TypeOK
<1>9. \A y : Bound(y)' <=> Bound(y)
  BY <1>1 DEF Bound
<1>10. KarmaBound'
  <2>1. CASE chain' = chain
    BY <1>9, <2>1 DEF IInv, KarmaBound
  <2>2. CASE chain' = [chain EXCEPT ![o] = Append(@, Posted(e))]
    <3>1. o = "karma" => Bound(Posted(e))
      BY <1>1 DEF IInv, BucketFirst, Inside, Bound, Posted
    <3> QED
      BY <1>1, <2>2, <3>1, AppendBinds DEF IInv
  <2> QED
    BY <1>3, <2>1, <2>2
<1>11. LateBound'
  BY <1>1, <1>9 DEF IInv, LateBound
<1> QED
  BY <1>6, <1>7, <1>8, <1>10, <1>11 DEF IInv

LEMMA ServeLateInv ==
    ASSUME TypeOK, IInv, NEW m \in late, ServeLate(m)
    PROVE  IInv'
<1>1. m.owner \in Owner /\ m.entry \in Entry /\ (m.owner = "karma" => Bound(m.entry))
  BY DEF TypeOK, IInv, LateBound
<1>2. UNCHANGED <<stage, pc, at, head>> /\ late' \subseteq late
  BY DEF ServeLate, local
<1>3. \/ chain' = chain
      \/ /\ Accepts(m.owner, m.entry)
         /\ chain' = [chain EXCEPT ![m.owner] = Append(@, m.entry)]
  BY DEF ServeLate
<1>4. \A f \in Execution, p \in Owner, n \in Nat :
         Held(chain, f, p, n) => Held(chain', f, p, n)
  <2> SUFFICES ASSUME NEW f \in Execution, NEW p \in Owner, NEW n \in Nat,
                      Held(chain, f, p, n)
               PROVE  Held(chain', f, p, n)
    OBVIOUS
  <2> QED
    BY <1>1, <1>3, AppendKeeps
<1>5. \A y : Bound(y)' <=> Bound(y)
  BY <1>2 DEF Bound
<1>6. PlaceOK' /\ OpenOK' /\ BucketFirst' /\ LateBound'
  BY <1>2, <1>5 DEF IInv, PlaceOK, OpenOK, BucketFirst, LateBound
<1>7. HeadHeld'
  <2>1. \A f \in Execution : OwnerOf(at[f]) \in Owner /\ head[f] \in Nat
    BY OwnerType DEF TypeOK
  <2> QED
    BY <1>2, <1>4, <2>1 DEF IInv, HeadHeld, Appended
<1>8. StageHeld'
  BY <1>2, <1>4 DEF IInv, StageHeld, TypeOK
<1>9. KarmaBound'
  <2>1. CASE chain' = chain
    BY <1>5, <2>1 DEF IInv, KarmaBound
  <2>2. CASE chain' = [chain EXCEPT ![m.owner] = Append(@, m.entry)]
    BY <1>1, <1>2, <2>2, AppendBinds DEF IInv
  <2> QED
    BY <1>3, <2>1, <2>2
<1> QED
  BY <1>6, <1>7, <1>8, <1>9 DEF IInv

\* Every step keeps what the chains and the rows have to do with each other.
LEMMA IStep == TInv /\ IInv /\ [Next]_vars => IInv'
<1> SUFFICES ASSUME TypeOK, IInv, [Next]_vars PROVE IInv'
  BY DEF TInv
<1>1. ASSUME NEW e \in Execution, Call(e) PROVE IInv'
  <2>1. /\ pc'[e] = "between" /\ at[e] = 1 /\ UNCHANGED <<chain, stage, late, at, head>>
        /\ \A f \in Execution \ {e} : pc'[f] = pc[f]
    BY <1>1 DEF TypeOK, IInv, PlaceOK, Call, Goto
  <2>2. PlaceOK' /\ LateBound'
    BY <2>1 DEF IInv, PlaceOK, LateBound, Bound
  <2>3. /\ pc'[e] \notin Inside /\ chain' = chain /\ stage' = stage
        /\ \A f \in Execution \ {e} :
              pc'[f] = pc[f] /\ at'[f] = at[f] /\ head'[f] = head[f]
    BY <2>1 DEF Inside
  <2> QED
    BY <2>2, <2>3, QuietInv
<1>2. ASSUME NEW e \in Execution, Approach(e) PROVE IInv'
  <2>1. /\ pc[e] = "between" /\ pc'[e] = "wait" /\ UNCHANGED <<chain, stage, late, at, head>>
        /\ \A f \in Execution \ {e} : pc'[f] = pc[f]
    BY <1>2 DEF TypeOK, Approach, Goto
  <2>2. PlaceOK' /\ LateBound'
    BY <2>1 DEF IInv, PlaceOK, LateBound, Bound
  <2>3. /\ pc'[e] \notin Inside /\ chain' = chain /\ stage' = stage
        /\ \A f \in Execution \ {e} :
              pc'[f] = pc[f] /\ at'[f] = at[f] /\ head'[f] = head[f]
    BY <2>1 DEF Inside
  <2> QED
    BY <2>2, <2>3, QuietInv
<1>3. ASSUME NEW e \in Execution, Acquire(e) PROVE IInv'
  <2>1. /\ pc[e] = "wait" /\ pc'[e] = "ready" /\ UNCHANGED <<chain, stage, late, at, head>>
        /\ \A f \in Execution \ {e} : pc'[f] = pc[f]
    BY <1>3 DEF TypeOK, Acquire, Goto
  <2>2. PlaceOK' /\ LateBound' /\ at[e] \in {1, 7}
    BY <2>1 DEF IInv, PlaceOK, LateBound, Bound
  <2> QED
    BY <2>1, <2>2, QuietInv
<1>4. ASSUME NEW e \in Execution, GiveUp(e) \/ Refused(e) \/ Lost(e) \/ Crash(e) PROVE IInv'
  BY <1>4, LeaveInv DEF GiveUp, Refused, Lost, Crash
<1>5. ASSUME NEW m \in late, DropLate(m) PROVE IInv'
  <2>1. UNCHANGED <<stage, chain, pc, at, head>> /\ late' \subseteq late
    BY <1>5 DEF DropLate, local
  <2>2. PlaceOK' /\ LateBound'
    BY <2>1 DEF IInv, PlaceOK, LateBound, Bound
  <2> QED
    BY <2>1, <2>2, StayInv
<1>6. CASE Tick
  <2>1. UNCHANGED <<stage, chain, pc, at, head>>
    BY <1>6 DEF Tick
  <2>2. \A m \in late' : \E n \in late : m.owner = n.owner /\ m.entry = n.entry
    <3>1. \A m \in late : /\ [m EXCEPT !.left = Less(m.left)].owner = m.owner
                          /\ [m EXCEPT !.left = Less(m.left)].entry = m.entry
      BY DEF TypeOK
    <3> QED
      BY <1>6, <3>1 DEF Tick
  <2>3. PlaceOK' /\ LateBound'
    BY <2>1, <2>2 DEF IInv, PlaceOK, LateBound, Bound
  <2> QED
    BY <2>1, <2>3, StayInv
<1>7. CASE UNCHANGED vars
  <2>1. UNCHANGED <<stage, chain, pc, at, head, late>>
    BY <1>7 DEF vars, local
  <2>2. PlaceOK' /\ LateBound'
    BY <2>1 DEF IInv, PlaceOK, LateBound, Bound
  <2> QED
    BY <2>1, <2>2, StayInv
<1> QED
  BY <1>1, <1>2, <1>3, <1>4, <1>5, <1>6, <1>7, ReuseInv, SendInv, ServeInv, ReceiveInv,
     ServeLateInv DEF Next, Step

\* What a worker has had accepted, what a row records and what Karma repeats agree
\* with the chains.
THEOREM Inductive == Spec => []IInv
<1>1. Init => IInv
  <2> SUFFICES ASSUME Init PROVE IInv
    OBVIOUS
  <2>1. \A e \in Execution : pc[e] = "idle" /\ at[e] = 1 /\ ~Appended(e)
    BY DEF Init, Appended, Inside
  <2>2. \A e \in Execution, o \in Owner : stage[e][o] = None
    BY DEF Init
  <2>3. Len(chain["karma"]) = 0 /\ late = {}
    BY DEF Init, Owner
  <2> QED
    BY <2>1, <2>2, <2>3 DEF IInv, PlaceOK, OpenOK, BucketFirst, HeadHeld, StageHeld,
       KarmaBound, LateBound, Inside
<1> QED
  BY <1>1, IStep, TypeCorrect, PTL DEF Spec

\* A COMPLETED stage is in its owner's chain at the parent that the checkpoint
\* records, and what Karma holds is the Bucket envelope of the checkpoint
\* (_run_integrity_chain, IntegrityStore.append).
THEOREM CheckpointsHeld == Spec => []CheckpointHeld
<1>1. IInv => CheckpointHeld
  BY DEF IInv, StageHeld, Held, KarmaBound, Bound, CheckpointHeld
<1> QED
  BY <1>1, Inductive, PTL

-----------------------------------------------------------------------------
(* The lease, while requests are prompt.                                    *)

\* Two workers under the lease are one.
LEMMA Alone ==
    ASSUME LeaseCovers, Prompt, NEW e \in Execution, NEW f \in Execution,
           pc[e] \in Inside, pc[f] \in Inside
    PROVE  e = f
<1>1. {Me(e)} = {Me(f)}
  BY DEF LeaseCovers
<1>2. Me(e) = Me(f) /\ Me(e).exec = e /\ Me(f).exec = f
  BY <1>1 DEF Me
<1> QED
  BY <1>2

\* The requests ahead of a request take their time, and include the next one.
LEMMA AheadType ==
    ASSUME TypeOK, NEW k \in Request
    PROVE  /\ delay \in Nat /\ Ahead(k) \in Nat
           /\ k \notin LeaseEnd => Ahead(k + 1) + delay = Ahead(k)
           /\ k \in 1..4 => Ahead(5) <= Ahead(k)
           /\ Ahead(k) <= 5 * delay
<1>1. delay \in Nat
  BY TimeAssumption DEF TypeOK
<1> QED
  BY <1>1 DEF Ahead, Request, LeaseEnd

\* A worker under the lease holds it, and its rest.
LEMMA Covered ==
    ASSUME TypeOK, LeaseCovers, Prompt, NEW e \in Execution, pc[e] \in Inside
    PROVE  /\ lease.holder = {Me(e)} /\ ~Free
           /\ timer[e] \in Nat /\ lease.left \in Nat /\ Current(e) \in Nat
           /\ lease.left > Ahead(at[e]) + Current(e)
           /\ lease.left > Current(e)
<1>1. timer[e] \in Nat /\ lease.left \in Nat /\ at[e] \in Request
  BY TimeAssumption DEF TypeOK, Waiting, Term
<1>2. Ahead(at[e]) \in Nat /\ Current(e) \in Nat
  BY <1>1, AheadType DEF Current
<1>3. lease.holder = {Me(e)} /\ lease.left > Ahead(at[e]) + Current(e)
  BY DEF LeaseCovers
<1> QED
  BY <1>1, <1>2, <1>3 DEF Free

\* Steps that leave the chains, the lease and those under it alone.
LEMMA AsideInv ==
    ASSUME LInv, chain' = chain, lease' = lease, delay' = delay, stray' = stray,
           late' \subseteq late,
           \A f \in Execution : pc'[f] \in Inside =>
              /\ pc'[f] = pc[f] /\ at'[f] = at[f] /\ timer'[f] = timer[f]
              /\ calls'[f] = calls[f] /\ head'[f] = head[f]
    PROVE  LInv'
<1>1. Prompt' = Prompt /\ \A k : Ahead(k)' = Ahead(k)
  BY DEF Prompt, Term, Ahead
<1>2. LeaseCovers'
  <2> SUFFICES ASSUME Prompt, NEW f \in Execution, pc'[f] \in Inside
               PROVE  /\ lease'.holder = {Me(f)'}
                      /\ lease'.left > Ahead(at[f])' + Current(f)'
    BY <1>1 DEF LeaseCovers
  <2>1. Me(f)' = Me(f) /\ Current(f)' = Current(f)
    BY DEF Me, Current
  <2> QED
    BY <1>1, <2>1 DEF LInv, LeaseCovers
<1>3. LateCovered'
  BY <1>1 DEF LInv, LateCovered
<1>4. HeadCurrent'
  BY <1>1 DEF LInv, HeadCurrent, Aiming, Inside
<1> QED
  BY <1>2, <1>3, <1>4 DEF LInv

\* Steps after which nobody is under the lease and no post that they left behind
\* is on its way.
LEMMA EmptyInv ==
    ASSUME delay' = delay, Prompt => \A f \in Execution : pc'[f] \notin Inside,
           Prompt /\ ~stray' => late' = {}
    PROVE  LInv'
<1>1. Prompt' = Prompt
  BY DEF Prompt, Term
<1> QED
  BY <1>1 DEF LInv, LeaseCovers, LateCovered, HeadCurrent, Aiming, Inside

\* While somebody is under the lease no post is on its way without its sender.
LEMMA NoneLate ==
    ASSUME LInv, Prompt, ~stray, NEW e \in Execution, pc[e] \in Inside
    PROVE  late = {}
BY DEF LInv, LateCovered

\* A step of the one under the lease that keeps it.
LEMMA UnderInv ==
    ASSUME LInv, NEW e \in Execution, pc[e] \in Inside, pc'[e] \in Inside,
           UNCHANGED <<lease, late, delay, stray, calls>>,
           \A f \in Execution \ {e} : pc'[f] = pc[f],
           Prompt => lease.left > Ahead(at'[e]) + Current(e)',
           Prompt /\ ~stray /\ Aiming(e)' => head'[e] = Len(chain'[OwnerOf(at'[e])])
    PROVE  LInv'
<1>1. Prompt' = Prompt /\ \A k : Ahead(k)' = Ahead(k)
  BY DEF Prompt, Term, Ahead
<1>2. Prompt => \A f \in Execution : pc'[f] \in Inside => f = e
  BY Alone DEF LInv
<1>3. LeaseCovers'
  <2>1. Me(e)' = Me(e)
    BY DEF Me
  <2> QED
    BY <1>1, <1>2, <2>1 DEF LInv, LeaseCovers
<1>4. LateCovered'
  BY <1>1, NoneLate DEF LateCovered
<1>5. HeadCurrent'
  BY <1>1, <1>2 DEF HeadCurrent, Aiming, Inside
<1> QED
  BY <1>3, <1>4, <1>5 DEF LInv

LEMMA AcquireLease ==
    ASSUME TInv, IInv, LInv, NEW e \in Execution, Acquire(e)
    PROVE  LInv'
<1>1. TypeOK /\ pc[e] = "wait" /\ Free /\ at[e] \in {1, 7} /\ at[e] \in Request
  BY DEF TInv, TypeOK, Acquire, IInv, PlaceOK
<1>2. /\ lease' = [holder |-> {Me(e)}, left |-> Term]
      /\ UNCHANGED <<chain, late, at, head, calls, stray, delay>>
      /\ pc'[e] = "ready" /\ \A f \in Execution \ {e} : pc'[f] = pc[f]
  BY <1>1 DEF Acquire, Goto, TypeOK
<1>3. Prompt' = Prompt /\ \A k : Ahead(k)' = Ahead(k)
  BY <1>2 DEF Prompt, Term, Ahead
<1>4. Prompt => \A f \in Execution : pc'[f] \in Inside => f = e
  BY <1>1, <1>2, Covered DEF LInv
<1>5. LeaseCovers'
  <2> SUFFICES ASSUME Prompt
               PROVE  lease'.holder = {Me(e)'} /\ lease'.left > Ahead(at[e])' + Current(e)'
    BY <1>2, <1>3, <1>4 DEF LeaseCovers
  <2>1. Me(e)' = Me(e) /\ Current(e)' = delay
    BY <1>2 DEF Me, Current
  <2>2. delay \in Nat /\ Ahead(at[e]) \in Nat /\ Ahead(at[e]) <= 5 * delay /\ Term \in Nat
    BY <1>1, AheadType, TimeAssumption DEF Term
  <2>3. Term > Ahead(at[e]) + delay
    BY <2>2 DEF Prompt
  <2> QED
    BY <1>2, <1>3, <2>1, <2>3
<1>6. LateCovered'
  <2>1. Prompt /\ ~stray => late = {}
    BY <1>1, TimeAssumption DEF LInv, LateCovered, Free, TypeOK, Term
  <2> QED
    BY <1>2, <1>3, <2>1 DEF LateCovered
<1>7. HeadCurrent'
  BY <1>1, <1>2, <1>3, <1>4 DEF HeadCurrent, Aiming, Inside, Posts
<1> QED
  BY <1>5, <1>6, <1>7 DEF LInv

\* From one request to the next, with the head that the first one has read.
LEMMA ProceedLease ==
    ASSUME TInv, LInv, NEW e \in Execution, NEW k \in Request, Proceed(e, k),
           pc[e] \in Inside, UNCHANGED <<chain, late, head, calls, stray, delay>>,
           \/ k = at[e] /\ pc[e] = "served"
           \/ k = LastOf(at[e])
    PROVE  LInv'
<1>1. TypeOK /\ LeaseCovers /\ at[e] \in Request
  BY DEF TInv, LInv, TypeOK
<1>2. PICK l \in {"ready", "between", "done"}, a \in Request :
              /\ pc' = [pc EXCEPT ![e] = l]
              /\ at' = [at EXCEPT ![e] = a]
              /\ k \in LeaseEnd => l # "ready"
              /\ k \notin LeaseEnd => l = "ready" /\ a = k + 1 /\ lease' = lease
  BY <1>1, ProceedStep
<1>3. /\ pc'[e] = l /\ at'[e] = a
      /\ \A f \in Execution \ {e} : pc'[f] = pc[f]
  BY <1>1, <1>2 DEF TypeOK
<1>4. CASE k \in LeaseEnd
  <2>1. Prompt => \A f \in Execution : pc'[f] \notin Inside
    BY <1>1, <1>2, <1>3, <1>4, Alone DEF Inside
  <2>2. Prompt /\ ~stray => late = {}
    BY NoneLate
  <2> QED
    BY <2>1, <2>2, EmptyInv
<1>5. CASE k \notin LeaseEnd
  <2>1. l = "ready" /\ a = k + 1 /\ lease' = lease /\ Current(e)' = delay
    BY <1>2, <1>3, <1>5 DEF Current
  <2>2. ASSUME Prompt PROVE lease.left > Ahead(a) + delay
    <3>1. /\ lease.left \in Nat /\ Current(e) \in Nat
          /\ lease.left > Ahead(at[e]) + Current(e)
          /\ pc[e] = "ready" => Current(e) = delay
      BY <1>1, <2>2, Covered DEF Current
    <3>2. CASE k = at[e]
      <4>1. Ahead(a) + delay = Ahead(at[e]) /\ Ahead(at[e]) \in Nat
        BY <1>1, <1>5, <2>1, <3>2, AheadType
      <4> QED
        BY <3>1, <4>1
    <3>3. CASE k = LastOf(at[e]) /\ k # at[e]
      <4>1. a = 5 /\ at[e] \in 1..3
        BY <1>1, <1>5, <2>1, <3>3 DEF LastOf, Request, LeaseEnd
      <4>2. Ahead(at[e]) = Ahead(at[e] + 1) + delay /\ Ahead(5) <= Ahead(at[e] + 1)
            /\ Ahead(at[e]) \in Nat /\ Ahead(5) \in Nat /\ Ahead(at[e] + 1) \in Nat /\ delay \in Nat
        <5>1. at[e] + 1 \in 1..4 /\ at[e] + 1 \in Request /\ at[e] \notin LeaseEnd /\ 5 \in Request
          BY <4>1 DEF Request, LeaseEnd
        <5> QED
          BY <1>1, <5>1, AheadType
      <4> QED
        BY <3>1, <4>1, <4>2
    <3> QED
      BY <3>2, <3>3
  <2>3. ASSUME Prompt, ~stray, Aiming(e)' PROVE head'[e] = Len(chain'[OwnerOf(at'[e])])
    <3>1. a \in Posts
      BY <1>3, <2>1, <2>3 DEF Aiming
    <3>2. k = at[e] /\ pc[e] = "served" /\ at[e] \in ReadsHead /\ OwnerOf(a) = OwnerOf(at[e])
      BY <1>1, <2>1, <3>1 DEF Posts, ReadsHead, LastOf, Request, OwnerOf
    <3> QED
      BY <1>3, <2>1, <2>3, <3>2 DEF LInv, HeadCurrent, Aiming
  <2>4. Prompt => lease.left > Ahead(at'[e]) + Current(e)'
    BY <1>3, <2>1, <2>2
  <2> QED
    BY <1>3, <2>1, <2>3, <2>4, UnderInv DEF Inside
<1> QED
  BY <1>4, <1>5

\* A request that is sent, or answered, under the lease.
LEMMA SendLease ==
    ASSUME TInv, LInv, NEW e \in Execution, Send(e)
    PROVE  LInv'
<1>1. /\ TypeOK /\ LeaseCovers /\ pc[e] = "ready" /\ pc'[e] = "sent" /\ timer'[e] = delay
      /\ UNCHANGED <<lease, chain, late, at, head, calls, stray, delay>>
      /\ \A f \in Execution \ {e} : pc'[f] = pc[f]
  BY DEF TInv, TypeOK, LInv, Send, Goto, SetTimer
<1>2. Prompt => lease.left > Ahead(at'[e]) + Current(e)'
  BY <1>1, Covered DEF Current, Inside
<1>3. Prompt /\ ~stray /\ Aiming(e)' => head'[e] = Len(chain'[OwnerOf(at'[e])])
  BY <1>1 DEF LInv, HeadCurrent, Aiming
<1> QED
  BY <1>1, <1>2, <1>3, UnderInv DEF Inside

LEMMA ServeLease ==
    ASSUME TInv, LInv, NEW e \in Execution, Serve(e)
    PROVE  LInv'
<1>1. /\ TypeOK /\ LeaseCovers /\ pc[e] = "sent" /\ pc'[e] \in {"served", "refused"}
      /\ UNCHANGED <<lease, late, at, timer, calls, stray, delay>>
      /\ \A f \in Execution \ {e} : pc'[f] = pc[f]
  BY DEF TInv, TypeOK, LInv, Serve, Goto
<1>2. Prompt => lease.left > Ahead(at'[e]) + Current(e)'
  BY <1>1, Covered DEF Current, Inside
<1>3. Aiming(e)' => head'[e] = Len(chain'[OwnerOf(at'[e])])
  <2>1. CASE at[e] \in ReadsHead
    <3>1. head'[e] = Len(chain[OwnerOf(at[e])]) /\ chain' = chain
      BY <1>1, <2>1 DEF Serve, ReadsHead, Posts, TypeOK
    <3> QED
      BY <1>1, <3>1
  <2>2. CASE at[e] \notin ReadsHead
    BY <1>1, <2>2 DEF Aiming
  <2> QED
    BY <2>1, <2>2
<1> QED
  BY <1>1, <1>2, <1>3, UnderInv DEF Inside

\* The one under the lease leaves it: nobody is left there.
LEMMA OutLease ==
    ASSUME TInv, LInv, NEW e \in Execution, Refused(e) \/ Lost(e)
    PROVE  LInv'
<1>1. /\ TypeOK /\ LeaseCovers /\ pc[e] \in Inside /\ pc'[e] = "idle" /\ delay' = delay
      /\ \A f \in Execution \ {e} : pc'[f] = pc[f]
  BY DEF TInv, TypeOK, LInv, Refused, Lost, Leave, Goto, Inside
<1>2. Prompt => \A f \in Execution : pc'[f] \notin Inside
  BY <1>1, Alone DEF Inside
<1>3. Prompt /\ ~stray' => late' = {}
  <2>1. Prompt /\ ~stray => late = {}
    BY <1>1, NoneLate
  <2>2. ~stray' => ~stray /\ late' = late
    <3>1. ASSUME Lost(e), ~stray' PROVE ~stray /\ late' = late
      <4>1. ~stray /\ ~(pc[e] = "sent" /\ at[e] \in Posts)
        BY <3>1 DEF Lost
      <4> QED
        BY <3>1, <4>1 DEF Lost, Abandon
    <3>2. ASSUME Refused(e), ~stray' PROVE ~stray /\ late' = late
      BY <3>2 DEF Refused
    <3> QED
      BY <3>1, <3>2
  <2> QED
    BY <2>1, <2>2
<1> QED
  BY <1>1, <1>2, <1>3, EmptyInv

\* A worker that dies under the lease leaves at most its own post, which the lease
\* outlasts.
LEMMA CrashLease ==
    ASSUME TInv, LInv, NEW e \in Execution, Crash(e)
    PROVE  LInv'
<1>1. /\ TypeOK /\ LeaseCovers /\ pc'[e] = "idle"
      /\ UNCHANGED <<lease, chain, calls, stray, delay>>
      /\ \A f \in Execution \ {e} :
            pc'[f] = pc[f] /\ at'[f] = at[f] /\ head'[f] = head[f] /\ timer'[f] = timer[f]
  BY DEF TInv, TypeOK, LInv, Crash, Leave, Goto, SetTimer
<1>2. CASE pc[e] \notin Inside
  <2>1. late' = late
    BY <1>2 DEF Crash, Abandon, Inside
  <2> QED
    BY <1>1, <2>1, AsideInv DEF Inside
<1>3. CASE pc[e] \in Inside
  <2>1. Prompt' = Prompt
    BY <1>1 DEF Prompt, Term
  <2>2. Prompt => \A f \in Execution : pc'[f] \notin Inside
    BY <1>1, <1>3, Alone DEF Inside
  <2>3. LeaseCovers' /\ HeadCurrent'
    BY <2>1, <2>2 DEF LeaseCovers, HeadCurrent, Aiming, Inside
  <2>4. ASSUME Prompt, ~stray, NEW m \in late'
        PROVE  lease.holder # {} /\ lease.left > m.left
    <3>1. late = {}
      BY <1>3, <2>4, NoneLate
    <3>2. m = [owner |-> OwnerOf(at[e]), entry |-> Posted(e), left |-> timer[e]]
          /\ pc[e] = "sent"
      BY <3>1 DEF Crash, Abandon
    <3>3. m.left = timer[e] /\ Current(e) = timer[e]
      BY <3>2 DEF Current
    <3> QED
      BY <1>1, <1>3, <2>4, <3>3, Covered
  <2>5. LateCovered'
    BY <1>1, <2>1, <2>2, <2>4 DEF LateCovered
  <2> QED
    BY <2>3, <2>5 DEF LInv
<1> QED
  BY <1>2, <1>3

\* A post without its sender meets nobody under the lease.
LEMMA ServeLateLease ==
    ASSUME TInv, LInv, NEW m \in late, ServeLate(m)
    PROVE  LInv'
<1>1. UNCHANGED <<lease, pc, at, head, timer, calls, stray, delay>> /\ late' \subseteq late
  BY DEF ServeLate, local
<1>2. Prompt' = Prompt /\ \A k : Ahead(k)' = Ahead(k)
  BY <1>1 DEF Prompt, Term, Ahead
<1>3. \A f \in Execution : Me(f)' = Me(f) /\ Current(f)' = Current(f)
  BY <1>1 DEF Me, Current
<1>4. LeaseCovers'
  BY <1>1, <1>2, <1>3 DEF LInv, LeaseCovers
<1>5. LateCovered'
  BY <1>1, <1>2 DEF LInv, LateCovered
<1>6. HeadCurrent'
  <2>1. Prompt /\ ~stray => \A f \in Execution : pc[f] \notin Inside
    BY DEF LInv, LateCovered
  <2> QED
    BY <1>1, <1>2, <2>1 DEF HeadCurrent, Aiming, Inside
<1> QED
  BY <1>4, <1>5, <1>6 DEF LInv

\* A tick takes as much from the lease as from what it has to cover.
LEMMA TickLease ==
    ASSUME TInv, LInv, Tick
    PROVE  LInv'
<1>1. /\ TypeOK /\ LeaseCovers
      /\ UNCHANGED <<chain, pc, at, head, calls, stray, delay>>
  BY DEF TInv, LInv, Tick
<1>2. Prompt' = Prompt /\ \A k : Ahead(k)' = Ahead(k)
  BY <1>1 DEF Prompt, Term, Ahead
<1>3. lease'.holder = lease.holder /\ lease'.left = Less(lease.left) /\ lease.left \in Nat
  BY <1>1, TimeAssumption DEF Tick, TypeOK, Term
<1>4. LeaseCovers'
  <2> SUFFICES ASSUME Prompt, NEW f \in Execution, pc[f] \in Inside
               PROVE  /\ lease'.holder = {Me(f)'}
                      /\ lease'.left > Ahead(at[f])' + Current(f)'
    BY <1>1, <1>2 DEF LeaseCovers
  <2>1. pc[f] \in {"sent", "served", "refused"} /\ timer[f] > 0 /\ timer'[f] = timer[f] - 1
    BY DEF Tick, Inside, Timed
  <2>2. Current(f) = timer[f] /\ Current(f)' = timer[f] - 1 /\ Me(f)' = Me(f)
    BY <1>1, <2>1 DEF Current, Me
  <2>3. /\ lease.holder = {Me(f)} /\ timer[f] \in Nat
        /\ lease.left > Ahead(at[f]) + Current(f) /\ Ahead(at[f]) \in Nat
    BY <1>1, Covered, AheadType DEF TypeOK
  <2> QED
    BY <1>1, <1>2, <1>3, <2>1, <2>2, <2>3 DEF Less
<1>5. LateCovered'
  <2> SUFFICES ASSUME Prompt, ~stray, NEW m \in late'
               PROVE  /\ lease'.holder # {} /\ lease'.left > m.left
                      /\ \A f \in Execution : pc[f] \notin Inside
    BY <1>1, <1>2 DEF LateCovered
  <2>1. PICK n \in late : m = [n EXCEPT !.left = Less(n.left)]
    BY DEF Tick
  <2>2. n.left > 0 /\ n.left \in Nat /\ m.left = Less(n.left)
    BY <1>1, <2>1, TimeAssumption DEF Tick, TypeOK
  <2>3. /\ lease.holder # {} /\ lease.left > n.left
        /\ \A f \in Execution : pc[f] \notin Inside
    BY DEF LInv, LateCovered
  <2> QED
    BY <1>3, <2>2, <2>3 DEF Less
<1>6. HeadCurrent'
  BY <1>1, <1>2 DEF LInv, HeadCurrent, Aiming
<1> QED
  BY <1>4, <1>5, <1>6 DEF LInv

LEMMA LStep == TInv /\ IInv /\ LInv /\ [Next]_vars => LInv'
<1> SUFFICES ASSUME TInv, IInv, LInv, [Next]_vars PROVE LInv'
  OBVIOUS
<1>1. ASSUME NEW e \in Execution, Call(e) \/ Approach(e) \/ GiveUp(e) PROVE LInv'
  <2>1. /\ UNCHANGED <<chain, lease, delay, stray, late>> /\ pc'[e] \notin Inside
        /\ \A f \in Execution \ {e} :
              /\ pc'[f] = pc[f] /\ at'[f] = at[f] /\ timer'[f] = timer[f]
              /\ calls'[f] = calls[f] /\ head'[f] = head[f]
    BY <1>1 DEF TInv, TypeOK, Call, Approach, GiveUp, Leave, Goto, SetTimer, Inside
  <2> QED
    BY <2>1, AsideInv
<1>2. ASSUME NEW m \in late, DropLate(m) PROVE LInv'
  BY <1>2, AsideInv DEF DropLate, local
<1>3. CASE UNCHANGED vars
  BY <1>3, AsideInv DEF vars, local
<1>4. ASSUME NEW e \in Execution, Reuse(e) PROVE LInv'
  <2>1. LastOf(at[e]) \in Request
    BY OwnerType DEF TInv, TypeOK
  <2> QED
    BY <1>4, <2>1, ProceedLease DEF Reuse, Inside
<1>5. ASSUME NEW e \in Execution, Receive(e) PROVE LInv'
  BY <1>5, ProceedLease DEF Receive, Inside, TInv, TypeOK
<1> QED
  BY <1>1, <1>2, <1>3, <1>4, <1>5, AcquireLease, SendLease, ServeLease, OutLease, CrashLease,
     ServeLateLease, TickLease DEF Next, Step

\* With prompt requests the lease covers its holder and what died under it.
THEOREM LeaseInductive == Spec => []LInv
<1>1. Init => LInv
  BY DEF Init, LInv, LeaseCovers, LateCovered, HeadCurrent, Aiming, Inside
<1> QED
  BY <1>1, LStep, TypeCorrect, Inductive, PTL DEF Spec

\* With prompt requests one execution at a time is under the chain-head lease
\* (_chain_head_lease, claim_runtime_lease).
THEOREM ExclusiveHolds == Spec => []Exclusive
<1>1. LInv => Exclusive
  BY Alone DEF LInv, Exclusive
<1> QED
  BY <1>1, LeaseInductive, PTL

\* With prompt requests, until a request is given up with its lease, a post on its
\* way has the head of its owner's chain as parent (_run_integrity_chain).
THEOREM HeadsFresh == Spec => []HeadFresh
<1>1. LInv => HeadFresh
  BY DEF LInv, HeadCurrent, Aiming, HeadFresh
<1> QED
  BY <1>1, LeaseInductive, PTL

=============================================================================
