--------------------------- MODULE WorkspaceProofs ---------------------------
(***************************************************************************)
(* Machine-checked proofs about Workspace, for every number of instances,      *)
(* sessions, actors, workspaces, products, exchanges and requests.            *)
(***************************************************************************)
EXTENDS Workspace, TLAPS

-----------------------------------------------------------------------------
(* The inductive invariant.                                                 *)

\* What an instance may be doing.
Stating == [at : {"state"}, s : SessionId, to : State]
Upserting == [at : {"upsert"}, key : Key, expect : Nat \cup {None}, replace : BOOLEAN,
              write : Write, transfer : SessionId \cup {None}]
Loading == [at : {"load"}, s : SessionId, write : Write \cup {None}]
Transferring == [at : {"target", "record"}, s : SessionId, t : SessionId, w : Place,
                 p : Product \cup {None}, portable : BOOLEAN, write : Write]
Handing == [at : {"handoff"}, t : SessionId, write : Write]
Exchanging == [at : {"exchange", "targets"}, x : Exchange, targets : SUBSET Product,
               all : SUBSET Product, now : 0..MaxOps]
Receiving == [at : {"receipt"}, x : Exchange, p : Product]
Starting == [at : {"idle", "down", "rename", "table", "copy"}]

Job == Stating \cup Upserting \cup Loading \cup Transferring \cup Handing \cup Exchanging
         \cup Receiving \cup Starting

Row == [rev : Nat, data : SUBSET Write]

JobOK == job \in [Instance -> Job] /\ legacy \in [Place -> Row]

\* The session that a request is about stays; the one it makes is nobody else's.
SessionOK ==
    /\ \A i \in Instance :
          /\ job[i].at = "state" => Exists(job[i].s)
          /\ job[i].at = "target" => Exists(job[i].s) /\ ~Exists(job[i].t)
    /\ \A i, k \in Instance :
          job[i].at = "target" /\ job[k].at = "target" /\ job[i].t = job[k].t => i = k

\* What is written, or is going to be, is its owner's; the old contexts of a
\* workspace are its actors'.
WriteOK ==
    /\ \A i \in Instance : job[i].at = "upsert" /\ job[i].key.scope = "workspace" =>
          job[i].write.by = job[i].key.owner
    /\ \A w \in Place : \A d \in legacy[w].data : d.by \in ActorsOf(w)
    /\ WorkspaceIsolated

Handed(t) == [scope |-> "handoff", owner |-> t, of |-> None]
Recorded(t) == \E u \in transfer : u.to = t

\* The context that a transfer carries is the first one of the target.
Arrival(t, w) ==
    /\ Recorded(t)
    /\ context[Handed(t)].rev > 0
    /\ \A a \in answer : a.key = Handed(t) /\ a.rev = 1 => a.data = {w}
    /\ context[Handed(t)].rev = 1 => context[Handed(t)].data = {w}

TransferOK ==
    /\ \A i \in Instance :
          /\ job[i].at = "handoff" => Recorded(job[i].t)
          /\ job[i].at = "upsert" /\ job[i].transfer # None =>
                /\ job[i].key = Handed(job[i].transfer) /\ job[i].expect = 0 /\ job[i].replace
                /\ Recorded(job[i].transfer)
          /\ job[i].at = "load" /\ job[i].write # None => Arrival(job[i].s, job[i].write)
    /\ \A t \in arrived : Arrival(t.to, t.write)

\* An exchange is made by one request, target by target, and then complete.
Making(i) == job[i].at \in {"exchange", "targets"}

Targets(x, t) == exchange[x] # None /\ \A p \in Product : exchange[x][p] # None <=> p \in t

ExchangeOK ==
    /\ \A i \in Instance :
          /\ job[i].at = "exchange" => /\ exchange[job[i].x] = None
                                       /\ job[i].targets = job[i].all
          /\ job[i].at = "targets" => /\ job[i].targets \subseteq job[i].all
                                      /\ Targets(job[i].x, job[i].all \ job[i].targets)
          /\ job[i].at = "receipt" => exchange[job[i].x] # None
    /\ \A i, k \in Instance : Making(i) /\ Making(k) /\ job[i].x = job[k].x => i = k
    /\ \A e \in whole :
          /\ Targets(e.x, e.targets)
          /\ \A i \in Instance : Making(i) => job[i].x # e.x

IInv ==
    /\ JobOK
    /\ SessionOK
    /\ RevisionNamesContent
    /\ WriteOK
    /\ TransferOK
    /\ ExchangeOK

Inv == TypeOK /\ IInv

-----------------------------------------------------------------------------
(* What an instance turns to.                                               *)

\* The other instances go on with what they do.
Only(i) == \A k \in Instance \ {i} : job'[k] = job[k]

LEMMA DoJob ==
    ASSUME JobOK, NEW i \in Instance, NEW j \in Job, Do(i, j)
    PROVE  job' \in [Instance -> Job] /\ job'[i] = j /\ Only(i)
BY DEF JobOK, Do, Only

\* What an instance does tells of what kind its record is.
LEMMA JobKinds ==
    ASSUME NEW j \in Job
    PROVE  /\ j.at = "state" => j \in Stating
           /\ j.at = "upsert" => j \in Upserting
           /\ j.at = "load" => j \in Loading
           /\ j.at \in {"target", "record"} => j \in Transferring
           /\ j.at = "handoff" => j \in Handing
           /\ j.at \in {"exchange", "targets"} => j \in Exchanging
           /\ j.at = "receipt" => j \in Receiving
BY DEF Job, Stating, Upserting, Loading, Transferring, Handing, Exchanging, Receiving, Starting

LEMMA StartingJobs ==
    /\ Idle \in Job /\ Idle.at = "idle" /\ Down \in Job /\ Down.at = "down"
    /\ \A l \in {"rename", "table", "copy"} : [at |-> l] \in Job /\ [at |-> l].at = l
BY DEF Job, Starting, Idle, Down

\* The keys of a session's partitions.
LEMMA KeyType ==
    ASSUME TypeOK, NEW s \in SessionId, Exists(s), NEW scope \in Scope,
           scope = "product" => session[s].product # None
    PROVE  /\ KeyOf(s, scope) \in Key /\ KeyOf(s, scope).scope = scope
           /\ scope = "workspace" => KeyOf(s, scope).owner = session[s].actor
<1>1. session[s] \in Session
  BY DEF TypeOK, Exists
<1>2. session[s].actor \in Actor /\ session[s].place \in Place
      /\ session[s].product \in Product \cup {None}
  BY <1>1 DEF Session
<1>3. scope \in {"session", "workspace", "product", "handoff"}
  BY DEF Scope
<1> QED
  BY <1>2, <1>3 DEF KeyOf, Key

LEMMA HandedKey ==
    ASSUME NEW t \in SessionId
    PROVE  /\ Handed(t) \in Key /\ Handed(t).scope = "handoff"
           /\ KeyOf(t, "handoff") = Handed(t)
BY DEF Handed, Key, KeyOf

-----------------------------------------------------------------------------
(* The steps that leave a part of the invariant alone.                      *)

\* The rows of the sessions are what they were, but for their states.
Persist ==
    \A s \in SessionId : Exists(s) =>
        /\ session'[s] # None
        /\ session'[s].actor = session[s].actor /\ session'[s].place = session[s].place

LEMMA KeepSession ==
    ASSUME SessionOK, NEW i \in Instance, Only(i), Persist,
           \A s \in SessionId : session'[s] # None =>
              Exists(s) \/ \A k \in Instance \ {i} : job[k].at = "target" => job[k].t # s,
           job'[i].at \notin {"state", "target"},
           JobOK
    PROVE  SessionOK'
<1>1. \A k \in Instance \ {i} : /\ job[k].at = "state" => job[k].s \in SessionId
                                /\ job[k].at = "target" => job[k].s \in SessionId
                                                          /\ job[k].t \in SessionId
  BY JobKinds DEF JobOK, Stating, Transferring
<1> QED
  BY <1>1 DEF SessionOK, Exists, Persist, Only

\* No context is written, and nobody is going to write another one.
LEMMA KeepWrite ==
    ASSUME TypeOK, JobOK, WriteOK, NEW i \in Instance, Only(i), Persist,
           UNCHANGED <<context, legacy>>,
           job'[i].at # "upsert"
    PROVE  WriteOK'
<1>1. \A w \in Place : ActorsOf(w) \subseteq ActorsOf(w)'
  BY DEF ActorsOf, Persist, Exists
<1> QED
  BY <1>1 DEF WriteOK, WorkspaceIsolated, Only

LEMMA KeepTransfer ==
    ASSUME TransferOK, NEW i \in Instance, Only(i), UNCHANGED <<context, answer, arrived>>,
           transfer \subseteq transfer', job'[i].at \notin {"handoff", "upsert", "load"}
    PROVE  TransferOK'
BY DEF TransferOK, Arrival, Recorded, Only

\* Revisions go up, and what is answered is what is there.
Grow ==
    /\ \A k \in Key : context'[k] = context[k] \/ context'[k].rev > context[k].rev
    /\ answer \subseteq answer'
    /\ \A a \in answer' \ answer :
          a.rev = context'[a.key].rev /\ a.data = context'[a.key].data
    /\ transfer \subseteq transfer'

LEMMA GrowRevision ==
    ASSUME TypeOK, TypeOK', Grow, RevisionNamesContent
    PROVE  RevisionNamesContent'
<1>1. \A k \in Key : context[k].rev \in Nat /\ context'[k].rev \in Nat
  BY DEF TypeOK
<1>2. \A a \in answer' : a.key \in Key /\ a.rev \in Nat
  BY DEF TypeOK
<1>3. \A a \in answer : /\ a.rev <= context'[a.key].rev
                        /\ a.rev = context'[a.key].rev => a.data = context'[a.key].data
  BY <1>1, <1>2 DEF Grow, RevisionNamesContent
<1>4. \A a \in answer' : /\ a.rev <= context'[a.key].rev
                         /\ a.rev = context'[a.key].rev => a.data = context'[a.key].data
  BY <1>1, <1>2, <1>3 DEF Grow
<1>5. \A a, b \in answer' : a.key = b.key /\ a.rev = b.rev => a.data = b.data
  BY <1>4 DEF Grow, RevisionNamesContent
<1> QED
  BY <1>4, <1>5 DEF RevisionNamesContent

LEMMA GrowArrival ==
    ASSUME TypeOK, TypeOK', Grow, NEW t \in SessionId, NEW w, Arrival(t, w)
    PROVE  Arrival(t, w)'
<1> DEFINE k == Handed(t)
<1>1. k \in Key
  BY HandedKey
<1>2. context[k].rev \in Nat /\ context'[k].rev \in Nat
  BY <1>1 DEF TypeOK
<1>3. /\ \E u \in transfer : u.to = t
      /\ context[k].rev > 0
      /\ \A a \in answer : a.key = k /\ a.rev = 1 => a.data = {w}
      /\ context[k].rev = 1 => context[k].data = {w}
  BY DEF Arrival, Recorded
<1>4. context'[k].rev > 0 /\ (context'[k].rev = 1 => context'[k].data = {w})
  BY <1>1, <1>2, <1>3 DEF Grow
<1>5. \A a \in answer' : a.key = k /\ a.rev = 1 => a.data = {w}
  BY <1>3, <1>4 DEF Grow
<1>6. \E u \in transfer' : u.to = t
  BY <1>3 DEF Grow
<1> QED
  BY <1>4, <1>5, <1>6 DEF Arrival, Recorded, Handed

\* An instance has turned to j, which a transfer may have made.
LEMMA TurnTransfer ==
    ASSUME TypeOK, TypeOK', JobOK, TransferOK, NEW i \in Instance, Only(i), NEW j, job'[i] = j,
           Grow,
           \A t \in arrived' \ arrived : Arrival(t.to, t.write)',
           j.at = "handoff" => \E u \in transfer' : u.to = j.t,
           j.at = "upsert" /\ j.transfer # None =>
              /\ j.key = Handed(j.transfer) /\ j.expect = 0 /\ j.replace
              /\ \E u \in transfer' : u.to = j.transfer,
           j.at = "load" /\ j.write # None => Arrival(j.s, j.write)'
    PROVE  TransferOK'
<1>1. \A k \in Instance \ {i} : job'[k] = job[k]
  BY DEF Only
<1>2. ASSUME NEW k \in Instance
      PROVE  /\ job'[k].at = "handoff" => \E u \in transfer' : u.to = job'[k].t
             /\ job'[k].at = "upsert" /\ job'[k].transfer # None =>
                   /\ job'[k].key = Handed(job'[k].transfer) /\ job'[k].expect = 0
                   /\ job'[k].replace /\ \E u \in transfer' : u.to = job'[k].transfer
  <2>1. CASE k = i
    BY <2>1
  <2>2. CASE k # i
    BY <1>1, <2>2 DEF TransferOK, Recorded, Grow
  <2> QED
    BY <2>1, <2>2
<1>3. ASSUME NEW k \in Instance, k # i, job[k].at = "load", job[k].write # None
      PROVE  Arrival(job[k].s, job[k].write)'
  <2>1. job[k].s \in SessionId
    BY <1>3, JobKinds DEF JobOK, Loading
  <2>2. Arrival(job[k].s, job[k].write)
    BY <1>3 DEF TransferOK
  <2> DEFINE s == job[k].s
             w == job[k].write
  <2>3. s \in SessionId /\ Arrival(s, w)
    BY <2>1, <2>2
  <2> HIDE DEF s, w
  <2>4. \A x \in SessionId : \A y : Arrival(x, y) => Arrival(x, y)'
    BY GrowArrival
  <2> QED
    BY <1>1, <1>3, <2>3, <2>4 DEF s, w
<1>4. \A t \in arrived' : Arrival(t.to, t.write)'
  <2>1. \A x \in SessionId : \A y : Arrival(x, y) => Arrival(x, y)'
    BY GrowArrival
  <2>2. \A t \in arrived : t.to \in SessionId /\ Arrival(t.to, t.write)
    BY DEF TypeOK, TransferOK
  <2> QED
    BY <2>1, <2>2
<1>5. \A k \in Instance : job'[k].at = "load" /\ job'[k].write # None =>
         Arrival(job[k].s, job[k].write)'
  BY <1>1, <1>3
<1> QED
  BY <1>2, <1>4, <1>5 DEF TransferOK, Recorded

LEMMA KeepExchange ==
    ASSUME ExchangeOK, NEW i \in Instance, Only(i), UNCHANGED <<exchange, whole>>,
           job'[i].at \notin {"exchange", "targets", "receipt"}
    PROVE  ExchangeOK'
BY DEF ExchangeOK, Only, Making, Targets

LEMMA KeepRevision ==
    ASSUME RevisionNamesContent, UNCHANGED <<context, answer>>
    PROVE  RevisionNamesContent'
BY DEF RevisionNamesContent

-----------------------------------------------------------------------------
(* Sessions.                                                                *)

\* The type of a row that is inserted or changes its state.
LEMMA InsertType ==
    ASSUME TypeOK, NEW s \in SessionId, NEW a \in Actor, NEW w \in Place,
           NEW p \in Product \cup {None}, NEW parent \in SessionId \cup {None},
           Insert(s, a, w, p, parent), ~Exists(s)
    PROVE  /\ session' \in [SessionId -> Session \cup {None}] /\ Persist
           /\ \A t \in SessionId : session'[t] # None => Exists(t) \/ t = s
           /\ session'[s] # None
<1> DEFINE new == [state |-> "ACTIVE", actor |-> a, place |-> w, product |-> p, parent |-> parent]
<1>1. new \in Session
  BY DEF Session, State
<1>2. session' = [session EXCEPT ![s] = new]
  BY DEF Insert
<1>3. new # None
  BY <1>1, NullAssumption
<1> HIDE DEF new
<1> QED
  BY <1>1, <1>2, <1>3 DEF TypeOK, Persist, Exists

LEMMA StateType ==
    ASSUME TypeOK, NEW s \in SessionId, Exists(s), NEW state \in State, SetState(s, state)
    PROVE  /\ session' \in [SessionId -> Session \cup {None}] /\ Persist
           /\ \A t \in SessionId : session'[t] # None => Exists(t)
<1> DEFINE new == [session[s] EXCEPT !.state = state]
<1>1. session[s] \in Session
  BY DEF TypeOK, Exists
<1>2. /\ new \in Session
      /\ new.actor = session[s].actor /\ new.place = session[s].place
  BY <1>1 DEF Session
<1>3. session' = [session EXCEPT ![s] = new]
  BY DEF SetState
<1>4. new # None
  BY <1>2, NullAssumption
<1> HIDE DEF new
<1> QED
  BY <1>2, <1>3, <1>4 DEF TypeOK, Persist, Exists

LEMMA OpsType ==
    ASSUME TypeOK, Happens
    PROVE  ops' \in 0..MaxOps
BY OpsAssumption DEF TypeOK, Happens

\* A request of a session that is going to change its state.
LEMMA StatingInv ==
    ASSUME Inv, NEW i \in Instance, NEW s \in SessionId,
           Resume(i, s) \/ Suspend(i, s) \/ Close(i, s)
    PROVE  Inv'
<1>1. PICK to \in State : /\ Do(i, [at |-> "state", s |-> s, to |-> to])
                         /\ Exists(s) /\ Happens
                         /\ UNCHANGED <<sessions, context, exchanges, migration, answers>>
  BY DEF Resume, Suspend, Close, State, Request
<1> DEFINE j == [at |-> "state", s |-> s, to |-> to]
<1>2. j \in Job /\ j.at = "state" /\ j.s = s
  BY DEF Job, Stating
<1>3. Do(i, j)
  BY <1>1
<1> HIDE DEF j
<1>4. job' \in [Instance -> Job] /\ job'[i] = j /\ Only(i)
  BY <1>2, <1>3, DoJob DEF Inv, IInv
<1>5. ops' \in 0..MaxOps
  BY <1>1, OpsType DEF Inv
<1>6. TypeOK' /\ JobOK' /\ Persist
  BY <1>1, <1>4, <1>5
  DEF Inv, IInv, TypeOK, JobOK, sessions, exchanges, migration, answers, Persist, Exists
<1>7. SessionOK'
  BY <1>1, <1>2, <1>4 DEF Inv, IInv, SessionOK, Exists, sessions, Only
<1>8. WriteOK' /\ TransferOK' /\ ExchangeOK' /\ RevisionNamesContent'
  BY <1>1, <1>2, <1>4, <1>6, KeepWrite, KeepTransfer, KeepExchange, KeepRevision
  DEF Inv, IInv, sessions, exchanges, migration, answers
<1> QED
  BY <1>6, <1>7, <1>8 DEF Inv, IInv

LEMMA CreateInv ==
    ASSUME Inv, NEW i \in Instance, NEW s \in SessionId, NEW a \in Actor, NEW w \in Place,
           NEW p \in Product \cup {None}, Create(i, s, a, w, p)
    PROVE  Inv'
<1>1. /\ Fresh(s) /\ Insert(s, a, w, p, None) /\ Happens /\ job[i] = Idle
      /\ UNCHANGED <<job, transfer, context, exchanges, migration, answers>>
  BY DEF Create, Request
<1>2. /\ session' \in [SessionId -> Session \cup {None}] /\ Persist
      /\ \A t \in SessionId : session'[t] # None => Exists(t) \/ t = s
  BY <1>1, InsertType DEF Inv, Fresh
<1>3. Only(i) /\ job'[i].at = "idle"
  BY <1>1 DEF Only, Idle
<1>4. ops' \in 0..MaxOps
  BY <1>1, OpsType DEF Inv
<1>5. TypeOK' /\ JobOK'
  BY <1>1, <1>2, <1>4 DEF Inv, IInv, TypeOK, JobOK, exchanges, migration, answers
<1>6. SessionOK'
  BY <1>1, <1>2, <1>3, KeepSession DEF Inv, IInv, Fresh
<1>7. WriteOK' /\ TransferOK' /\ ExchangeOK' /\ RevisionNamesContent'
  BY <1>1, <1>2, <1>3, KeepWrite, KeepTransfer, KeepExchange, KeepRevision
  DEF Inv, IInv, exchanges, migration, answers
<1> QED
  BY <1>5, <1>6, <1>7 DEF Inv, IInv

\* The state that a request has decided on is written, whatever it is now.
LEMMA WrittenInv ==
    ASSUME Inv, NEW i \in Instance, Written(i)
    PROVE  Inv'
<1>1. /\ job[i].at = "state" /\ SetState(job[i].s, job[i].to) /\ Do(i, Idle)
      /\ UNCHANGED <<transfer, context, exchanges, migration, answers, ops>>
  BY DEF Written
<1>2. job[i].s \in SessionId /\ job[i].to \in State /\ Exists(job[i].s)
  BY <1>1, JobKinds DEF Inv, IInv, JobOK, Stating, SessionOK
<1>3. /\ session' \in [SessionId -> Session \cup {None}] /\ Persist
      /\ \A t \in SessionId : session'[t] # None => Exists(t)
  BY <1>1, <1>2, StateType DEF Inv
<1>4. job' \in [Instance -> Job] /\ Only(i) /\ job'[i].at = "idle"
  BY <1>1, DoJob, StartingJobs DEF Inv, IInv
<1>5. TypeOK' /\ JobOK'
  BY <1>1, <1>3, <1>4 DEF Inv, IInv, TypeOK, JobOK, exchanges, migration, answers
<1>6. SessionOK'
  BY <1>3, <1>4, KeepSession DEF Inv, IInv
<1>7. WriteOK' /\ TransferOK' /\ ExchangeOK' /\ RevisionNamesContent'
  BY <1>1, <1>3, <1>4, KeepWrite, KeepTransfer, KeepExchange, KeepRevision
  DEF Inv, IInv, exchanges, migration, answers
<1> QED
  BY <1>5, <1>6, <1>7 DEF Inv, IInv

\* A transfer: its request, the session that it makes, its row.
LEMMA TransferInv ==
    ASSUME Inv, NEW i \in Instance, NEW s \in SessionId, NEW t \in SessionId, NEW w \in Place,
           NEW p \in Product \cup {None}, NEW portable \in BOOLEAN,
           Transfer(i, s, t, w, p, portable)
    PROVE  Inv'
<1> DEFINE j == [at |-> "target", s |-> s, t |-> t, w |-> w, p |-> p, portable |-> portable,
                 write |-> [by |-> session[s].actor, n |-> ops']]
<1>1. /\ Exists(s) /\ Fresh(t) /\ Do(i, j) /\ Happens
      /\ UNCHANGED <<sessions, context, exchanges, migration, answers>>
  BY DEF Transfer, Request
<1>2. ops' \in 0..MaxOps
  BY <1>1, OpsType DEF Inv
<1>3. [by |-> session[s].actor, n |-> ops'] \in Write
  BY <1>1, <1>2 DEF Inv, TypeOK, Exists, Session, Write
<1>4. j \in Job /\ j.at = "target" /\ j.s = s /\ j.t = t
  BY <1>3 DEF Job, Transferring
<1> HIDE DEF j
<1>5. job' \in [Instance -> Job] /\ job'[i] = j /\ Only(i)
  BY <1>1, <1>4, DoJob DEF Inv, IInv
<1>6. TypeOK' /\ JobOK' /\ Persist
  BY <1>1, <1>2, <1>5
  DEF Inv, IInv, TypeOK, JobOK, sessions, exchanges, migration, answers, Persist, Exists
<1>7. SessionOK'
  BY <1>1, <1>4, <1>5 DEF Inv, IInv, SessionOK, Exists, sessions, Only, Fresh
<1>8. WriteOK' /\ TransferOK' /\ ExchangeOK' /\ RevisionNamesContent'
  BY <1>1, <1>4, <1>5, <1>6, KeepWrite, KeepTransfer, KeepExchange, KeepRevision
  DEF Inv, IInv, sessions, exchanges, migration, answers
<1> QED
  BY <1>6, <1>7, <1>8 DEF Inv, IInv

LEMMA CreateTargetInv ==
    ASSUME Inv, NEW i \in Instance, CreateTarget(i)
    PROVE  Inv'
<1> DEFINE j == job[i]
           n == [j EXCEPT !.at = "record"]
<1>1. /\ j.at = "target" /\ Insert(j.t, session[j.s].actor, j.w, j.p, j.s) /\ Do(i, n)
      /\ UNCHANGED <<transfer, context, exchanges, migration, answers, ops>>
  BY DEF CreateTarget
<1>2. j \in Transferring /\ Exists(j.s) /\ ~Exists(j.t)
  BY <1>1, JobKinds DEF Inv, IInv, JobOK, SessionOK
<1>3. /\ j.t \in SessionId /\ j.s \in SessionId /\ j.w \in Place /\ j.p \in Product \cup {None}
      /\ n \in Transferring /\ n.at = "record"
  BY <1>2 DEF Transferring
<1>4. session[j.s].actor \in Actor
  BY <1>2, <1>3 DEF Inv, TypeOK, Exists, Session
<1> HIDE DEF n
<1>5. /\ session' \in [SessionId -> Session \cup {None}] /\ Persist
      /\ \A t \in SessionId : session'[t] # None => Exists(t) \/ t = j.t
  BY <1>1, <1>2, <1>3, <1>4, InsertType DEF Inv
<1>6. job' \in [Instance -> Job] /\ job'[i] = n /\ Only(i)
  BY <1>1, <1>3, DoJob DEF Inv, IInv, Job
<1>7. TypeOK' /\ JobOK'
  BY <1>1, <1>5, <1>6 DEF Inv, IInv, TypeOK, JobOK, exchanges, migration, answers
<1>8. SessionOK'
  <2>1. \A k \in Instance \ {i} : job[k].at = "target" => job[k].t # j.t
    BY <1>1 DEF Inv, IInv, SessionOK
  <2> QED
    BY <1>3, <1>5, <1>6, <2>1, KeepSession DEF Inv, IInv
<1>9. WriteOK' /\ TransferOK' /\ ExchangeOK' /\ RevisionNamesContent'
  BY <1>1, <1>3, <1>5, <1>6, KeepWrite, KeepTransfer, KeepExchange, KeepRevision
  DEF Inv, IInv, exchanges, migration, answers
<1> QED
  BY <1>7, <1>8, <1>9 DEF Inv, IInv

LEMMA RecordTransferInv ==
    ASSUME Inv, NEW i \in Instance, RecordTransfer(i)
    PROVE  Inv'
<1> DEFINE j == job[i]
           u == [from |-> j.s, to |-> j.t]
<1>1. j.at = "record"
      /\ UNCHANGED <<session, context, exchanges, migration, answers, ops>>
      /\ transfer' = transfer \cup {u}
  BY DEF RecordTransfer
<1>2. j \in Transferring
  BY <1>1, JobKinds DEF Inv, IInv, JobOK
<1>3. PICK n \in Job : /\ Do(i, n)
                      /\ \/ n.at = "handoff" /\ n.t = j.t
                         \/ n.at = "load" /\ n.write = None
  <2>1. [at |-> "handoff", t |-> j.t, write |-> j.write] \in Job
    BY <1>2 DEF Transferring, Handing, Job
  <2>2. [at |-> "load", s |-> j.t, write |-> None] \in Job
    BY <1>2 DEF Transferring, Loading, Job
  <2> QED
    BY <2>1, <2>2 DEF RecordTransfer
<1>4. job' \in [Instance -> Job] /\ job'[i] = n /\ Only(i)
  BY <1>3, DoJob DEF Inv, IInv
<1>5. u \in [from : SessionId, to : SessionId] /\ u.to = j.t
  BY <1>2 DEF Transferring
<1> HIDE DEF u
<1>6. TypeOK' /\ JobOK' /\ Persist
  BY <1>1, <1>4, <1>5 DEF Inv, IInv, TypeOK, JobOK, exchanges, migration, answers, Persist, Exists
<1>7. SessionOK'
  BY <1>1, <1>3, <1>4, <1>6, KeepSession DEF Inv, IInv, Exists
<1>8. TransferOK'
  <2>1. \E x \in transfer' : x.to = j.t
    BY <1>1, <1>5
  <2> QED
    BY <1>1, <1>3, <1>4, <1>6, <2>1, TurnTransfer DEF Inv, IInv, answers, Grow
<1>9. WriteOK' /\ ExchangeOK' /\ RevisionNamesContent'
  BY <1>1, <1>3, <1>4, <1>6, KeepWrite, KeepExchange, KeepRevision
  DEF Inv, IInv, exchanges, migration, answers
<1> QED
  BY <1>6, <1>7, <1>8, <1>9 DEF Inv, IInv

LEMMA HandoffInv ==
    ASSUME Inv, NEW i \in Instance, Handoff(i)
    PROVE  Inv'
<1> DEFINE j == job[i]
           up == [at |-> "upsert", key |-> KeyOf(j.t, "handoff"), expect |-> 0,
                  replace |-> TRUE, write |-> j.write, transfer |-> j.t]
<1>1. /\ j.at = "handoff" /\ Do(i, IF session[j.t].state # "ACTIVE" THEN Idle ELSE up)
      /\ UNCHANGED <<sessions, context, exchanges, migration, answers, ops>>
  BY DEF Handoff
<1>2. j \in Handing /\ Recorded(j.t)
  BY <1>1, JobKinds DEF Inv, IInv, JobOK, TransferOK
<1>3. j.t \in SessionId /\ j.write \in Write
  BY <1>2 DEF Handing
<1>4. /\ up \in Job /\ up.at = "upsert" /\ up.key = Handed(j.t) /\ up.key.scope = "handoff"
      /\ up.expect = 0 /\ up.replace /\ up.transfer = j.t
  BY <1>3, HandedKey DEF Job, Upserting
<1> HIDE DEF up
<1>5. PICK n \in {Idle, up} : Do(i, n)
  BY <1>1
<1>6. job' \in [Instance -> Job] /\ job'[i] = n /\ Only(i)
  BY <1>4, <1>5, DoJob, StartingJobs DEF Inv, IInv
<1>7. n = Idle \/ n = up
  OBVIOUS
<1>8. TypeOK' /\ JobOK' /\ Persist
  BY <1>1, <1>6
  DEF Inv, IInv, TypeOK, JobOK, sessions, exchanges, migration, answers, Persist, Exists
<1>9. SessionOK' /\ ExchangeOK' /\ RevisionNamesContent'
  BY <1>1, <1>4, <1>6, <1>7, <1>8, StartingJobs, KeepSession, KeepExchange, KeepRevision
  DEF Inv, IInv, sessions, exchanges, migration, answers, Exists
<1>10. WriteOK'
  BY <1>1, <1>4, <1>6, <1>7, StartingJobs
  DEF Inv, IInv, WriteOK, WorkspaceIsolated, Only, ActorsOf, sessions, migration
<1>11. TransferOK'
  <2>1. \E x \in transfer' : x.to = j.t
    BY <1>1, <1>2 DEF Recorded, sessions
  <2> QED
    BY <1>1, <1>4, <1>6, <1>7, <1>8, <2>1, StartingJobs, TurnTransfer
    DEF Inv, IInv, answers, sessions, Grow
<1> QED
  BY <1>8, <1>9, <1>10, <1>11 DEF Inv, IInv

-----------------------------------------------------------------------------
(* Contexts.                                                                *)

LEMMA UpdateInv ==
    ASSUME Inv, NEW i \in Instance, NEW s \in SessionId, NEW scope \in Scope, NEW expect,
           NEW replace \in BOOLEAN, Update(i, s, scope, expect, replace)
    PROVE  Inv'
<1> DEFINE key == KeyOf(s, scope)
           write == [by |-> session[s].actor, n |-> ops']
           j == [at |-> "upsert", key |-> key, expect |-> expect, replace |-> replace,
                 write |-> write, transfer |-> None]
<1>1. /\ Exists(s) /\ Happens /\ (scope = "product" => session[s].product # None)
      /\ expect \in Known(key) /\ Do(i, j)
      /\ UNCHANGED <<sessions, context, exchanges, migration, answers>>
  BY DEF Update, Request
<1>2. ops' \in 0..MaxOps
  BY <1>1, OpsType DEF Inv
<1>3. key \in Key /\ (key.scope = "workspace" => key.owner = session[s].actor)
  BY <1>1, KeyType DEF Inv
<1>4. write \in Write /\ write.by = session[s].actor
  BY <1>1, <1>2 DEF Inv, TypeOK, Exists, Session, Write
<1>5. expect \in Nat \cup {None}
  BY <1>1 DEF Known, Inv, TypeOK
<1> HIDE DEF key, write
<1>6. /\ j \in Job /\ j.at = "upsert" /\ j.key = key /\ j.write = write /\ j.transfer = None
  BY <1>3, <1>4, <1>5 DEF Job, Upserting
<1> HIDE DEF j
<1>7. job' \in [Instance -> Job] /\ job'[i] = j /\ Only(i)
  BY <1>1, <1>6, DoJob DEF Inv, IInv
<1>8. TypeOK' /\ JobOK' /\ Persist
  BY <1>1, <1>2, <1>7
  DEF Inv, IInv, TypeOK, JobOK, sessions, exchanges, migration, answers, Persist, Exists
<1>9. SessionOK' /\ ExchangeOK' /\ RevisionNamesContent'
  BY <1>1, <1>6, <1>7, <1>8, KeepSession, KeepExchange, KeepRevision
  DEF Inv, IInv, sessions, exchanges, migration, answers, Exists
<1>10. WriteOK'
  BY <1>1, <1>3, <1>4, <1>6, <1>7
  DEF Inv, IInv, WriteOK, WorkspaceIsolated, Only, ActorsOf, sessions, migration
<1>11. TransferOK'
  BY <1>1, <1>6, <1>7, <1>8, TurnTransfer DEF Inv, IInv, answers, sessions, Grow
<1> QED
  BY <1>8, <1>9, <1>10, <1>11 DEF Inv, IInv

\* What upsert_context stores is one revision on.
LEMMA UpsertInv ==
    ASSUME Inv, NEW i \in Instance, Upsert(i)
    PROVE  Inv'
<1> DEFINE j == job[i]
           k == j.key
           row == Revised(context[k], j.write, j.replace)
           load == [at |-> "load", s |-> j.transfer, write |-> j.write]
           new == [key |-> k, rev |-> row.rev, data |-> row.data]
<1>1. j.at = "upsert" /\ UNCHANGED <<sessions, exchanges, migration, arrived, whole, ops>>
  BY DEF Upsert
<1>2. j \in Upserting
  BY <1>1, JobKinds DEF Inv, IInv, JobOK
<1>3. /\ k \in Key /\ j.write \in Write /\ j.replace \in BOOLEAN
      /\ j.transfer \in SessionId \cup {None} /\ context[k] \in Row
  BY <1>2 DEF Upserting, Inv, TypeOK, Row
<1>4. row \in Row /\ row.rev = context[k].rev + 1 /\ context[k].rev \in Nat
      /\ (j.replace => row.data = {j.write})
      /\ row.data \subseteq context[k].data \cup {j.write}
  BY <1>3 DEF Row, Revised
<1> HIDE DEF row
<1>5. CASE Do(i, Idle) /\ UNCHANGED <<context, answer>>
  <2>1. job' \in [Instance -> Job] /\ Only(i) /\ job'[i].at = "idle"
    BY <1>5, DoJob, StartingJobs DEF Inv, IInv
  <2>2. TypeOK' /\ JobOK' /\ Persist
    BY <1>1, <1>5, <2>1
    DEF Inv, IInv, TypeOK, JobOK, sessions, exchanges, migration, Persist, Exists
  <2> QED
    BY <1>1, <1>5, <2>1, <2>2, KeepSession, KeepWrite, KeepTransfer, KeepExchange, KeepRevision
    DEF Inv, IInv, sessions, exchanges, migration, Exists
<1>6. CASE /\ ~Conflict(j.expect, context[k].rev)
           /\ context' = [context EXCEPT ![k] = row]
           /\ \/ /\ j.transfer = None /\ Do(i, Idle) /\ answer' = answer \cup {new}
              \/ j.transfer # None /\ Do(i, load) /\ answer' = answer
  <2>1. /\ context'[k] = row /\ \A x \in Key \ {k} : context'[x] = context[x]
        /\ context' \in [Key -> Row]
    BY <1>3, <1>4, <1>6 DEF Inv, TypeOK, Row
  <2>2. new \in [key : Key, rev : Nat, data : SUBSET Write] /\ new.key = k /\ new.rev = row.rev
        /\ new.data = row.data
    BY <1>3, <1>4 DEF Row
  <2>3. j.transfer # None => load \in Job /\ load.at = "load" /\ load.s = j.transfer
                            /\ load.write = j.write
    BY <1>3 DEF Job, Loading
  <2> HIDE DEF new, load
  <2>4. PICK n \in Job : /\ Do(i, n)
                        /\ \/ n.at = "idle"
                           \/ j.transfer # None /\ n = load
    BY <1>6, <2>3, StartingJobs
  <2>5. job' \in [Instance -> Job] /\ job'[i] = n /\ Only(i)
    BY <2>4, DoJob DEF Inv, IInv
  <2>6. TypeOK' /\ JobOK' /\ Persist
    BY <1>1, <1>6, <2>1, <2>2, <2>5
    DEF Inv, IInv, TypeOK, JobOK, sessions, exchanges, migration, Persist, Exists, Row
  <2>7. Grow
    <3>1. \A x \in Key : context'[x] = context[x] \/ context'[x].rev > context[x].rev
      BY <1>4, <2>1
    <3> QED
      BY <1>1, <1>6, <2>1, <2>2, <3>1 DEF Grow, sessions
  <2>8. RevisionNamesContent'
    BY <2>6, <2>7, GrowRevision DEF Inv, IInv
  <2>9. SessionOK' /\ ExchangeOK'
    BY <1>1, <2>3, <2>4, <2>5, <2>6, KeepSession, KeepExchange
    DEF Inv, IInv, sessions, exchanges, Exists
  <2>10. WriteOK'
    <3>1. WorkspaceIsolated'
      <4>1. k.scope = "workspace" => \A d \in row.data : d.by = k.owner
        BY <1>1, <1>3, <1>4 DEF Inv, IInv, WriteOK, WorkspaceIsolated
      <4> QED
        BY <2>1, <4>1 DEF Inv, IInv, WriteOK, WorkspaceIsolated
    <3>2. job'[i].at # "upsert"
      BY <2>3, <2>4, <2>5
    <3> QED
      BY <1>1, <2>5, <3>1, <3>2 DEF Inv, IInv, WriteOK, Only, ActorsOf, sessions, migration
  <2>11. n.at = "load" /\ n.write # None => Arrival(n.s, n.write)'
    <3> SUFFICES ASSUME j.transfer # None, n = load
                 PROVE  Arrival(n.s, n.write)'
      BY <2>4
    <3>1. k = Handed(j.transfer) /\ j.expect = 0 /\ j.replace /\ Recorded(j.transfer)
      BY <1>1 DEF Inv, IInv, TransferOK
    <3>2. context[k].rev = 0
      BY <1>6, <3>1, NullAssumption DEF Conflict
    <3>3. row.rev = 1 /\ row.data = {j.write}
      BY <1>4, <3>1, <3>2
    <3>4. answer' = answer
      BY <1>6
    <3>5. \A a \in answer : a.key = k => a.rev # 1
      BY <3>2 DEF Inv, IInv, TypeOK, RevisionNamesContent
    <3>6. \E u \in transfer' : u.to = j.transfer
      BY <1>1, <3>1 DEF Recorded, sessions
    <3>7. n.s = j.transfer /\ n.write = j.write
      BY <2>3
    <3> QED
      BY <2>1, <3>1, <3>3, <3>4, <3>5, <3>6, <3>7 DEF Arrival, Recorded, Handed
  <2>12. TransferOK'
    BY <1>1, <2>3, <2>4, <2>5, <2>6, <2>7, <2>11, TurnTransfer DEF Inv, IInv
  <2> QED
    BY <2>6, <2>8, <2>9, <2>10, <2>12 DEF Inv, IInv
<1> QED
  BY <1>5, <1>6 DEF Upsert, row

\* Somebody is told of a partition.
LEMMA ToldType ==
    ASSUME TypeOK, NEW k \in Key
    PROVE  /\ Told(k) \in [key : Key, rev : Nat, data : SUBSET Write]
           /\ Told(k).key = k /\ Told(k).rev = context[k].rev /\ Told(k).data = context[k].data
BY DEF TypeOK, Told

LEMMA LoadInv ==
    ASSUME Inv, NEW i \in Instance, NEW s \in SessionId, NEW scope \in Scope, Load(i, s, scope)
    PROVE  Inv'
<1> DEFINE k == KeyOf(s, scope)
<1>1. /\ Exists(s) /\ Happens /\ (scope = "product" => session[s].product # None)
      /\ answer' = answer \cup {Told(k)} /\ job[i] = Idle
      /\ UNCHANGED <<job, sessions, context, exchanges, migration, arrived, whole>>
  BY DEF Load, Request
<1>2. ops' \in 0..MaxOps
  BY <1>1, OpsType DEF Inv
<1>3. k \in Key
  BY <1>1, KeyType DEF Inv
<1> HIDE DEF k
<1>4. /\ Told(k) \in [key : Key, rev : Nat, data : SUBSET Write]
      /\ Told(k).key = k /\ Told(k).rev = context[k].rev /\ Told(k).data = context[k].data
  BY <1>3, ToldType DEF Inv
<1>5. Only(i) /\ job'[i].at = "idle"
  BY <1>1 DEF Only, Idle
<1>6. TypeOK' /\ JobOK' /\ Persist
  BY <1>1, <1>2, <1>4
  DEF Inv, IInv, TypeOK, JobOK, sessions, exchanges, migration, Persist, Exists
<1>7. Grow
  BY <1>1, <1>4 DEF Grow, sessions
<1>8. RevisionNamesContent'
  BY <1>6, <1>7, GrowRevision DEF Inv, IInv
<1>9. TransferOK'
  BY <1>1, <1>5, <1>6, <1>7, TurnTransfer DEF Inv, IInv
<1>10. SessionOK' /\ WriteOK' /\ ExchangeOK'
  BY <1>1, <1>5, <1>6, KeepSession, KeepWrite, KeepExchange
  DEF Inv, IInv, sessions, exchanges, migration, Exists
<1> QED
  BY <1>6, <1>8, <1>9, <1>10 DEF Inv, IInv

LEMMA LoadTargetInv ==
    ASSUME Inv, NEW i \in Instance, LoadTarget(i)
    PROVE  Inv'
<1> DEFINE j == job[i]
           k == KeyOf(j.s, "handoff")
           t == [to |-> j.s, write |-> j.write]
<1>1. /\ j.at = "load" /\ answer' = answer \cup {Told(k)} /\ Do(i, Idle)
      /\ arrived' = IF j.write = None THEN arrived ELSE arrived \cup {t}
      /\ UNCHANGED <<sessions, context, exchanges, migration, whole, ops>>
  BY DEF LoadTarget
<1>2. j.s \in SessionId /\ j.write \in Write \cup {None}
  BY <1>1, JobKinds DEF Inv, IInv, JobOK, Loading
<1>3. k \in Key
  BY <1>2, HandedKey
<1> HIDE DEF k
<1>4. /\ Told(k) \in [key : Key, rev : Nat, data : SUBSET Write]
      /\ Told(k).key = k /\ Told(k).rev = context[k].rev /\ Told(k).data = context[k].data
  BY <1>3, ToldType DEF Inv
<1>5. job' \in [Instance -> Job] /\ Only(i) /\ job'[i].at = "idle"
  BY <1>1, DoJob, StartingJobs DEF Inv, IInv
<1>6. arrived' \subseteq [to : SessionId, write : Write]
  BY <1>1, <1>2 DEF Inv, TypeOK
<1>7. TypeOK' /\ JobOK' /\ Persist
  BY <1>1, <1>4, <1>5, <1>6
  DEF Inv, IInv, TypeOK, JobOK, sessions, exchanges, migration, Persist, Exists
<1>8. Grow
  BY <1>1, <1>4 DEF Grow, sessions
<1>9. RevisionNamesContent'
  BY <1>7, <1>8, GrowRevision DEF Inv, IInv
<1>10. \A x \in arrived' \ arrived : Arrival(x.to, x.write)'
  <2>1. \A x \in arrived' \ arrived : x.to = j.s /\ x.write = j.write /\ j.write # None
    BY <1>1
  <2>2. j.write # None => Arrival(j.s, j.write)
    BY <1>1 DEF Inv, IInv, TransferOK
  <2>3. \A x \in SessionId : \A y : Arrival(x, y) => Arrival(x, y)'
    BY <1>7, <1>8, GrowArrival DEF Inv
  <2> QED
    BY <1>2, <2>1, <2>2, <2>3
<1>11. TransferOK'
  BY <1>5, <1>7, <1>8, <1>10, TurnTransfer DEF Inv, IInv
<1>12. SessionOK' /\ WriteOK' /\ ExchangeOK'
  BY <1>1, <1>5, <1>7, KeepSession, KeepWrite, KeepExchange
  DEF Inv, IInv, sessions, exchanges, migration, Exists
<1> QED
  BY <1>7, <1>9, <1>11, <1>12 DEF Inv, IInv

-----------------------------------------------------------------------------
(* Exchanges.                                                               *)

\* The rest of the store when only exchanges change.
LEMMA ExchangeStepInv ==
    ASSUME Inv, NEW i \in Instance, Only(i), job' \in [Instance -> Job],
           job'[i].at \in {"idle", "exchange", "targets", "receipt"},
           UNCHANGED <<sessions, context, detached, expired, migration, answer, arrived>>,
           created' \in [Exchange -> 0..MaxOps],
           exchange' \in [Exchange -> [Product -> {"PENDING", None} \cup Receipt] \cup {None}],
           whole' \subseteq [x : Exchange, targets : SUBSET Product],
           ops' \in 0..MaxOps, ExchangeOK'
    PROVE  Inv'
<1>1. TypeOK' /\ JobOK' /\ Persist
  BY DEF Inv, IInv, TypeOK, JobOK, sessions, migration, Persist, Exists
<1>2. SessionOK' /\ WriteOK' /\ TransferOK' /\ RevisionNamesContent'
  BY <1>1, KeepSession, KeepWrite, KeepTransfer, KeepRevision
  DEF Inv, IInv, sessions, migration, Exists
<1> QED
  BY <1>1, <1>2 DEF Inv, IInv

LEMMA CreateExchangeInv ==
    ASSUME Inv, NEW i \in Instance, NEW x \in Exchange, NEW p \in Product,
           NEW targets \in SUBSET Product, CreateExchange(i, x, p, targets)
    PROVE  Inv'
<1> DEFINE j == [at |-> "exchange", x |-> x, targets |-> targets, all |-> targets,
                 now |-> ops']
<1>1. /\ exchange[x] = None /\ Do(i, j) /\ Happens /\ job[i] = Idle
      /\ \A k \in Instance : job[k].at = "exchange" => job[k].x # x
      /\ UNCHANGED <<sessions, context, exchanges, migration, answers>>
  BY DEF CreateExchange, Request
<1>2. j \in Job /\ j.at = "exchange" /\ j.x = x /\ j.targets = j.all
  BY <1>1, OpsType DEF Inv, Job, Exchanging
<1> HIDE DEF j
<1>3. job' \in [Instance -> Job] /\ job'[i] = j /\ Only(i)
  BY <1>1, <1>2, DoJob DEF Inv, IInv
<1>4. /\ \A k \in Instance : Making(k) => job[k].x # x
      /\ \A e \in whole : e.x # x
  BY <1>1 DEF Inv, IInv, ExchangeOK, Making, Targets
<1>5. ExchangeOK'
  BY <1>1, <1>2, <1>3, <1>4
  DEF Inv, IInv, ExchangeOK, Making, Targets, Only, exchanges, answers
<1>6. ops' \in 0..MaxOps
  BY <1>1, OpsType DEF Inv
<1> QED
  BY <1>1, <1>2, <1>3, <1>5, <1>6, ExchangeStepInv DEF exchanges, answers, Inv, TypeOK

LEMMA InsertExchangeInv ==
    ASSUME Inv, NEW i \in Instance, InsertExchange(i)
    PROVE  Inv'
<1> DEFINE j == job[i]
           n == [j EXCEPT !.at = "targets"]
           blank == [p \in Product |-> None]
<1>1. /\ j.at = "exchange" /\ exchange' = [exchange EXCEPT ![j.x] = blank] /\ Do(i, n)
      /\ created' = [created EXCEPT ![j.x] = j.now]
      /\ UNCHANGED <<sessions, context, detached, expired, migration, answers, ops>>
  BY DEF InsertExchange
<1>2. j \in Exchanging
  BY <1>1, JobKinds DEF Inv, IInv, JobOK
<1>3. /\ n \in Job /\ n.at = "targets" /\ n.x = j.x /\ n.targets = j.targets /\ n.all = j.all
      /\ j.x \in Exchange /\ j.now \in 0..MaxOps
  BY <1>2 DEF Exchanging, Job
<1>4. blank \in [Product -> {"PENDING", None} \cup Receipt] /\ blank # None
      /\ \A p \in Product : blank[p] = None
  BY NullAssumption
<1> HIDE DEF n, blank
<1>5. job' \in [Instance -> Job] /\ job'[i] = n /\ Only(i)
  BY <1>1, <1>3, DoJob DEF Inv, IInv
<1>6. /\ exchange' \in [Exchange -> [Product -> {"PENDING", None} \cup Receipt] \cup {None}]
      /\ exchange'[j.x] = blank /\ \A y \in Exchange \ {j.x} : exchange'[y] = exchange[y]
  BY <1>1, <1>3, <1>4 DEF Inv, TypeOK
<1>7. /\ j.targets = j.all /\ Making(i)
      /\ \A k \in Instance \ {i} : Making(k) => job[k].x # j.x
      /\ \A e \in whole : e.x # j.x
  BY <1>1 DEF Inv, IInv, ExchangeOK, Making
<1>8. ExchangeOK'
  <2>1. \A k \in Instance \ {i} : job[k].at \in {"exchange", "targets", "receipt"} =>
           job[k].x \in Exchange
    BY JobKinds DEF Inv, IInv, JobOK, Exchanging, Receiving
  <2>2. \A e \in whole : e.x \in Exchange
    BY DEF Inv, TypeOK
  <2>3. ASSUME NEW k \in Instance
        PROVE  /\ job'[k].at = "exchange" => /\ exchange'[job'[k].x] = None
                                             /\ job'[k].targets = job'[k].all
               /\ job'[k].at = "targets" =>
                     /\ job'[k].targets \subseteq job'[k].all
                     /\ exchange'[job'[k].x] # None
                     /\ \A p \in Product : exchange'[job'[k].x][p] # None <=>
                                             p \in job'[k].all \ job'[k].targets
               /\ job'[k].at = "receipt" => exchange'[job'[k].x] # None
    <3>1. CASE k = i
      BY <1>3, <1>4, <1>5, <1>6, <1>7, <3>1
    <3>2. CASE k # i
      <4>1. job'[k] = job[k] /\ (Making(k) => job[k].x # j.x)
        BY <1>5, <1>7, <3>2 DEF Only
      <4> QED
        BY <1>4, <1>6, <2>1, <3>2, <4>1 DEF Inv, IInv, ExchangeOK, Targets, Making
    <3> QED
      BY <3>1, <3>2
  <2>4. \A k, l \in Instance : Making(k)' /\ Making(l)' /\ job'[k].x = job'[l].x => k = l
    BY <1>3, <1>5, <1>7 DEF Inv, IInv, ExchangeOK, Making, Only
  <2>5. \A e \in whole' :
           /\ exchange'[e.x] # None
           /\ \A p \in Product : exchange'[e.x][p] # None <=> p \in e.targets
           /\ \A k \in Instance : Making(k)' => job'[k].x # e.x
    BY <1>1, <1>3, <1>5, <1>6, <1>7, <2>2
    DEF Inv, IInv, ExchangeOK, Making, Only, Targets, answers
  <2> QED
    BY <2>3, <2>4, <2>5 DEF ExchangeOK, Targets
<1>9. created' \in [Exchange -> 0..MaxOps]
  BY <1>1, <1>3 DEF Inv, TypeOK
<1> QED
  BY <1>1, <1>3, <1>5, <1>6, <1>8, <1>9, ExchangeStepInv DEF answers, Inv, TypeOK

\* One more target, and after the last one the answer.
LEMMA InsertTargetInv ==
    ASSUME Inv, NEW i \in Instance, NEW p \in Product, InsertTarget(i, p)
    PROVE  Inv'
<1> DEFINE j == job[i]
           rest == j.targets \ {p}
           n == [j EXCEPT !.targets = rest]
           e == [x |-> j.x, targets |-> j.all]
<1>1. /\ j.at = "targets" /\ p \in j.targets
      /\ exchange' = [exchange EXCEPT ![j.x][p] = "PENDING"]
      /\ \/ rest = {} /\ Do(i, Idle) /\ whole' = whole \cup {e}
         \/ rest # {} /\ Do(i, n) /\ whole' = whole
      /\ UNCHANGED <<sessions, context, created, detached, expired, migration, answer, arrived,
                     ops>>
  BY DEF InsertTarget, Answered
<1>2. j \in Exchanging
  BY <1>1, JobKinds DEF Inv, IInv, JobOK
<1>3. /\ n \in Job /\ n.at = "targets" /\ n.x = j.x /\ n.targets = rest /\ n.all = j.all
      /\ j.x \in Exchange
      /\ e \in [x : Exchange, targets : SUBSET Product] /\ e.x = j.x /\ e.targets = j.all
  <2>1. j.x \in Exchange /\ j.targets \subseteq Product /\ j.all \subseteq Product
    BY <1>2 DEF Exchanging
  <2>2. n \in Exchanging /\ n.at = "targets" /\ n.x = j.x /\ n.targets = rest /\ n.all = j.all
    BY <1>1, <1>2, <2>1 DEF Exchanging
  <2>3. n \in Job
    BY <2>2 DEF Job
  <2>4. e \in [x : Exchange, targets : SUBSET Product] /\ e.x = j.x /\ e.targets = j.all
    BY <2>1
  <2> QED
    BY <2>1, <2>2, <2>3, <2>4
<1>4. /\ exchange[j.x] # None /\ j.targets \subseteq j.all /\ j.all \subseteq Product
      /\ \A q \in Product : exchange[j.x][q] # None <=> q \in j.all \ j.targets
  BY <1>1, <1>2 DEF Inv, IInv, ExchangeOK, Targets, Exchanging
<1> HIDE DEF n, e
<1>5. PICK m \in Job : /\ Do(i, m)
                      /\ \/ m.at = "idle" /\ rest = {} /\ whole' = whole \cup {e}
                         \/ m = n /\ whole' = whole
  BY <1>1, <1>3, StartingJobs
<1>6. job' \in [Instance -> Job] /\ job'[i] = m /\ Only(i)
  BY <1>5, DoJob DEF Inv, IInv
<1> DEFINE r == [exchange[j.x] EXCEPT ![p] = "PENDING"]
<1>7. /\ r \in [Product -> {"PENDING", None} \cup Receipt] /\ r # None
      /\ \A q \in Product : r[q] # None <=> q \in j.all \ rest
  <2>1. exchange[j.x] \in [Product -> {"PENDING", None} \cup Receipt]
    BY <1>3, <1>4 DEF Inv, TypeOK
  <2>2. r \in [Product -> {"PENDING", None} \cup Receipt] /\ r[p] = "PENDING"
        /\ \A q \in Product \ {p} : r[q] = exchange[j.x][q]
    BY <2>1
  <2>3. "PENDING" # None
    BY NullAssumption
  <2> QED
    BY <1>1, <1>4, <2>2, <2>3, NullAssumption
<1>8. exchange' = [exchange EXCEPT ![j.x] = r]
  BY <1>1
<1> HIDE DEF r
<1>9. /\ exchange' \in [Exchange -> [Product -> {"PENDING", None} \cup Receipt] \cup {None}]
      /\ exchange'[j.x] = r /\ \A y \in Exchange \ {j.x} : exchange'[y] = exchange[y]
  BY <1>3, <1>7, <1>8 DEF Inv, TypeOK
<1>10. /\ \A k \in Instance \ {i} : Making(k) => job[k].x # j.x
       /\ \A f \in whole : f.x # j.x
  BY <1>1 DEF Inv, IInv, ExchangeOK, Making
<1>11. ExchangeOK'
  <2>1. \A k \in Instance \ {i} : job[k].at \in {"exchange", "targets", "receipt"} =>
           job[k].x \in Exchange
    BY JobKinds DEF Inv, IInv, JobOK, Exchanging, Receiving
  <2>2. \A f \in whole : f.x \in Exchange
    BY DEF Inv, TypeOK
  <2>3. ASSUME NEW k \in Instance
        PROVE  /\ job'[k].at = "exchange" => /\ exchange'[job'[k].x] = None
                                             /\ job'[k].targets = job'[k].all
               /\ job'[k].at = "targets" =>
                     /\ job'[k].targets \subseteq job'[k].all
                     /\ exchange'[job'[k].x] # None
                     /\ \A q \in Product : exchange'[job'[k].x][q] # None <=>
                                             q \in job'[k].all \ job'[k].targets
               /\ job'[k].at = "receipt" => exchange'[job'[k].x] # None
    <3>1. CASE k = i
      BY <1>3, <1>4, <1>5, <1>6, <1>7, <1>9, <3>1
    <3>2. CASE k # i
      <4>1. job'[k] = job[k] /\ (Making(k) => job[k].x # j.x)
        BY <1>6, <1>10, <3>2 DEF Only
      <4> QED
        BY <1>7, <1>9, <2>1, <3>2, <4>1 DEF Inv, IInv, ExchangeOK, Targets, Making
    <3> QED
      BY <3>1, <3>2
  <2>4. \A k, l \in Instance : Making(k)' /\ Making(l)' /\ job'[k].x = job'[l].x => k = l
    BY <1>3, <1>5, <1>6, <1>10 DEF Inv, IInv, ExchangeOK, Making, Only
  <2>5. \A f \in whole' :
           /\ exchange'[f.x] # None
           /\ \A q \in Product : exchange'[f.x][q] # None <=> q \in f.targets
           /\ \A k \in Instance : Making(k)' => job'[k].x # f.x
    <3>1. ASSUME NEW f \in whole
          PROVE  /\ exchange'[f.x] # None
                 /\ \A q \in Product : exchange'[f.x][q] # None <=> q \in f.targets
                 /\ \A k \in Instance : Making(k)' => job'[k].x # f.x
      BY <1>3, <1>5, <1>6, <1>9, <1>10, <2>2 DEF Inv, IInv, ExchangeOK, Making, Only, Targets
    <3>2. ASSUME m.at = "idle", rest = {}
          PROVE  /\ exchange'[e.x] # None
                 /\ \A q \in Product : exchange'[e.x][q] # None <=> q \in e.targets
                 /\ \A k \in Instance : Making(k)' => job'[k].x # e.x
      BY <1>3, <1>6, <1>7, <1>9, <1>10, <3>2 DEF Making, Only
    <3> QED
      BY <1>5, <3>1, <3>2
  <2> QED
    BY <2>3, <2>4, <2>5 DEF ExchangeOK, Targets
<1>12. whole' \subseteq [x : Exchange, targets : SUBSET Product]
  BY <1>3, <1>5 DEF Inv, TypeOK
<1> QED
  BY <1>1, <1>3, <1>5, <1>6, <1>9, <1>11, <1>12, ExchangeStepInv DEF Inv, TypeOK

LEMMA AcknowledgeInv ==
    ASSUME Inv, NEW i \in Instance, NEW x \in Exchange, NEW p \in Product, Acknowledge(i, x, p)
    PROVE  Inv'
<1> DEFINE j == [at |-> "receipt", x |-> x, p |-> p]
<1>1. /\ exchange[x] # None /\ Do(i, j) /\ Happens
      /\ UNCHANGED <<sessions, context, exchanges, migration, answers>>
  BY DEF Acknowledge, Request
<1>2. j \in Job /\ j.at = "receipt" /\ j.x = x
  BY DEF Job, Receiving
<1> HIDE DEF j
<1>3. job' \in [Instance -> Job] /\ job'[i] = j /\ Only(i)
  BY <1>1, <1>2, DoJob DEF Inv, IInv
<1>4. ExchangeOK'
  BY <1>1, <1>2, <1>3 DEF Inv, IInv, ExchangeOK, Making, Targets, Only, exchanges, answers
<1>5. ops' \in 0..MaxOps
  BY <1>1, OpsType DEF Inv
<1> QED
  BY <1>1, <1>2, <1>3, <1>4, <1>5, ExchangeStepInv DEF exchanges, answers, Inv, TypeOK

LEMMA RecordReceiptInv ==
    ASSUME Inv, NEW i \in Instance, NEW status \in Receipt, RecordReceipt(i, status)
    PROVE  Inv'
<1> DEFINE j == job[i]
           r == [exchange[j.x] EXCEPT ![j.p] = status]
<1>1. /\ j.at = "receipt" /\ Do(i, Idle)
      /\ \/ exchange' = exchange
         \/ exchange[j.x][j.p] # None /\ exchange' = [exchange EXCEPT ![j.x] = r]
      /\ UNCHANGED <<sessions, context, created, detached, expired, migration, answers, ops>>
  BY DEF RecordReceipt
<1>2. j.x \in Exchange /\ j.p \in Product /\ exchange[j.x] # None
  <2>1. j \in Receiving
    BY <1>1, JobKinds DEF Inv, IInv, JobOK
  <2>2. j.x \in Exchange /\ j.p \in Product
    BY <2>1 DEF Receiving
  <2>3. exchange[j.x] # None
    BY <1>1 DEF Inv, IInv, ExchangeOK
  <2> QED
    BY <2>2, <2>3
<1>3. job' \in [Instance -> Job] /\ Only(i) /\ job'[i].at = "idle"
  BY <1>1, DoJob, StartingJobs DEF Inv, IInv
<1>4. CASE exchange' = exchange
  BY <1>1, <1>3, <1>4, KeepExchange, ExchangeStepInv DEF Inv, IInv, TypeOK, answers
<1>5. CASE exchange[j.x][j.p] # None /\ exchange' = [exchange EXCEPT ![j.x] = r]
  <2>1. exchange[j.x] \in [Product -> {"PENDING", None} \cup Receipt]
    BY <1>2 DEF Inv, TypeOK
  <2>2. status # None
    BY NullAssumption
  <2>3. /\ r \in [Product -> {"PENDING", None} \cup Receipt]
        /\ \A q \in Product : r[q] = None <=> exchange[j.x][q] = None
    BY <1>2, <1>5, <2>1, <2>2
  <2>4. r # None
    BY <2>3, NullAssumption
  <2> HIDE DEF r
  <2>5. /\ exchange' \in [Exchange -> [Product -> {"PENDING", None} \cup Receipt] \cup {None}]
        /\ exchange'[j.x] = r /\ \A y \in Exchange \ {j.x} : exchange'[y] = exchange[y]
    BY <1>2, <1>5, <2>3 DEF Inv, TypeOK
  <2>6. \A y \in Exchange : /\ exchange'[y] = None <=> exchange[y] = None
                            /\ \A q \in Product : exchange'[y][q] = None <=> exchange[y][q] = None
    BY <1>2, <2>3, <2>4, <2>5
  <2>7. ExchangeOK'
    <3>1. \A y \in Exchange : \A t : Targets(y, t)' = Targets(y, t)
      BY <2>6 DEF Targets
    <3>2. \A k \in Instance : job[k].at \in {"exchange", "targets", "receipt"} =>
             job[k].x \in Exchange
      BY JobKinds DEF Inv, IInv, JobOK, Exchanging, Receiving
    <3>3. \A e \in whole : e.x \in Exchange
      BY DEF Inv, TypeOK
    <3>4. \A k \in Instance : Making(k)' => Making(k) /\ job'[k] = job[k]
      BY <1>3 DEF Making, Only
    <3>5. ASSUME NEW k \in Instance
          PROVE  /\ job'[k].at = "exchange" => /\ exchange'[job'[k].x] = None
                                               /\ job'[k].targets = job'[k].all
                 /\ job'[k].at = "targets" =>
                       /\ job'[k].targets \subseteq job'[k].all
                       /\ exchange'[job'[k].x] # None
                       /\ \A q \in Product : exchange'[job'[k].x][q] # None <=>
                                               q \in job'[k].all \ job'[k].targets
                 /\ job'[k].at = "receipt" => exchange'[job'[k].x] # None
      <4>1. CASE k = i
        BY <1>3, <4>1
      <4>2. CASE k # i
        <5>1. job'[k] = job[k]
          BY <1>3, <4>2 DEF Only
        <5> QED
          BY <2>6, <3>2, <5>1 DEF Inv, IInv, ExchangeOK, Targets
      <4> QED
        BY <4>1, <4>2
    <3>6. \A e \in whole' :
             /\ exchange'[e.x] # None
             /\ \A q \in Product : exchange'[e.x][q] # None <=> q \in e.targets
      BY <1>1, <2>6, <3>3 DEF Inv, IInv, ExchangeOK, Targets, answers
    <3> QED
      BY <1>1, <3>4, <3>5, <3>6 DEF Inv, IInv, ExchangeOK, Targets, answers
  <2> QED
    BY <1>1, <1>3, <2>5, <2>7, ExchangeStepInv DEF Inv, TypeOK, answers
<1> QED
  BY <1>1, <1>4, <1>5

-----------------------------------------------------------------------------
(* Processes and the migration.                                             *)

\* The rest of the store when an instance starts, or dies.
LEMMA StartingInv ==
    ASSUME Inv, NEW i \in Instance, NEW l \in {"idle", "down", "rename", "table", "copy"},
           Do(i, [at |-> l]),
           UNCHANGED <<sessions, context, exchanges, legacy, answers>>,
           table' \in {"phase1", "missing", "current"}, ops' \in 0..MaxOps
    PROVE  Inv'
<1> DEFINE j == [at |-> l]
<1>1. j \in Job /\ j.at = l
  BY DEF Job, Starting
<1>2. Do(i, j)
  OBVIOUS
<1> HIDE DEF j
<1>3. job' \in [Instance -> Job] /\ job'[i] = j /\ Only(i)
  BY <1>1, <1>2, DoJob DEF Inv, IInv
<1>4. TypeOK' /\ JobOK' /\ Persist
  BY <1>3 DEF Inv, IInv, TypeOK, JobOK, sessions, exchanges, answers, Persist, Exists
<1>5. SessionOK' /\ WriteOK' /\ TransferOK' /\ RevisionNamesContent' /\ ExchangeOK'
  BY <1>1, <1>3, <1>4, KeepSession, KeepWrite, KeepTransfer, KeepRevision, KeepExchange
  DEF Inv, IInv, sessions, exchanges, answers, Exists
<1> QED
  BY <1>4, <1>5 DEF Inv, IInv

LEMMA StartInv ==
    ASSUME Inv, NEW i \in Instance, Boot(i) \/ Rename(i) \/ CreateTable(i) \/ Crash(i)
    PROVE  Inv'
<1>1. /\ UNCHANGED <<sessions, context, exchanges, legacy, answers>>
      /\ table' \in {"phase1", "missing", "current"}
  BY DEF Boot, Rename, CreateTable, Crash, Inv, TypeOK, migration
<1>2. ops' \in 0..MaxOps
  BY OpsType DEF Boot, Rename, CreateTable, Crash, Inv, TypeOK
<1>3. PICK l \in {"idle", "down", "rename", "table", "copy"} : Do(i, [at |-> l])
  BY DEF Boot, Rename, CreateTable, Crash, Idle, Down
<1> QED
  BY <1>1, <1>2, <1>3, StartingInv

\* Every row that is copied is the first of its key.
LEMMA CopyInv ==
    ASSUME Inv, NEW i \in Instance, Copy(i)
    PROVE  Inv'
<1>1. /\ UNCHANGED <<sessions, exchanges, migration, answers, ops>>
      /\ Do(i, Down) \/ Do(i, Idle)
  BY DEF Copy
<1>2. CASE context' = context
  <2>1. PICK l \in {"idle", "down", "rename", "table", "copy"} : Do(i, [at |-> l])
    BY <1>1 DEF Idle, Down
  <2> QED
    BY <1>1, <1>2, <2>1, StartingInv DEF migration, Inv, TypeOK
<1>3. CASE context' # context
  <2>1. /\ \A a \in Actor, w \in Place : Copied(a, w) => context[WorkspaceKey(a, w)] = Empty
        /\ context' = [k \in Key |->
              IF k.scope = "workspace" /\ Copied(k.owner, k.of) THEN legacy[k.of] ELSE context[k]]
        /\ Do(i, Idle)
    BY <1>3 DEF Copy
  <2>2. job' \in [Instance -> Job] /\ job'[i] = Idle /\ job'[i].at = "idle" /\ Only(i)
    BY <2>1, DoJob, StartingJobs DEF Inv, IInv
  <2>3. \A k \in Key : k.scope = "workspace" =>
           k.owner \in Actor /\ k.of \in Place /\ k = WorkspaceKey(k.owner, k.of)
    BY DEF Key, WorkspaceKey
  <2>4. legacy \in [Place -> Row]
    BY DEF Inv, IInv, JobOK
  <2>5. ASSUME NEW k \in Key
        PROVE  \/ context'[k] = context[k]
               \/ /\ k.scope = "workspace" /\ Copied(k.owner, k.of)
                  /\ context'[k] = legacy[k.of] /\ context[k] = Empty
    BY <2>1, <2>3
  <2>6. context' \in [Key -> [rev : Nat, data : SUBSET Write]]
    BY <2>1, <2>3, <2>4 DEF Inv, TypeOK, Row
  <2>7. TypeOK' /\ JobOK' /\ Persist
    BY <1>1, <2>2, <2>6
    DEF Inv, IInv, TypeOK, JobOK, sessions, exchanges, migration, answers, Persist, Exists
  <2>8. Grow
    <3>1. \A k \in Key : context'[k] = context[k] \/ context'[k].rev > context[k].rev
      BY <2>5 DEF Copied, Empty
    <3> QED
      BY <1>1, <3>1 DEF Grow, sessions, answers
  <2>9. RevisionNamesContent'
    BY <2>7, <2>8, GrowRevision DEF Inv, IInv
  <2>10. TransferOK'
    BY <1>1, <2>2, <2>7, <2>8, TurnTransfer DEF Inv, IInv, answers
  <2>11. WriteOK'
    <3>1. \A w \in Place : ActorsOf(w)' = ActorsOf(w)
      BY <1>1 DEF ActorsOf, sessions
    <3>2. ASSUME NEW k \in Key, k.scope = "workspace", NEW d \in context'[k].data
          PROVE  d.by = k.owner
      BY <2>3, <2>5, <3>2 DEF Inv, IInv, WriteOK, WorkspaceIsolated, Copied
    <3>3. legacy' = legacy
      BY <1>1 DEF migration
    <3> QED
      BY <2>2, <3>1, <3>2, <3>3 DEF Inv, IInv, WriteOK, WorkspaceIsolated, Only
  <2>12. SessionOK' /\ ExchangeOK'
    BY <1>1, <2>2, <2>7, KeepSession, KeepExchange
    DEF Inv, IInv, sessions, exchanges, answers, Exists
  <2> QED
    BY <2>7, <2>9, <2>10, <2>11, <2>12 DEF Inv, IInv
<1> QED
  BY <1>2, <1>3

\* Steps of others than the instances leave transfers and exchanges alone.
LEMMA SameTransfer ==
    ASSUME TransferOK, UNCHANGED <<job, transfer, context, answer, arrived>>
    PROVE  TransferOK'
<1>1. \A t, w : Arrival(t, w) => Arrival(t, w)'
  BY DEF Arrival, Recorded, Handed
<1>2. \A t \in arrived' : Arrival(t.to, t.write)'
  BY <1>1 DEF TransferOK
<1>3. \A i \in Instance : (job[i].at = "load" /\ job[i].write # None =>
                               Arrival(job[i].s, job[i].write))'
  BY DEF TransferOK, Arrival, Recorded
<1> QED
  BY <1>2, <1>3 DEF TransferOK, Recorded

LEMMA SameExchange ==
    ASSUME ExchangeOK, UNCHANGED <<job, exchange, whole>>
    PROVE  ExchangeOK'
BY DEF ExchangeOK, Making, Targets

\* What other instances and time do to products and exchanges.
LEMMA OutsideInv ==
    ASSUME Inv, (\E p \in Product : Switch(p)) \/ (\E x \in Exchange : Expire(x))
    PROVE  Inv'
<1>1. /\ UNCHANGED <<job, session, transfer, context, exchange, created, table, legacy, answer,
                     arrived, whole>>
      /\ detached' \subseteq Product /\ expired' \subseteq Exchange
  BY DEF Switch, Expire, Inv, TypeOK, sessions, migration, answers
<1>2. ops' \in 0..MaxOps
  BY OpsType DEF Switch, Expire, Inv
<1>3. TypeOK' /\ JobOK'
  BY <1>1, <1>2 DEF Inv, IInv, TypeOK, JobOK
<1>4. SessionOK' /\ RevisionNamesContent' /\ WriteOK'
  BY <1>1 DEF Inv, IInv, SessionOK, RevisionNamesContent, WriteOK, WorkspaceIsolated, ActorsOf,
              Exists
<1>5. TransferOK' /\ ExchangeOK'
  BY <1>1, SameTransfer, SameExchange DEF Inv, IInv
<1> QED
  BY <1>3, <1>4, <1>5 DEF Inv, IInv

-----------------------------------------------------------------------------
(* The initial states and the steps.                                        *)

LEMMA InitInv ==
    ASSUME Init
    PROVE  Inv
<1>1. session \in [SessionId -> Session \cup {None}]
  BY DEF Init, Session, State
<1>2. \A k \in Key : context[k] = Empty /\ context[k].rev = 0 /\ context[k].data = {}
  BY DEF Init, Empty
<1>3. \A i \in Instance : job[i] \in {Idle, Down} /\ job[i].at \in {"idle", "down"}
  BY DEF Init, Idle, Down
<1>4. \A w \in Place : ActorsOf(w) \subseteq Actor
  <2>1. \A s \in SessionId : session[s] # None => session[s].actor \in Actor
    BY <1>1 DEF Session
  <2> QED
    BY <2>1 DEF ActorsOf
<1>5. JobOK
  <2>1. \A w \in Place : [by : ActorsOf(w), n : {0}] \subseteq Write
    BY <1>4, OpsAssumption DEF Write
  <2>2. job \in [Instance -> Job]
    BY StartingJobs DEF Init
  <2>3. \A w \in Place : legacy[w] \in Row
    BY <2>1 DEF Init, Row, Empty
  <2> QED
    BY <2>2, <2>3 DEF JobOK, Init
<1>6. TypeOK
  BY <1>1, OpsAssumption DEF Init, TypeOK, Empty
<1>7. \A w \in Place : \A d \in legacy[w].data : d.by \in ActorsOf(w)
  BY DEF Init, Empty
<1> QED
  BY <1>2, <1>3, <1>5, <1>6, <1>7
  DEF Init, Inv, IInv, SessionOK, RevisionNamesContent, WriteOK, WorkspaceIsolated, TransferOK,
      ExchangeOK, Making

LEMMA NextInv ==
    ASSUME Inv, [Next]_vars
    PROVE  Inv'
<1>1. CASE vars' = vars
  <2>1. UNCHANGED <<job, session, transfer, context, exchange, created, detached, expired, table,
                    legacy, answer, arrived, whole, ops>>
    BY <1>1 DEF vars, sessions, exchanges, migration, answers
  <2>2. TypeOK' /\ JobOK'
    BY <2>1 DEF Inv, IInv, TypeOK, JobOK
  <2>3. SessionOK' /\ RevisionNamesContent' /\ WriteOK'
    BY <2>1 DEF Inv, IInv, SessionOK, RevisionNamesContent, WriteOK, WorkspaceIsolated, ActorsOf,
                Exists
  <2>4. TransferOK' /\ ExchangeOK'
    BY <2>1, SameTransfer, SameExchange DEF Inv, IInv
  <2> QED
    BY <2>2, <2>3, <2>4 DEF Inv, IInv
<1>2. ASSUME NEW i \in Instance, SessionStep(i)
      PROVE  Inv'
  BY <1>2, StatingInv, CreateInv, WrittenInv, TransferInv, CreateTargetInv, RecordTransferInv,
     HandoffInv DEF SessionStep
<1>3. ASSUME NEW i \in Instance, ContextStep(i)
      PROVE  Inv'
  BY <1>3, UpdateInv, UpsertInv, LoadInv, LoadTargetInv DEF ContextStep
<1>4. ASSUME NEW i \in Instance, ExchangeStep(i)
      PROVE  Inv'
  BY <1>4, CreateExchangeInv, InsertExchangeInv, InsertTargetInv, AcknowledgeInv, RecordReceiptInv
  DEF ExchangeStep
<1>5. ASSUME NEW i \in Instance, ProcessStep(i)
      PROVE  Inv'
  BY <1>5, StartInv, CopyInv DEF ProcessStep
<1> QED
  BY <1>1, <1>2, <1>3, <1>4, <1>5, OutsideInv DEF Next

-----------------------------------------------------------------------------
(* The theorems.                                                            *)

\* The inductive invariant of every session, context, transfer and exchange
\* that the instances share (runtime.py of the session and context runtimes).
THEOREM Inductive == Spec => []Inv
<1>1. Init => Inv
  BY InitInv
<1>2. Inv /\ [Next]_vars => Inv'
  BY NextInv
<1> QED
  BY <1>1, <1>2, PTL DEF Spec

\* The rows of store.py and what has been answered from them have their types.
THEOREM TypeCorrect == Spec => []TypeOK
<1>1. Inv => TypeOK
  BY DEF Inv
<1> QED
  BY <1>1, Inductive, PTL

\* A revision of upsert_context names one content for all its clients, through
\* replacements, transfers, the migration and crashes.
THEOREM RevisionsName == Spec => []RevisionNamesContent
<1>1. Inv => RevisionNamesContent
  BY DEF Inv, IInv
<1> QED
  BY <1>1, Inductive, PTL

\* A transfer that was answered has left its context as the first content of
\* the target's handoff partition (initialize_transfer).
THEOREM TransfersArrive == Spec => []TransferArrives
<1>1. Inv => TransferArrives
  BY DEF Inv, IInv, TransferOK, Arrival, Recorded, Handed, TransferArrives
<1> QED
  BY <1>1, Inductive, PTL

\* Nothing that one actor wrote is in another one's workspace context, before
\* and after the migration of the old table.
THEOREM IsolationHolds == Spec => []WorkspaceIsolated
<1>1. Inv => WorkspaceIsolated
  BY DEF Inv, IInv, WriteOK
<1> QED
  BY <1>1, Inductive, PTL

\* A page of what a target lists is either all of it or filled with exchanges
\* that are as new as each of the others (ORDER BY created_at DESC LIMIT).
LEMMA PageTells ==
    ASSUME NEW rows, NEW limit, NEW page \in Pages(rows, limit), NEW x \in rows, x \notin page
    PROVE  Cardinality(page) = limit /\ \A y \in page : created[x] <= created[y]
BY DEF Pages

\* An exchange that was answered is in the inbox of its targets, or the page is
\* full of exchanges as new, until it expires; it is in that of no other product
\* (create_product_exchange, product_exchanges).
THEOREM ExchangesDelivered == Spec => []ExchangeDelivered
<1>1. ASSUME Inv
      PROVE  ExchangeDelivered
  <2> SUFFICES ASSUME NEW e \in whole, NEW p \in Product, NEW status \in Filter,
                      NEW limit \in 1..MaxLimit, NEW page \in Inbox(p, status, limit)
               PROVE  /\ e.x \in page => p \in e.targets
                      /\ /\ p \in e.targets /\ e.x \notin expired
                         /\ status \in {None, exchange[e.x][p]}
                         => \/ e.x \in page
                            \/ /\ Cardinality(page) = limit
                               /\ \A y \in page : created[y] >= created[e.x]
    BY DEF ExchangeDelivered
  <2> DEFINE rows == Listed(p, status)
  <2>1. e.x \in Exchange /\ Targets(e.x, e.targets)
    BY <1>1 DEF Inv, IInv, TypeOK, ExchangeOK
  <2>2. page \in Pages(rows, limit) /\ page \subseteq rows
    BY DEF Inbox, Pages
  <2>3. e.x \in rows => p \in e.targets
    BY <2>1 DEF Listed, Targets
  <2>4. p \in e.targets /\ e.x \notin expired /\ status \in {None, exchange[e.x][p]} => e.x \in rows
    BY <2>1 DEF Listed, Targets
  <2>5. rows \subseteq Exchange
    BY DEF Listed
  <2> HIDE DEF rows
  <2>6. ASSUME e.x \in rows, e.x \notin page
        PROVE  Cardinality(page) = limit /\ \A y \in page : created[y] >= created[e.x]
    <3>1. Cardinality(page) = limit /\ \A y \in page : created[e.x] <= created[y]
      BY <2>2, <2>6, PageTells
    <3>2. created[e.x] \in Nat /\ \A y \in page : created[y] \in Nat
      BY <1>1, <2>1, <2>2, <2>5 DEF Inv, TypeOK
    <3> QED
      BY <3>1, <3>2
  <2> QED
    BY <2>2, <2>3, <2>4, <2>6
<1> QED
  BY <1>1, Inductive, PTL

=============================================================================
