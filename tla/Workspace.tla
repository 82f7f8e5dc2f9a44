----------------------------- MODULE Workspace -----------------------------
(***************************************************************************)
(* What the users and products of several runtime instances share in one      *)
(* store: sessions, the context partitions, transfers of context from one      *)
(* session to another, and product exchanges (session-runtime,                 *)
(* context-runtime, the exchange of runtime.py, and their part of store.py),   *)
(* with the migration that gives every actor a workspace context of his own.   *)
(*                                                                         *)
(* A handler never awaits, so an instance serves one request at a time; two    *)
(* instances interleave at every access to the store.  A request that is       *)
(* refused on its first read changes nothing and is no step.                  *)
(*                                                                         *)
(* Abstractions.  A partition's data is the set of the writes that it is made  *)
(* of: a patch adds to it, a replacement starts it anew.  Everybody may know   *)
(* every session (list_sessions) and has its resume token.                    *)
(***************************************************************************)
EXTENDS Naturals, FiniteSets

CONSTANTS
    Instance,   \* runtime instances that share the store
    SessionId,  \* sessions there can ever be
    Actor,      \* users
    Place,      \* workspaces
    Product,    \* products that have been attached at some time
    Exchange,   \* product exchanges there can ever be
    None,       \* SQL NULL
    MaxLimit,   \* exchanges that one listing can be asked for, at most
    MaxOps      \* bound: requests, crashes and what products do, together

ASSUME OpsAssumption == MaxOps \in Nat

\* SessionState.
State == {"ACTIVE", "SUSPENDED", "CLOSED"}

Session == [state : State, actor : Actor, place : Place,
            product : Product \cup {None}, parent : SessionId \cup {None}]

\* ContextScope
Scope == {"session", "workspace", "product", "handoff"}

\* Primary keys of contexts and of workspace_contexts.
Key ==
    [scope : {"session", "handoff"}, owner : SessionId, of : {None}]
      \cup [scope : {"product"}, owner : SessionId, of : Product]
      \cup [scope : {"workspace"}, owner : Actor, of : Place]

\* A write is the request that made it; those before the migration are 0.
Write == [by : Actor, n : 0..MaxOps]

\* get_context of a row that is missing.
Empty == [rev |-> 0, data |-> {}]

Receipt == {"RECEIVED", "CONSUMED", "REJECTED"}

ASSUME NullAssumption ==
    /\ None \notin SessionId \cup Product \cup Nat \cup {"PENDING"} \cup Receipt
    /\ None \notin Session
    /\ None \notin [Product -> {"PENDING", None} \cup Receipt]

Idle == [at |-> "idle"]
Down == [at |-> "down"]

VARIABLES
    job,       \* what each instance is doing
    session,   \* the rows of sessions
    context,   \* the rows of contexts and workspace_contexts
    transfer,  \* the rows of context_transfers
    exchange,  \* the rows of product_exchanges, with their targets
    created,   \* their created_at: the request that made them
    detached,  \* products that are DETACHED
    expired,   \* exchanges whose expires_at has passed
    table,     \* workspace_contexts is of the old kind, missing, or of the new
    legacy,    \* its old rows, here or in workspace_contexts_phase1
    answer,    \* partitions that have been returned to somebody
    arrived,   \* transfers that have been answered, with what they carried
    whole,     \* exchanges whose creation has been answered, with their targets
    ops        \* requests and the like so far

sessions == <<session, transfer>>
exchanges == <<exchange, created, detached, expired>>
migration == <<table, legacy>>
answers == <<answer, arrived, whole>>
vars == <<job, sessions, context, exchanges, migration, answers, ops>>

ActorsOf(w) == {session[s].actor : s \in {t \in SessionId :
                    session[t] # None /\ session[t].place = w}}

\* Instances that run, with a session; or a store with the old table and no
\* instance yet: before the migration a workspace had one context, which every
\* actor with a session there could write.
Init ==
    /\ table \in {"phase1", "current"}
    /\ session \in [SessionId -> {None} \cup
                      [state : {"ACTIVE"}, actor : Actor, place : Place,
                       product : Product \cup {None}, parent : {None}]]
    /\ Cardinality({s \in SessionId : session[s] # None})
          \in IF table = "phase1" THEN 0..Cardinality(SessionId) ELSE {1}
    /\ context = [k \in Key |-> Empty]
    /\ transfer = {}
    /\ exchange = [x \in Exchange |-> None]
    /\ created = [x \in Exchange |-> 0]
    /\ detached = {}
    /\ expired = {}
    /\ job = [i \in Instance |-> IF table = "phase1" THEN Down ELSE Idle]
    /\ legacy = [w \in Place |->
                   IF table = "phase1" /\ ActorsOf(w) # {}
                     THEN [rev |-> 1, data |-> [by : ActorsOf(w), n : {0}]]
                     ELSE Empty]
    /\ answer = {} /\ arrived = {} /\ whole = {}
    /\ ops = 0

Do(i, j) == job' = [job EXCEPT ![i] = j]

Happens == ops < MaxOps /\ ops' = ops + 1

\* A request arrives at an instance that is free.
Request(i) == job[i] = Idle /\ Happens

Exists(s) == session[s] # None

\* The new identifier of a session is nobody else's (uuid4).
Fresh(s) ==
    /\ ~Exists(s)
    /\ \A i \in Instance : job[i].at = "target" => job[i].t # s

-----------------------------------------------------------------------------
(* Sessions.                                                                *)

\* create_session
Insert(s, actor, w, p, parent) ==
    session' = [session EXCEPT ![s] =
        [state |-> "ACTIVE", actor |-> actor, place |-> w, product |-> p,
         parent |-> parent]]

\* set_session_state and mark_session_resumed look at no state.
SetState(s, state) == session' = [session EXCEPT ![s].state = state]

Create(i, s, actor, w, p) ==
    /\ Request(i)
    /\ Fresh(s)
    /\ Insert(s, actor, w, p, None)
    /\ UNCHANGED <<job, transfer, context, exchanges, migration, answers>>

Resume(i, s) ==
    /\ Request(i)
    /\ Exists(s) /\ session[s].state # "CLOSED"
    /\ Do(i, [at |-> "state", s |-> s, to |-> "ACTIVE"])
    /\ UNCHANGED <<sessions, context, exchanges, migration, answers>>

Suspend(i, s) ==
    /\ Request(i)
    /\ Exists(s) /\ session[s].state = "ACTIVE"
    /\ Do(i, [at |-> "state", s |-> s, to |-> "SUSPENDED"])
    /\ UNCHANGED <<sessions, context, exchanges, migration, answers>>

Close(i, s) ==
    /\ Request(i)
    /\ Exists(s) /\ session[s].state # "CLOSED"
    /\ Do(i, [at |-> "state", s |-> s, to |-> "CLOSED"])
    /\ UNCHANGED <<sessions, context, exchanges, migration, answers>>

Written(i) ==
    /\ job[i].at = "state"
    /\ SetState(job[i].s, job[i].to)
    /\ Do(i, Idle)
    /\ UNCHANGED <<transfer, context, exchanges, migration, answers, ops>>

-----------------------------------------------------------------------------
(* Contexts.                                                                *)

\* _scope_key, with the actor as owner of a workspace context.
KeyOf(s, scope) ==
    IF scope = "workspace"
      THEN [scope |-> scope, owner |-> session[s].actor, of |-> session[s].place]
      ELSE [scope |-> scope, owner |-> s,
            of |-> IF scope = "product" THEN session[s].product ELSE None]

\* Mutant of Revised: a replacement starts again at the first revision.
RevisedAnew(old, write, replace) ==
    [rev |-> IF replace THEN 1 ELSE old.rev + 1,
     data |-> IF replace THEN {write} ELSE old.data \cup {write}]

\* upsert_context, what it stores.
Revised(old, write, replace) ==
    [rev |-> old.rev + 1,
     data |-> IF replace THEN {write} ELSE old.data \cup {write}]

\* Mutant of Conflict: the expected revision is not compared.
ConflictNever(expect, rev) == FALSE

\* ContextRevisionConflict
Conflict(expect, rev) == expect # None /\ expect # rev

\* Revisions that a client has been told of, or None.
Known(k) == {None, 0} \cup {a.rev : a \in {b \in answer : b.key = k}}

Update(i, s, scope, expect, replace) ==
    /\ Request(i)
    /\ Exists(s) /\ session[s].state = "ACTIVE"
    /\ scope = "product" => session[s].product # None
    /\ expect \in Known(KeyOf(s, scope))
    /\ Do(i, [at |-> "upsert", key |-> KeyOf(s, scope), expect |-> expect,
              replace |-> replace, write |-> [by |-> session[s].actor, n |-> ops'],
              transfer |-> None])
    /\ UNCHANGED <<sessions, context, exchanges, migration, answers>>

\* The transaction of upsert_context.  A transfer goes on to load what it wrote.
Upsert(i) ==
    /\ job[i].at = "upsert"
    /\ LET j == job[i]
           row == Revised(context[j.key], j.write, j.replace)
       IN IF Conflict(j.expect, context[j.key].rev)
            THEN Do(i, Idle) /\ UNCHANGED <<context, answer>>
            ELSE /\ context' = [context EXCEPT ![j.key] = row]
                 /\ IF j.transfer = None
                      THEN /\ Do(i, Idle)
                           /\ answer' = answer \cup
                                 {[key |-> j.key, rev |-> row.rev, data |-> row.data]}
                      ELSE /\ Do(i, [at |-> "load", s |-> j.transfer,
                                     write |-> j.write])
                           /\ UNCHANGED answer
    /\ UNCHANGED <<sessions, exchanges, migration, arrived, whole, ops>>

\* get_context
Told(k) == [key |-> k, rev |-> context[k].rev, data |-> context[k].data]

\* load reads one partition after the other, in MERGE_PRECEDENCE, and nothing
\* relates two of these reads: one of them is a step.  That a row is missing is
\* told as revision 0, and Known to all.
Load(i, s, scope) ==
    /\ Request(i)
    /\ Exists(s)
    /\ scope = "product" => session[s].product # None
    /\ context[KeyOf(s, scope)].rev > 0
    /\ answer' = answer \cup {Told(KeyOf(s, scope))}
    /\ UNCHANGED <<job, sessions, context, exchanges, migration, arrived, whole>>

\* What a transfer answers with.
LoadTarget(i) ==
    /\ job[i].at = "load"
    /\ answer' = answer \cup {Told(KeyOf(job[i].s, "handoff"))}
    /\ arrived' = IF job[i].write = None THEN arrived
                    ELSE arrived \cup {[to |-> job[i].s, write |-> job[i].write]}
    /\ Do(i, Idle)
    /\ UNCHANGED <<sessions, context, exchanges, migration, whole, ops>>

-----------------------------------------------------------------------------
(* Transfers: a session, a row, a context, in three transactions.            *)

Transfer(i, s, t, w, p, portable) ==
    /\ Request(i)
    /\ Exists(s) /\ session[s].state = "ACTIVE"
    /\ Fresh(t)
    /\ Do(i, [at |-> "target", s |-> s, t |-> t, w |-> w, p |-> p,
              portable |-> portable, write |-> [by |-> session[s].actor, n |-> ops']])
    /\ UNCHANGED <<sessions, context, exchanges, migration, answers>>

CreateTarget(i) ==
    /\ job[i].at = "target"
    /\ LET j == job[i] IN
          /\ Insert(j.t, session[j.s].actor, j.w, j.p, j.s)
          /\ Do(i, [j EXCEPT !.at = "record"])
    /\ UNCHANGED <<transfer, context, exchanges, migration, answers, ops>>

\* record_transfer; an empty context is not written.
RecordTransfer(i) ==
    /\ job[i].at = "record"
    /\ LET j == job[i] IN
          /\ transfer' = transfer \cup {[from |-> j.s, to |-> j.t]}
          /\ Do(i, IF j.portable
                     THEN [at |-> "handoff", t |-> j.t, write |-> j.write]
                     ELSE [at |-> "load", s |-> j.t, write |-> None])
    /\ UNCHANGED <<session, context, exchanges, migration, answers, ops>>

\* initialize_transfer updates a session that must still be ACTIVE.
Handoff(i) ==
    /\ job[i].at = "handoff"
    /\ LET j == job[i] IN
          Do(i, IF session[j.t].state # "ACTIVE" THEN Idle
                ELSE [at |-> "upsert", key |-> KeyOf(j.t, "handoff"), expect |-> 0,
                      replace |-> TRUE, write |-> j.write, transfer |-> j.t])
    /\ UNCHANGED <<sessions, context, exchanges, migration, answers, ops>>

-----------------------------------------------------------------------------
(* Product exchanges.                                                       *)

\* _require_exchange_product
MayExchange(p) == p \notin detached

\* The clock is read before the row is inserted.
CreateExchange(i, x, p, targets) ==
    /\ Request(i)
    /\ exchange[x] = None
    /\ \A k \in Instance : job[k].at = "exchange" => job[k].x # x
    /\ MayExchange(p) /\ p \notin targets
    /\ targets # {} /\ \A q \in targets : MayExchange(q)
    /\ Do(i, [at |-> "exchange", x |-> x, targets |-> targets, all |-> targets,
              now |-> ops'])
    /\ UNCHANGED <<sessions, context, exchanges, migration, answers>>

InsertExchange(i) ==
    /\ job[i].at = "exchange"
    /\ exchange' = [exchange EXCEPT ![job[i].x] = [p \in Product |-> None]]
    /\ created' = [created EXCEPT ![job[i].x] = job[i].now]
    /\ Do(i, [job[i] EXCEPT !.at = "targets"])
    /\ UNCHANGED <<sessions, context, detached, expired, migration, answers, ops>>

\* The exchange is answered with all its targets.
Answered(i) ==
    /\ Do(i, Idle)
    /\ whole' = whole \cup {[x |-> job[i].x, targets |-> job[i].all]}

\* Mutant of InsertTarget: the last target is answered for and not inserted.
InsertTargetButLast(i, p) ==
    /\ job[i].at = "targets"
    /\ p \in job[i].targets
    /\ LET rest == job[i].targets \ {p} IN
          IF rest = {} THEN Answered(i) /\ UNCHANGED exchange
                       ELSE /\ Do(i, [job[i] EXCEPT !.targets = rest])
                            /\ exchange' = [exchange EXCEPT ![job[i].x][p] = "PENDING"]
                            /\ UNCHANGED whole
    /\ UNCHANGED <<sessions, context, created, detached, expired, migration, answer,
                   arrived, ops>>

\* executemany commits one row after the other.
InsertTarget(i, p) ==
    /\ job[i].at = "targets"
    /\ p \in job[i].targets
    /\ exchange' = [exchange EXCEPT ![job[i].x][p] = "PENDING"]
    /\ LET rest == job[i].targets \ {p} IN
          IF rest = {} THEN Answered(i)
                       ELSE Do(i, [job[i] EXCEPT !.targets = rest]) /\ UNCHANGED whole
    /\ UNCHANGED <<sessions, context, created, detached, expired, migration, answer,
                   arrived, ops>>

\* A receipt, of a product that is looked up before its row is written.
Acknowledge(i, x, p) ==
    /\ Request(i)
    /\ exchange[x] # None
    /\ MayExchange(p)
    /\ Do(i, [at |-> "receipt", x |-> x, p |-> p])
    /\ UNCHANGED <<sessions, context, exchanges, migration, answers>>

\* "Product is not a target for this exchange", or the row is overwritten.
RecordReceipt(i, status) ==
    /\ job[i].at = "receipt"
    /\ LET j == job[i] IN
          exchange' = IF exchange[j.x][j.p] = None THEN exchange
                        ELSE [exchange EXCEPT ![j.x][j.p] = status]
    /\ Do(i, Idle)
    /\ UNCHANGED <<sessions, context, created, detached, expired, migration, answers, ops>>

\* What a target's inbox is filtered by: a status of its own row, or nothing.
Filter == {"PENDING", None} \cup Receipt

\* The rows that list_product_exchanges selects for a target.
Listed(p, status) ==
    {x \in Exchange \ expired : /\ exchange[x] # None /\ exchange[x][p] # None
                               /\ status \in {None, exchange[x][p]}}

\* ORDER BY created_at DESC LIMIT: the newest, without an offset to go on from.
Pages(rows, limit) ==
    {page \in SUBSET rows :
        /\ Cardinality(page) = limit \/ (Cardinality(page) < limit /\ page = rows)
        /\ \A x \in page, y \in rows \ page : created[y] <= created[x]}

\* product_exchanges for a target: what a product that is not DETACHED can be
\* answered.
Inbox(p, status, limit) ==
    {page \in Pages(Listed(p, status), limit) : MayExchange(p)}

\* Another instance attaches or detaches a product; time passes.
Switch(p) ==
    /\ Happens
    /\ detached' = IF p \in detached THEN detached \ {p} ELSE detached \cup {p}
    /\ UNCHANGED <<job, sessions, context, exchange, created, expired, migration,
                   answers>>

Expire(x) ==
    /\ exchange[x] # None
    /\ Happens
    /\ expired' = expired \cup {x}
    /\ UNCHANGED <<job, sessions, context, exchange, created, detached, migration,
                   answers>>

-----------------------------------------------------------------------------
(* Processes, and the migration as each of them starts.                     *)

\* The schema creates the tables that are missing; the old one is migrated.
Boot(i) ==
    /\ job[i] = Down
    /\ Do(i, IF table = "phase1" THEN [at |-> "rename"] ELSE Idle)
    /\ table' = IF table = "missing" THEN "current" ELSE table
    /\ UNCHANGED <<sessions, context, exchanges, legacy, answers, ops>>

\* "Cannot migrate workspace contexts: legacy table already exists"
Rename(i) ==
    /\ job[i].at = "rename"
    /\ IF table = "phase1" THEN Do(i, [at |-> "table"]) /\ table' = "missing"
                           ELSE Do(i, Down) /\ UNCHANGED table
    /\ UNCHANGED <<sessions, context, exchanges, legacy, answers, ops>>

CreateTable(i) ==
    /\ job[i].at = "table"
    /\ IF table = "missing" THEN Do(i, [at |-> "copy"]) /\ table' = "current"
                            ELSE Do(i, Down) /\ UNCHANGED table
    /\ UNCHANGED <<sessions, context, exchanges, legacy, answers, ops>>

\* Mutant of Copied: one of the actors gets the context.
CopiedToOne(a, w) ==
    legacy[w].rev > 0 /\ a \in ActorsOf(w) /\ a = CHOOSE b \in ActorsOf(w) : TRUE

\* Rows are copied whose workspace has one actor only.
Copied(a, w) == legacy[w].rev > 0 /\ ActorsOf(w) = {a}

WorkspaceKey(a, w) == [scope |-> "workspace", owner |-> a, of |-> w]

\* The statement fails, and the start with it, if a row is there already.
Copy(i) ==
    /\ job[i].at = "copy"
    /\ IF \E a \in Actor, w \in Place : Copied(a, w)
                                        /\ context[WorkspaceKey(a, w)] # Empty
         THEN Do(i, Down) /\ UNCHANGED context
         ELSE /\ Do(i, Idle)
              /\ context' = [k \in Key |->
                    IF k.scope = "workspace" /\ Copied(k.owner, k.of)
                      THEN legacy[k.of] ELSE context[k]]
    /\ UNCHANGED <<sessions, exchanges, migration, answers, ops>>

\* The process dies; what it had not committed is gone.
Crash(i) ==
    /\ Happens
    /\ job[i] # Down
    /\ Do(i, Down)
    /\ UNCHANGED <<sessions, context, exchanges, migration, answers>>

-----------------------------------------------------------------------------

SessionStep(i) ==
    \/ Written(i) \/ CreateTarget(i) \/ RecordTransfer(i) \/ Handoff(i)
    \/ \E s \in SessionId :
          \/ Resume(i, s) \/ Suspend(i, s) \/ Close(i, s)
          \/ \E w \in Place, p \in Product \cup {None} :
                \/ \E a \in Actor : Create(i, s, a, w, p)
                \/ \E t \in SessionId, b \in BOOLEAN : Transfer(i, s, t, w, p, b)

ContextStep(i) ==
    \/ Upsert(i) \/ LoadTarget(i)
    \/ \E s \in SessionId, scope \in Scope :
          \/ Load(i, s, scope)
          \/ \E r \in {None} \cup 0..MaxOps + 1, b \in BOOLEAN :
                Update(i, s, scope, r, b)

ExchangeStep(i) ==
    \/ InsertExchange(i)
    \/ \E status \in Receipt : RecordReceipt(i, status)
    \/ \E p \in Product : InsertTarget(i, p)
    \/ \E x \in Exchange, p \in Product :
          \/ Acknowledge(i, x, p)
          \/ \E targets \in SUBSET Product : CreateExchange(i, x, p, targets)

ProcessStep(i) == Boot(i) \/ Rename(i) \/ CreateTable(i) \/ Copy(i) \/ Crash(i)

Next ==
    \/ \E i \in Instance :
          SessionStep(i) \/ ContextStep(i) \/ ExchangeStep(i) \/ ProcessStep(i)
    \/ \E p \in Product : Switch(p)
    \/ \E x \in Exchange : Expire(x)

Spec == Init /\ [][Next]_vars

-----------------------------------------------------------------------------
(* Properties.                                                              *)

\* The rows and what has been answered have their types.
TypeOK ==
    /\ session \in [SessionId -> Session \cup {None}]
    /\ context \in [Key -> [rev : Nat, data : SUBSET Write]]
    /\ transfer \subseteq [from : SessionId, to : SessionId]
    /\ exchange \in [Exchange ->
          [Product -> {"PENDING", None} \cup Receipt] \cup {None}]
    /\ created \in [Exchange -> 0..MaxOps]
    /\ detached \subseteq Product /\ expired \subseteq Exchange
    /\ table \in {"phase1", "missing", "current"}
    /\ answer \subseteq [key : Key, rev : Nat, data : SUBSET Write]
    /\ arrived \subseteq [to : SessionId, write : Write]
    /\ whole \subseteq [x : Exchange, targets : SUBSET Product]
    /\ ops \in 0..MaxOps

\* A revision names one content of its partition, for everybody who has ever
\* been told of it, through replacements, migrations and crashes: that is what
\* makes an update with an expected revision build on what its client has seen.
RevisionNamesContent ==
    \A a \in answer :
        /\ a.rev <= context[a.key].rev
        /\ a.rev = context[a.key].rev => a.data = context[a.key].data
        /\ \A b \in answer : a.key = b.key /\ a.rev = b.rev => a.data = b.data

\* A transfer that was answered has left the context that it carried as the
\* first content of the target's handoff partition, whoever finds the target
\* before it is complete.
TransferArrives ==
    \A t \in arrived :
        LET k == [scope |-> "handoff", owner |-> t.to, of |-> None] IN
        /\ \E u \in transfer : u.to = t.to
        /\ context[k].rev > 0
        /\ \A a \in answer : a.key = k /\ a.rev = 1 => a.data = {t.write}
        /\ context[k].rev = 1 => context[k].data = {t.write}

\* "Safely migrate the Phase 1 workspace table without cross-actor leaks"
\* (store.py:731): nothing that one actor wrote is in another one's context.
WorkspaceIsolated ==
    \A k \in Key : k.scope = "workspace" =>
        \A w \in context[k].data : w.by = k.owner

\* An exchange whose creation was answered is in the inbox of every target that
\* was asked for, wherever processes died, until it expires, or the page is full
\* of exchanges that are as new (so what is PENDING is seen by a product that
\* keeps acknowledging what it is shown); it is in that of no other product,
\* whoever has sent a receipt.
ExchangeDelivered ==
    \A e \in whole, p \in Product, status \in Filter, limit \in 1..MaxLimit :
        \A page \in Inbox(p, status, limit) :
            /\ e.x \in page => p \in e.targets
            /\ /\ p \in e.targets /\ e.x \notin expired
               /\ status \in {None, exchange[e.x][p]}
               => \/ e.x \in page
                  \/ /\ Cardinality(page) = limit
                     /\ \A y \in page : created[y] >= created[e.x]

\* "with pytest.raises(ResourceConflictError): runtime.sessions.resume(...)" of
\* a closed session (tests/test_lifecycle_and_sessions.py:53): it stays closed.
ClosedIsFinal ==
    [][\A s \in SessionId : session[s] # None /\ session[s].state = "CLOSED"
          => session'[s].state = "CLOSED"]_session

=============================================================================
