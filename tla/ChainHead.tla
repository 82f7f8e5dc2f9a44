------------------------------ MODULE ChainHead ------------------------------
(***************************************************************************)
(* The chain-head lease: how strict executions take turns at the hash chains  *)
(* of Bucket, Karma and the Central Depository (_run_integrity_chain,         *)
(* _chain_head_lease and the owner client of ecosystem.py, the leases of       *)
(* store.py, the chain of integration_services/karma.py).                     *)
(*                                                                         *)
(* A stage under the lease reads the head of its owner's chain and posts an    *)
(* entry with that head as parent; owners refuse any other parent.            *)
(*                                                                         *)
(* Time is counted in ticks.  A request takes at most delay of them, from its  *)
(* sending to its answer; what a worker does by itself takes none.  How slow   *)
(* requests are is a matter of the behaviour: from 1 up to the timeout.        *)
(*                                                                         *)
(* Abstractions.  The hash of an entry is its position in its chain, so that   *)
(* the head is the length.  An execution has one worker at a time (Ecosystem   *)
(* has several), and only its stages 6, 7 and 10.                             *)
(***************************************************************************)
EXTENDS Naturals, Sequences

CONSTANTS
    Execution,  \* strict executions that share the store
    T,          \* ecosystem_timeout_seconds
    None,       \* SQL NULL
    Faults,     \* the faults that may strike: a subset of FaultKind
    MaxCalls,   \* bound: calls of execute and recover for each execution
    MaxFaults   \* bound: faults of all kinds together

FaultKind == {"lost", "crash"}

ASSUME TimeAssumption == T \in Nat \ {0}
ASSUME BoundAssumption == MaxCalls \in Nat /\ MaxFaults \in Nat
ASSUME FaultAssumption == Faults \subseteq FaultKind
ASSUME NullAssumption == None \notin Nat

Owner == {"bucket", "karma", "depository"}

\* The requests of the three stages, in order: latest-hash, artifact,
\* get-artifact and validate-replay of Bucket; head and append of Karma; and of
\* the Central Depository what was asked of Bucket.
Request == 1..10
OwnerOf(k) == IF k <= 4 THEN "bucket" ELSE IF k <= 6 THEN "karma" ELSE "depository"
ReadsHead == {1, 5, 7}
Posts == {2, 6, 8}

\* The last request of a stage, and of the stages under one lease.
StageEnd == {4, 6, 10}
LeaseEnd == {6, 10}
LastOf(k) == IF k <= 4 THEN 4 ELSE IF k <= 6 THEN 6 ELSE 10

\* parent: the head it was appended to; of: in Karma, the parent of the Bucket
\* envelope that it repeats.
Entry == [exec : Execution, parent : Nat, of : Nat \cup {None}]

\* lease_holder is unique for each call.
Token == [exec : Execution, call : Nat]
Nobody == [holder |-> {}, left |-> 0]

Waiting == 2 * T       \* deadline of _chain_head_lease
Term == (2 * T) + 1    \* lease_seconds

Control ==
    {"idle", "between", "wait", "ready", "sent", "served", "refused", "done"}

\* Under the lease, as far as the worker knows.
Inside == {"ready", "sent", "served", "refused"}

\* A clock is running.
Timed == {"wait", "sent", "served", "refused"}

VARIABLES
    delay,   \* the longest that a request takes, or goes on without its sender
    lease,   \* the row of runtime_leases; holder is a set of at most one token
    chain,   \* the chains of the owners
    late,    \* posts whose sender is gone, not yet processed
    stray,   \* a post has been left on its way by a call that gave its lease back
    stage,   \* the parent recorded with each COMPLETED stage row, or None
    pc,      \* where each execution's worker is
    at,      \* the request it is at
    head,    \* the head it has read
    timer,   \* ticks left to wait for the lease or for the answer
    calls,   \* calls of each execution so far
    faults   \* faults so far

local == <<pc, at, head, timer>>
vars == <<delay, lease, chain, late, stray, stage, local, calls, faults>>

Init ==
    /\ delay \in 1..T
    /\ lease = Nobody
    /\ chain = [o \in Owner |-> <<>>]
    /\ late = {}
    /\ stray = FALSE
    /\ stage = [e \in Execution |-> [o \in Owner |-> None]]
    /\ pc = [e \in Execution |-> "idle"]
    /\ at = [e \in Execution |-> 1]
    /\ head = [e \in Execution |-> 0]
    /\ timer = [e \in Execution |-> 0]
    /\ calls = [e \in Execution |-> 0]
    /\ faults = 0

Me(e) == [exec |-> e, call |-> calls[e]]
Goto(e, l) == pc' = [pc EXCEPT ![e] = l]
SetTimer(e, n) == timer' = [timer EXCEPT ![e] = n]

\* release_runtime_leases: DELETE ... WHERE holder_instance_id = the caller.
Release(e) == lease' = IF lease.holder = {Me(e)} THEN Nobody ELSE lease

\* The call ends in an exception, or with its process.
Leave(e) ==
    /\ Goto(e, "idle")
    /\ at' = [at EXCEPT ![e] = 1]
    /\ head' = [head EXCEPT ![e] = 0]
    /\ SetTimer(e, 0)

-----------------------------------------------------------------------------
(* The lease.                                                               *)

\* execute or recover arrives at the first stage under the lease.
Call(e) ==
    /\ pc[e] = "idle"
    /\ calls[e] < MaxCalls
    /\ calls' = [calls EXCEPT ![e] = calls[e] + 1]
    /\ Goto(e, "between")
    /\ UNCHANGED <<lease, chain, late, stage, at, head, timer, faults, stray, delay>>

\* _chain_head_lease begins to poll.
Approach(e) ==
    /\ pc[e] = "between"
    /\ Goto(e, "wait")
    /\ SetTimer(e, Waiting)
    /\ UNCHANGED <<lease, chain, late, stage, at, head, calls, faults, stray, delay>>

\* Mutant of Free: the lease is taken from its holder.
FreeAlways == TRUE

\* claim_runtime_lease: the row is gone or expires_at has passed.
Free == lease.holder = {} \/ lease.left = 0

\* Mutant of Acquire: the lease is taken for one timeout.
AcquireShort(e) ==
    /\ pc[e] = "wait"
    /\ timer[e] > 0
    /\ Free
    /\ lease' = [holder |-> {Me(e)}, left |-> T]
    /\ Goto(e, "ready")
    /\ SetTimer(e, 0)
    /\ UNCHANGED <<chain, late, stage, at, head, calls, faults, stray, delay>>

Acquire(e) ==
    /\ pc[e] = "wait"
    /\ timer[e] > 0
    /\ Free
    /\ lease' = [holder |-> {Me(e)}, left |-> Term]
    /\ Goto(e, "ready")
    /\ SetTimer(e, 0)
    /\ UNCHANGED <<chain, late, stage, at, head, calls, faults, stray, delay>>

\* "Timed out waiting for an external artifact chain head".
GiveUp(e) ==
    /\ pc[e] = "wait"
    /\ timer[e] = 0
    /\ Leave(e)
    /\ UNCHANGED <<lease, chain, late, stage, calls, faults, stray, delay>>

-----------------------------------------------------------------------------
(* The requests under the lease.                                            *)

\* On from request k: the next one, or out of the lease.
Proceed(e, k) ==
    /\ SetTimer(e, 0)
    /\ IF k \in LeaseEnd
         THEN /\ Release(e)
              /\ Goto(e, IF k = 10 THEN "done" ELSE "between")
              /\ at' = [at EXCEPT ![e] = IF k = 10 THEN 10 ELSE k + 1]
         ELSE /\ Goto(e, "ready")
              /\ at' = [at EXCEPT ![e] = k + 1]
              /\ UNCHANGED lease

\* begin_ecosystem_stage finds the stage COMPLETED.
Reuse(e) ==
    /\ pc[e] = "ready"
    /\ stage[e][OwnerOf(at[e])] # None
    /\ Proceed(e, LastOf(at[e]))
    /\ UNCHANGED <<chain, late, stage, head, calls, faults, stray, delay>>

Send(e) ==
    /\ pc[e] = "ready"
    /\ stage[e][OwnerOf(at[e])] = None
    /\ Goto(e, "sent")
    /\ SetTimer(e, delay)
    /\ UNCHANGED <<lease, chain, late, stage, at, head, calls, faults, stray, delay>>

\* The entry that e posts: Karma gets the envelope of the recorded Bucket stage.
Posted(e) ==
    [exec |-> e, parent |-> head[e],
     of |-> IF OwnerOf(at[e]) = "karma" THEN stage[e]["bucket"] ELSE None]

\* An owner appends to its head only; Karma refuses an artifact that it has
\* ("replay_detected").
Accepts(o, x) ==
    /\ x.parent = Len(chain[o])
    /\ o = "karma" => \A i \in 1..Len(chain[o]) : chain[o][i].exec # x.exec

\* The owner processes the request of a worker that waits for it.
Serve(e) ==
    LET o == OwnerOf(at[e]) IN
    /\ pc[e] = "sent"
    /\ head' = IF at[e] \in ReadsHead THEN [head EXCEPT ![e] = Len(chain[o])]
                                      ELSE head
    /\ IF at[e] \in Posts
         THEN IF Accepts(o, Posted(e))
                THEN /\ chain' = [chain EXCEPT ![o] = Append(@, Posted(e))]
                     /\ Goto(e, "served")
                ELSE Goto(e, "refused") /\ UNCHANGED chain
         ELSE Goto(e, "served") /\ UNCHANGED chain
    /\ UNCHANGED <<lease, late, stage, at, timer, calls, faults, stray, delay>>

\* The answer arrives; after its last one the stage is COMPLETED with it.
Receive(e) ==
    /\ pc[e] = "served"
    /\ stage' = IF at[e] \in StageEnd
                  THEN [stage EXCEPT ![e][OwnerOf(at[e])] = head[e]]
                  ELSE stage
    /\ Proceed(e, at[e])
    /\ UNCHANGED <<chain, late, head, calls, faults, stray, delay>>

\* Mutant of Refused: any answer of Karma's completes the stage.
RefusedAccepted(e) ==
    /\ pc[e] = "refused"
    /\ stage' = [stage EXCEPT ![e][OwnerOf(at[e])] = head[e]]
    /\ Proceed(e, LastOf(at[e]))
    /\ UNCHANGED <<chain, late, head, calls, faults, stray, delay>>

\* _reject_contract and _require_semantic_success raise out of the lease.
Refused(e) ==
    /\ pc[e] = "refused"
    /\ Release(e)
    /\ Leave(e)
    /\ UNCHANGED <<chain, late, stage, calls, faults, stray, delay>>

-----------------------------------------------------------------------------
(* Faults and time.                                                         *)

Strike(kind) ==
    /\ kind \in Faults
    /\ faults < MaxFaults
    /\ faults' = faults + 1

\* A post that is on its way may be processed although nobody waits for it.
Abandon(e) ==
    late' = IF pc[e] = "sent" /\ at[e] \in Posts
              THEN late \cup {[owner |-> OwnerOf(at[e]), entry |-> Posted(e),
                               left |-> timer[e]]}
              ELSE late

\* The request times out or fails, or the coroutine is cancelled: the lease is
\* released at once.
Lost(e) ==
    /\ Strike("lost")
    /\ pc[e] \in Inside
    /\ Abandon(e)
    /\ stray' = (stray \/ (pc[e] = "sent" /\ at[e] \in Posts))
    /\ Release(e)
    /\ Leave(e)
    /\ UNCHANGED <<chain, stage, calls, delay>>

\* The process dies: nobody releases the lease.
Crash(e) ==
    /\ Strike("crash")
    /\ pc[e] \in Control \ {"idle", "done"}
    /\ Abandon(e)
    /\ Leave(e)
    /\ UNCHANGED <<lease, chain, stage, calls, stray, delay>>

\* The owner processes a post without a sender, or never gets it.
ServeLate(m) ==
    /\ late' = late \ {m}
    /\ chain' = IF Accepts(m.owner, m.entry)
                  THEN [chain EXCEPT ![m.owner] = Append(@, m.entry)]
                  ELSE chain
    /\ UNCHANGED <<lease, stage, local, calls, faults, stray, delay>>

DropLate(m) ==
    /\ late' = late \ {m}
    /\ UNCHANGED <<lease, chain, stage, local, calls, faults, stray, delay>>

Less(n) == IF n = 0 THEN 0 ELSE n - 1

\* Time passes while everybody waits for something; the lease is polled often
\* enough that it is not free for a tick under the eyes of a waiter.
Tick ==
    /\ \A e \in Execution :
          /\ pc[e] # "ready"
          /\ pc[e] \in Timed => timer[e] > 0
          /\ pc[e] = "wait" => ~Free
    /\ \A m \in late : m.left > 0
    /\ lease' = [lease EXCEPT !.left = Less(lease.left)]
    /\ late' = {[m EXCEPT !.left = Less(m.left)] : m \in late}
    /\ timer' = [e \in Execution |-> IF pc[e] \in Timed THEN timer[e] - 1
                                                        ELSE timer[e]]
    /\ UNCHANGED <<chain, stage, pc, at, head, calls, faults, stray, delay>>

-----------------------------------------------------------------------------

\* What a call in progress does by itself, and what its owners do for it.
Step(e) ==
    \/ Approach(e) \/ Acquire(e) \/ GiveUp(e) \/ Reuse(e) \/ Send(e)
    \/ Serve(e) \/ Receive(e) \/ Refused(e)

Next ==
    \/ \E e \in Execution : Call(e) \/ Step(e) \/ Lost(e) \/ Crash(e)
    \/ \E m \in late : ServeLate(m) \/ DropLate(m)
    \/ Tick

Spec == Init /\ [][Next]_vars

\* Event loops run what is ready, requests end, time passes.
FairSpec ==
    /\ Spec
    /\ \A e \in Execution : WF_vars(Step(e))
    /\ WF_vars(\E m \in late : ServeLate(m) \/ DropLate(m))
    /\ WF_vars(Tick)

-----------------------------------------------------------------------------
(* Properties.                                                              *)

\* The lease, the chains and the locals of the workers have their types.
TypeOK ==
    /\ delay \in 1..T
    /\ lease \in [holder : SUBSET Token, left : 0..Term]
    /\ chain \in [Owner -> Seq(Entry)]
    /\ late \subseteq [owner : Owner, entry : Entry, left : 0..delay]
    /\ stray \in BOOLEAN
    /\ stage \in [Execution -> [Owner -> Nat \cup {None}]]
    /\ pc \in [Execution -> Control]
    /\ at \in [Execution -> Request]
    /\ head \in [Execution -> Nat]
    /\ timer \in [Execution -> 0..Waiting]
    /\ calls \in [Execution -> Nat]
    /\ faults \in Nat

\* The six requests of Bucket and Karma fit into the lease.
Prompt == 6 * delay < Term

\* With prompt requests one execution at a time is under the lease.
Exclusive ==
    Prompt => \A e, f \in Execution : pc[e] \in Inside /\ pc[f] \in Inside => e = f

\* "re-reads both heads only after acquiring it": with prompt requests a post on
\* its way has the head of its chain as parent, also when the process of another
\* execution died in the middle of a request.  A request that was given up, and
\* its lease with it, may still come between.
HeadFresh ==
    Prompt /\ ~stray => \A e \in Execution : pc[e] = "sent" /\ at[e] \in Posts
        => head[e] = Len(chain[OwnerOf(at[e])])

\* Whatever is lost and however late requests are processed, a COMPLETED stage
\* is in its owner's chain, at the parent that the checkpoint records; and what
\* Karma holds of an execution is the Bucket envelope of its checkpoint, though
\* recoveries may have left Bucket with several.
CheckpointHeld ==
    /\ \A e \in Execution, o \in Owner : stage[e][o] # None =>
          /\ stage[e][o] < Len(chain[o])
          /\ chain[o][stage[e][o] + 1].exec = e
          /\ chain[o][stage[e][o] + 1].parent = stage[e][o]
    /\ \A i \in 1..Len(chain["karma"]) :
          LET x == chain["karma"][i] IN x.of # None /\ x.of = stage[x.exec]["bucket"]

\* "Recovery resumes at the first incomplete stage"
\* (docs/TANTRA_ECOSYSTEM_CONVERGENCE.md:133): a call that meets no fault, and
\* no other execution, brings the execution past Karma.
RecoveryPassesKarma ==
    \A e \in Execution :
        pc[e] = "between" /\ faults = MaxFaults ~> pc[e] = "done"

=============================================================================
