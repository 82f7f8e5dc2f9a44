---------------------------- MODULE Coordination ----------------------------
(***************************************************************************)
(* Runtime instances that share one store: their rows in runtime_instances,    *)
(* the shared-maintenance lease, and the recovery of companion tasks           *)
(* (runtime.py: start, stop, persistent_tick, runtime_instances and the        *)
(* supervisor thread; startup.py; their part of store.py).                     *)
(*                                                                         *)
(* Each statement is its own transaction (store.py:107 opens the connection    *)
(* in autocommit mode), so a step is one access to the store, and the event     *)
(* loop and the supervisor's threads of every instance interleave at each.      *)
(*                                                                         *)
(* Abstractions.  A row's state tells only whether it is listed: "UP" stands    *)
(* for INITIALIZING, READY, ACTIVE, DEGRADED and DRAINING.  Time may pass at any  *)
(* moment, so whether a row has gone without a heartbeat for stale_after and a   *)
(* lease is past its expires_at is whatever its reader finds, except that it is   *)
(* certain of an instance that has been gone for long (late).  A task that has    *)
(* not been updated for task_timeout is old.  What a task stands for is           *)
(* Conversation's; here its owner ends it in any way.                           *)
(***************************************************************************)
EXTENDS Naturals

CONSTANTS
    Instance,   \* runtime_instance_id
    Thread,     \* supervisor threads of an instance, a restart takes a new one;
                \* none when persistent_runtime_enabled is off
    Task,       \* companion tasks there can ever be
    None,       \* a missing row
    MaxOps      \* bound: crashes, stops, restarts and requests, together

ASSUME OpsAssumption == MaxOps \in Nat
ASSUME NullAssumption ==
    None \notin {"UP", "STOPPED", "RUNNING", "COMPLETED", "FAILED", "INTERRUPTED"}

\* Who runs code in an instance: the event loop and the threads.
Worker == {"loop"} \cup Thread
ASSUME LoopAssumption == "loop" \notin Thread

\* Where start, stop, persistent_tick and runtime_instances can be between two
\* accesses to the store; "down" is no process, "off" is no thread, and a loop
\* that is "busy" runs another handler.
Step == {"down", "off", "rest", "busy", "beat", "claim", "mark", "marking", "sweep",
         "sweeping", "join", "release", "close", "boot", "exit"}

\* What the event loop is doing; a thread only ticks.
Operation == {"none", "boot", "tick", "list", "stop", "restart"}

VARIABLES
    row,        \* runtime_instances: None, "UP" or "STOPPED"
    lease,      \* holder_instance_id of the lease, or None
    late,       \* instances gone for longer than stale_after and the lease
    task,       \* companion_tasks.status, or None
    owner,      \* metadata.runtime_instance_id of the task
    old,        \* tasks whose updated_at is past the cutoff
    held,       \* tasks whose coroutine is still there to end them
    accepting,  \* CompanionRuntime.accepting
    halt,       \* PersistentRuntimeSupervisor._stop
    pc,         \* where each worker is
    op,         \* the operation of the event loop
    sel,        \* rows that a worker has selected and not yet updated
    ops         \* crashes, stops, restarts and requests so far

store == <<row, lease, late>>
tasks == <<task, owner, old, held>>
procs == <<accepting, halt, pc, op, sel, ops>>
coordVars == <<row, lease, late, task, owner, old, held,
               accepting, halt, pc, op, sel, ops>>

\* "INTERRUPTED" is FAILED with the result that recovery writes.
Status == {None, "RUNNING", "COMPLETED", "FAILED", "INTERRUPTED"}

CoordTypeOK ==
    /\ row \in [Instance -> {None, "UP", "STOPPED"}]
    /\ lease \in Instance \cup {None}
    /\ late \in SUBSET {i \in Instance : pc[i]["loop"] = "down"}
    /\ task \in [Task -> Status]
    /\ owner \in [Task -> Instance \cup {None}]
    /\ old \in SUBSET Task
    /\ held \in SUBSET Task
    /\ accepting \in [Instance -> BOOLEAN]
    /\ halt \in [Instance -> BOOLEAN]
    /\ pc \in [Instance -> [Worker -> Step]]
    /\ op \in [Instance -> Operation]
    /\ sel \in [Instance -> [Worker -> SUBSET (Instance \cup Task)]]
    /\ ops \in 0..MaxOps

Off == [w \in Worker |-> IF w = "loop" THEN "down" ELSE "off"]

CoordInit ==
    /\ row = [i \in Instance |-> None]
    /\ lease = None
    /\ late = Instance
    /\ task = [t \in Task |-> None]
    /\ owner = [t \in Task |-> None]
    /\ old = {}
    /\ held = {}
    /\ accepting = [i \in Instance |-> FALSE]
    /\ halt = [i \in Instance |-> FALSE]
    /\ pc = [i \in Instance |-> Off]
    /\ op = [i \in Instance |-> "none"]
    /\ sel = [i \in Instance |-> [w \in Worker |-> {}]]
    /\ ops = 0

OpOf(i, w) == IF w = "loop" THEN op[i] ELSE "tick"
Alive(i) == pc[i]["loop"] # "down"
LoopFree(i) == pc[i]["loop"] = "rest"

At(i, w, step) == pc' = [pc EXCEPT ![i][w] = step]

(* The end of an operation.  A start ends with supervisor.start(), which      *)
(* clears the stop event and runs a new thread, whether or not one that an      *)
(* earlier stop did not wait for is still there.                             *)
Finish(i, w) ==
    /\ op' = IF w = "loop" THEN [op EXCEPT ![i] = "none"] ELSE op
    /\ IF OpOf(i, w) = "boot" /\ Thread # {}
       THEN \E t \in Thread :
              /\ pc[i][t] = "off"
              /\ pc' = [pc EXCEPT ![i]["loop"] = "rest", ![i][t] = "rest"]
              /\ halt' = [halt EXCEPT ![i] = FALSE]
       ELSE /\ At(i, w, "rest")
            /\ halt' = halt

(* --------------------------- start and stop --------------------------- *)

(* The first half of start: the row is written anew and the runtime accepts. *)
Boot(i) ==
    /\ pc[i]["loop"] \in {"down", "boot"}
    /\ row' = [row EXCEPT ![i] = "UP"]
    /\ late' = late \ {i}
    /\ accepting' = [accepting EXCEPT ![i] = TRUE]
    /\ op' = [op EXCEPT ![i] = "boot"]
    /\ At(i, "loop", "beat")
    /\ UNCHANGED <<lease, tasks, halt, sel, ops>>

(* stop, on its own or as the first half of graceful_restart: the supervisor  *)
(* is told to stop.                                                         *)
Stop(i, what) ==
    /\ LoopFree(i)
    /\ ops < MaxOps
    /\ what \in {"stop", "restart"}
    /\ op' = [op EXCEPT ![i] = what]
    /\ halt' = [halt EXCEPT ![i] = TRUE]
    /\ At(i, "loop", "join")
    /\ ops' = ops + 1
    /\ UNCHANGED <<store, tasks, accepting, sel>>

(* join(timeout=2): it returns when the thread has ended and also when the    *)
(* thread is in a tick that takes longer.                                    *)
Join(i) ==
    /\ pc[i]["loop"] = "join"
    /\ \A t \in Thread : pc[i][t] # "rest"
    /\ At(i, "loop", "release")
    /\ UNCHANGED <<store, tasks, accepting, halt, op, sel, ops>>

(* release_runtime_leases *)
Release(i) ==
    /\ pc[i]["loop"] = "release"
    /\ lease' = IF lease = i THEN None ELSE lease
    /\ At(i, "loop", "close")
    /\ UNCHANGED <<row, late, tasks, accepting, halt, op, sel, ops>>

(* The rest of stop; a restart goes on with start.                           *)
Close(i) ==
    /\ pc[i]["loop"] = "close"
    /\ accepting' = [accepting EXCEPT ![i] = FALSE]
    /\ row' = [row EXCEPT ![i] = "STOPPED"]
    /\ At(i, "loop", IF op[i] = "restart" THEN "boot" ELSE "exit")
    /\ UNCHANGED <<lease, late, tasks, halt, op, sel, ops>>

(* The process ends: its threads are daemons and its coroutines are gone.     *)
Gone(i) ==
    /\ pc' = [pc EXCEPT ![i] = Off]
    /\ op' = [op EXCEPT ![i] = "none"]
    /\ sel' = [sel EXCEPT ![i] = [w \in Worker |-> {}]]
    /\ accepting' = [accepting EXCEPT ![i] = FALSE]
    /\ halt' = [halt EXCEPT ![i] = FALSE]
    /\ held' = {t \in held : owner[t] # i}
    /\ UNCHANGED <<store, task, owner, old>>

Exit(i) == pc[i]["loop"] = "exit" /\ Gone(i) /\ ops' = ops

Crash(i) == Alive(i) /\ ops < MaxOps /\ Gone(i) /\ ops' = ops + 1

(* ------------------- persistent_tick, runtime_instances ------------------- *)

(* The supervisor's next tick; a thread that finds the event set ends.       *)
Tick(i, t) ==
    /\ pc[i][t] = "rest"
    /\ \/ ~halt[i] /\ accepting[i] /\ At(i, t, "beat")
       \/ halt[i] /\ At(i, t, "off")
    /\ UNCHANGED <<store, tasks, accepting, halt, op, sel, ops>>

(* POST /runtime/recovery ticks on the event loop, GET /runtime/instances    *)
(* marks stale peers there.                                                 *)
Request(i, what) ==
    /\ LoopFree(i) /\ accepting[i]
    /\ what \in {"tick", "list"}
    /\ ops < MaxOps
    /\ op' = [op EXCEPT ![i] = what]
    /\ At(i, "loop", "beat")
    /\ ops' = ops + 1
    /\ UNCHANGED <<store, tasks, accepting, halt, sel>>

\* Mutant of Beat: a heartbeat renews last_heartbeat_at and not the state.
BeatOnly(i, w) ==
    /\ pc[i][w] = "beat"
    /\ At(i, w, IF OpOf(i, w) = "list" THEN "mark" ELSE "claim")
    /\ UNCHANGED <<store, tasks, accepting, halt, op, sel, ops>>

(* heartbeat_runtime_instance writes the state that the lifecycle had when the *)
(* worker read it, which a stop may have changed since.                       *)
Beat(i, w) ==
    /\ pc[i][w] = "beat"
    /\ \E state \in {"UP", IF accepting[i] THEN "UP" ELSE "STOPPED"} :
          row' = [row EXCEPT ![i] = state]
    /\ At(i, w, IF OpOf(i, w) = "list" THEN "mark" ELSE "claim")
    /\ UNCHANGED <<lease, late, tasks, accepting, halt, op, sel, ops>>

\* Mutant of Claim: a lease is released by its holder only.
ClaimFree(i, w) ==
    /\ pc[i][w] = "claim"
    /\ \/ /\ lease \in {None, i}
          /\ lease' = i
          /\ At(i, w, IF OpOf(i, w) = "boot" THEN "sweep" ELSE "mark")
          /\ UNCHANGED <<halt, op>>
       \/ /\ lease \notin {None, i}
          /\ Finish(i, w)
          /\ lease' = lease
    /\ UNCHANGED <<row, late, tasks, accepting, sel, ops>>

(* claim_runtime_lease, one BEGIN IMMEDIATE transaction: a lease that another    *)
(* instance holds is taken when it has expired.                              *)
Claim(i, w) ==
    /\ pc[i][w] = "claim"
    /\ \/ /\ lease' = i
          /\ At(i, w, IF OpOf(i, w) = "boot" THEN "sweep" ELSE "mark")
          /\ UNCHANGED <<halt, op>>
       \/ /\ lease \notin {None, i} \cup late
          /\ Finish(i, w)
          /\ lease' = lease
    /\ UNCHANGED <<row, late, tasks, accepting, sel, ops>>

(* The SELECT of mark_stale_runtime_instances, and what follows the loop over   *)
(* its rows: a tick goes on with the tasks.                                   *)
Peers(i) == {j \in Instance \ {i} : row[j] = "UP"}
Stale(i) == {js \in SUBSET Peers(i) : Peers(i) \cap late \subseteq js}

Marked(i, w) ==
    IF OpOf(i, w) = "list"
    THEN Finish(i, w)
    ELSE At(i, w, "sweep") /\ UNCHANGED <<op, halt>>

Mark(i, w) ==
    /\ pc[i][w] = "mark"
    /\ \E found \in Stale(i) :
          IF found = {}
          THEN Marked(i, w) /\ sel' = sel
          ELSE /\ sel' = [sel EXCEPT ![i][w] = found]
               /\ At(i, w, "marking")
               /\ UNCHANGED <<op, halt>>
    /\ UNCHANGED <<store, tasks, accepting, ops>>

(* One UPDATE of mark_stale_runtime_instances.                                *)
Marking(i, w) ==
    /\ pc[i][w] = "marking"
    /\ \E j \in sel[i][w] :
          /\ row' = [row EXCEPT ![j] = "STOPPED"]
          /\ sel' = [sel EXCEPT ![i][w] = @ \ {j}]
    /\ IF sel'[i][w] = {} THEN Marked(i, w) ELSE UNCHANGED <<pc, op, halt>>
    /\ UNCHANGED <<lease, late, tasks, accepting, ops>>

\* Mutant of Interrupted: an instance recovers the tasks of its own only.
InterruptedOwn(i, boot) ==
    {t \in Task : task[t] = "RUNNING" /\ owner[t] = i /\ (t \in old \/ boot)}

(* The SELECT of recover_interrupted_companion_tasks with its two conditions;  *)
(* only a start takes the tasks of its own instance.                         *)
Interrupted(i, boot) ==
    {t \in Task : task[t] = "RUNNING" /\ (t \in old \/ (boot /\ owner[t] = i))}

Sweep(i, w) ==
    /\ pc[i][w] = "sweep"
    /\ LET found == Interrupted(i, OpOf(i, w) = "boot")
       IN  IF found = {}
           THEN Finish(i, w) /\ sel' = sel
           ELSE /\ sel' = [sel EXCEPT ![i][w] = found]
                /\ At(i, w, "sweeping")
                /\ UNCHANGED <<op, halt>>
    /\ UNCHANGED <<store, tasks, accepting, ops>>

(* One UPDATE of recover_interrupted_companion_tasks.                         *)
Sweeping(i, w) ==
    /\ pc[i][w] = "sweeping"
    /\ \E t \in sel[i][w] :
          /\ task' = [task EXCEPT ![t] = "INTERRUPTED"]
          /\ old' = old \ {t}
          /\ sel' = [sel EXCEPT ![i][w] = @ \ {t}]
    /\ IF sel'[i][w] = {} THEN Finish(i, w) ELSE UNCHANGED <<pc, op, halt>>
    /\ UNCHANGED <<store, owner, held, accepting, ops>>

(* ------------------------------- time ------------------------------- *)

Forget(i) ==
    /\ ~Alive(i) /\ i \notin late
    /\ late' = late \cup {i}
    /\ UNCHANGED <<row, lease, tasks, procs>>

Age(t) ==
    /\ task[t] = "RUNNING" /\ t \notin old
    /\ old' = old \cup {t}
    /\ UNCHANGED <<store, task, owner, held, procs>>

(* ---------------------- what the owner of a task does ---------------------- *)

(* create_companion_task *)
Create(i, t) ==
    /\ task[t] = None
    /\ task' = [task EXCEPT ![t] = "RUNNING"]
    /\ owner' = [owner EXCEPT ![t] = i]
    /\ held' = held \cup {t}
    /\ old' = old

(* update_companion_task has no condition: it ends a task that recovery has   *)
(* interrupted just as well.                                                *)
End(t, status) ==
    /\ t \in held
    /\ task' = [task EXCEPT ![t] = status]
    /\ old' = old \ {t}
    /\ held' = held \ {t}
    /\ owner' = owner

(* An exception that nobody catches: the task is left as it is.               *)
Abandon(t) ==
    /\ t \in held
    /\ held' = held \ {t}
    /\ UNCHANGED <<task, owner, old>>

Work ==
    /\ \/ \E i \in Instance, t \in Task : LoopFree(i) /\ accepting[i] /\ Create(i, t)
       \/ \E t \in held :
             /\ LoopFree(owner[t])
             /\ Abandon(t) \/ \E status \in {"COMPLETED", "FAILED"} : End(t, status)
    /\ UNCHANGED <<store, procs>>

Go(i, w) == \/ Beat(i, w) \/ Claim(i, w) \/ Mark(i, w) \/ Marking(i, w)
            \/ Sweep(i, w) \/ Sweeping(i, w)

\* The event loop in the middle of an operation; a thread.
Loop(i) == \/ Go(i, "loop") \/ Join(i) \/ Release(i) \/ Close(i) \/ Exit(i)
           \/ pc[i]["loop"] = "boot" /\ Boot(i)

Supervise(i, t) == Tick(i, t) \/ Go(i, t)

CoordNext ==
    \/ \E i \in Instance :
          \/ Boot(i) \/ Loop(i) \/ Crash(i) \/ Forget(i)
          \/ \E what \in Operation : Stop(i, what) \/ Request(i, what)
          \/ \E t \in Thread : Supervise(i, t)
    \/ \E t \in Task : Age(t)

Next == CoordNext \/ Work

(* Threads and the operations of the event loop go on (every access to the     *)
(* store ends, by its timeout at the latest); instances that are gone and tasks  *)
(* that nobody ends get old.                                                 *)
CoordFairness ==
    /\ \A i \in Instance :
          /\ WF_coordVars(Loop(i))
          /\ WF_coordVars(Forget(i))
          /\ \A t \in Thread : WF_coordVars(Supervise(i, t))
    /\ \A t \in Task : WF_coordVars(Age(t))

Spec == CoordInit /\ [][Next]_coordVars /\ CoordFairness

(* ----------------------------- properties ----------------------------- *)

Serving(i) == Alive(i) /\ accepting[i] /\ ~halt[i]

(* As long as one instance goes on serving, no task stays RUNNING: a crash of  *)
(* its owner, a restart, or an exception that leaves companion_message without *)
(* closing the task is made good by whoever has or gets the lease.            *)
TaskSettles ==
    (\E i \in Instance : <>[]Serving(i))
      => \A t \in Task : task[t] = "RUNNING" ~> task[t] # "RUNNING"

(* An instance that has gone for good stops being listed as long as another    *)
(* one serves, whatever its own threads wrote on their way out.               *)
GoneIsUnlisted ==
    \A i, j \in Instance :
       i # j /\ <>[]Serving(i) /\ <>[]~Alive(j) => <>[](row[j] # "UP")

(* An instance that serves is listed again and again, although its peers may   *)
(* take it for dead when it is only slow.                                    *)
ServingIsListed == \A i \in Instance : <>[]Serving(i) => []<>(row[i] = "UP")

(* One live instance at a time performs the shared recovery.                  *)
OneRecovers ==
    \A i, j \in Instance :
       (\E v, w \in Worker :
           /\ pc[i][v] \in {"sweep", "sweeping"}
           /\ pc[j][w] \in {"sweep", "sweeping"}) => i = j
=============================================================================
