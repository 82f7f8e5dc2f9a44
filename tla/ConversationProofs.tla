------------------------- MODULE ConversationProofs -------------------------
(***************************************************************************)
(* Machine-checked proofs about Conversation, for every number of instances,   *)
(* threads, turns and candidates.                                           *)
(***************************************************************************)
EXTENDS Conversation, TLAPS

-----------------------------------------------------------------------------
(* The inductive invariant.                                                 *)

TurnRecord ==
    [step : TurnStep, at : Instance \cup {None}, before : SUBSET Turn,
     pick : 0..Candidates, plan : SUBSET Candidate, asked : 0..Candidates,
     rest : SUBSET Fallbacks, ok : 0..Candidates, failed : SUBSET Candidate,
     heard : SUBSET Candidate, reply : Reply \cup {None}]

TInv ==
    /\ CoordTypeOK
    /\ turn \in [Turn -> TurnRecord]
    /\ \A t \in Turn : Running(t) => turn[t].at \in Instance
    /\ open \in BOOLEAN /\ alone \in BOOLEAN
    /\ answers \subseteq Turn /\ summary \subseteq Turn /\ memory \subseteq Turn

\* What a worker is about to interrupt is a row of companion_tasks.
SweptOK ==
    \A i \in Instance : \A w \in Worker :
        pc[i][w] = "sweeping" => \A t \in Task : t \in sel[i][w] => task[t] # None

\* While a turn asks, the candidate it asks and those it will ask are new to it,
\* and with those that failed they are all it could ask.  The one selected is the
\* first; of the others those that answered count as failed.
Asks(r) ==
    /\ r.asked \in r.plan \ r.failed
    /\ r.ok = 0
    /\ r.rest \subseteq (r.plan \ r.failed) \ {r.asked}
    /\ r.plan = r.failed \cup {r.asked} \cup r.rest
    /\ IF r.failed = {} THEN r.asked = r.pick ELSE r.pick \in r.failed
    /\ r.heard \subseteq r.failed \ {r.pick}

\* What the dispatches came to.
Failed(r) == r.ok = 0 /\ r.plan = r.failed /\ r.pick \notin r.heard
Ran(r) == r.ok # 0 /\ r.ok \in r.heard \ r.failed

\* What a turn says, at each of its steps.
Says(r) ==
    /\ r.step \in {"new", "choose"} => r.ok = 0 /\ r.failed = {} /\ r.heard = {}
    /\ r.step \in {"ask", "await"} => Asks(r)
    /\ r.step = "close" => Failed(r) \/ Ran(r)
    /\ r.step \in {"new", "choose", "ask", "await", "close"} => r.reply = None
    /\ r.step \in {"answer", "persist"} =>
          /\ r.reply = "COMPLETED" => Ran(r)
          /\ r.reply = "FAILED" => Failed(r)

\* The task of a turn, t, and what the turn says.
Matches(r, status) ==
    /\ r.step \in {"new", "choose"} \/ r.reply = "UNRUN" => status = None
    /\ r.reply \in {"COMPLETED", "FAILED"} => status \in {r.reply, "INTERRUPTED"}

TurnsOK == \A t \in Turn : Says(turn[t]) /\ Matches(turn[t], task[t])

\* While no turns have overlapped, the one that runs has found the latest memory,
\* which is that of all the answers.
MemoryOK ==
    alone => /\ summary = answers
             /\ \A t, u \in Turn : Running(t) /\ Running(u) => t = u
             /\ \A t \in Turn : Running(t) /\ turn[t].step # "persist"
                                  => turn[t].before = summary

IInv == SweptOK /\ TurnsOK /\ MemoryOK

-----------------------------------------------------------------------------
(* The instances.                                                           *)

LoopGone == {i \in Instance : pc[i]["loop"] = "down"}

\* A worker of a process moves on.
LEMMA AtType ==
    ASSUME CoordTypeOK, NEW i \in Instance, NEW w \in Worker, NEW s \in Step,
           At(i, w, s), pc[i][w] # "down"
    PROVE  pc' \in [Instance -> [Worker -> Step]] /\ late \subseteq LoopGone'
<1>1. pc \in [Instance -> [Worker -> Step]] /\ "loop" \in Worker /\ late \subseteq LoopGone
  BY DEF CoordTypeOK, Worker, LoopGone
<1>2. pc' = [pc EXCEPT ![i][w] = s]
  BY DEF At
<1>3. pc' \in [Instance -> [Worker -> Step]]
  BY <1>1, <1>2
<1>4. ASSUME NEW j \in Instance, pc[j]["loop"] = "down" PROVE pc'[j]["loop"] = "down"
  BY <1>1, <1>2, <1>4
<1> QED
  BY <1>1, <1>3, <1>4 DEF LoopGone

LEMMA FinishType ==
    ASSUME CoordTypeOK, NEW i \in Instance, NEW w \in Worker, Finish(i, w),
           pc[i][w] \notin {"down", "off"}
    PROVE  /\ pc' \in [Instance -> [Worker -> Step]] /\ late \subseteq LoopGone'
           /\ op' \in [Instance -> Operation] /\ halt' \in [Instance -> BOOLEAN]
<1>1. op' \in [Instance -> Operation]
  BY DEF Finish, CoordTypeOK, Operation
<1>2. CASE OpOf(i, w) = "boot" /\ Thread # {}
  <2>1. PICK t \in Thread :
           /\ pc[i][t] = "off"
           /\ pc' = [pc EXCEPT ![i]["loop"] = "rest", ![i][t] = "rest"]
           /\ halt' = [halt EXCEPT ![i] = FALSE]
    BY <1>2 DEF Finish
  <2>2. w = "loop"
    BY <1>2 DEF OpOf
  <2>3. /\ pc \in [Instance -> [Worker -> Step]] /\ "loop" \in Worker /\ t \in Worker
        /\ late \subseteq LoopGone /\ "rest" \in Step /\ halt \in [Instance -> BOOLEAN]
    BY DEF CoordTypeOK, Worker, LoopGone, Step
  <2>4. pc' \in [Instance -> [Worker -> Step]] /\ halt' \in [Instance -> BOOLEAN]
    BY <2>1, <2>3
  <2>5. ASSUME NEW j \in Instance, pc[j]["loop"] = "down" PROVE pc'[j]["loop"] = "down"
    BY <2>1, <2>2, <2>3, <2>5
  <2> QED
    BY <1>1, <2>3, <2>4, <2>5 DEF LoopGone
<1>3. CASE ~(OpOf(i, w) = "boot" /\ Thread # {})
  <2>1. At(i, w, "rest") /\ halt' = halt /\ "rest" \in Step
    BY <1>3 DEF Finish, Step
  <2> QED
    BY <1>1, <2>1, AtType DEF CoordTypeOK
<1> QED
  BY <1>2, <1>3

\* Types of what the steps of a worker change.
LEMMA GoType ==
    ASSUME CoordTypeOK, NEW i \in Instance, NEW w \in Worker, Go(i, w)
    PROVE  CoordTypeOK'
<1>1. "rest" \in Step /\ "claim" \in Step /\ "mark" \in Step /\ "marking" \in Step
      /\ "sweep" \in Step /\ "sweeping" \in Step
  BY DEF Step
<1>2. sel \in [Instance -> [Worker -> SUBSET (Instance \cup Task)]]
  BY DEF CoordTypeOK
<1>3. CASE Beat(i, w)
  <2>1. pc' \in [Instance -> [Worker -> Step]] /\ late \subseteq LoopGone'
    BY <1>1, <1>3, AtType DEF Beat
  <2>2. row' \in [Instance -> {None, "UP", "STOPPED"}]
    BY <1>3 DEF Beat, CoordTypeOK
  <2> QED
    BY <1>3, <2>1, <2>2 DEF Beat, CoordTypeOK, LoopGone, tasks
<1>4. CASE Claim(i, w)
  <2>1. /\ pc' \in [Instance -> [Worker -> Step]] /\ late \subseteq LoopGone'
        /\ op' \in [Instance -> Operation] /\ halt' \in [Instance -> BOOLEAN]
    <3>1. CASE At(i, w, IF OpOf(i, w) = "boot" THEN "sweep" ELSE "mark") /\ UNCHANGED <<halt, op>>
      BY <1>1, <1>4, <3>1, AtType DEF Claim, CoordTypeOK
    <3>2. CASE Finish(i, w)
      BY <1>4, <3>2, FinishType DEF Claim
    <3> QED
      BY <1>4, <3>1, <3>2 DEF Claim
  <2>2. lease' \in Instance \cup {None}
    BY <1>4 DEF Claim, CoordTypeOK
  <2> QED
    BY <1>4, <2>1, <2>2 DEF Claim, CoordTypeOK, LoopGone, tasks
<1>5. ASSUME pc[i][w] \notin {"down", "off"}, Marked(i, w)
      PROVE  /\ pc' \in [Instance -> [Worker -> Step]] /\ late \subseteq LoopGone'
             /\ op' \in [Instance -> Operation] /\ halt' \in [Instance -> BOOLEAN]
  BY <1>1, <1>5, AtType, FinishType DEF Marked, CoordTypeOK
<1>6. CASE Mark(i, w)
  <2>1. PICK found \in Stale(i) :
          IF found = {}
          THEN Marked(i, w) /\ sel' = sel
          ELSE /\ sel' = [sel EXCEPT ![i][w] = found]
               /\ At(i, w, "marking")
               /\ UNCHANGED <<op, halt>>
    BY <1>6 DEF Mark
  <2>2. found \subseteq Instance
    BY DEF Stale, Peers
  <2>3. /\ pc' \in [Instance -> [Worker -> Step]] /\ late \subseteq LoopGone'
        /\ op' \in [Instance -> Operation] /\ halt' \in [Instance -> BOOLEAN]
    BY <1>1, <1>5, <1>6, <2>1, AtType DEF Mark, CoordTypeOK
  <2>4. sel' \in [Instance -> [Worker -> SUBSET (Instance \cup Task)]]
    BY <1>2, <2>1, <2>2
  <2> QED
    BY <1>6, <2>3, <2>4 DEF Mark, CoordTypeOK, LoopGone, store, tasks
<1>7. CASE Marking(i, w)
  <2>1. PICK j \in sel[i][w] : /\ row' = [row EXCEPT ![j] = "STOPPED"]
                               /\ sel' = [sel EXCEPT ![i][w] = @ \ {j}]
    BY <1>7 DEF Marking
  <2>2. row' \in [Instance -> {None, "UP", "STOPPED"}]
    BY <2>1 DEF CoordTypeOK
  <2>3. sel' \in [Instance -> [Worker -> SUBSET (Instance \cup Task)]]
    BY <1>2, <2>1
  <2>4. /\ pc' \in [Instance -> [Worker -> Step]] /\ late \subseteq LoopGone'
        /\ op' \in [Instance -> Operation] /\ halt' \in [Instance -> BOOLEAN]
    <3>1. CASE Marked(i, w)
      BY <1>5, <1>7, <3>1 DEF Marking
    <3>2. CASE UNCHANGED <<pc, op, halt>>
      BY <3>2 DEF CoordTypeOK, LoopGone
    <3> QED
      BY <1>7, <3>1, <3>2 DEF Marking
  <2> QED
    BY <1>7, <2>2, <2>3, <2>4 DEF Marking, CoordTypeOK, LoopGone, tasks
<1>8. CASE Sweep(i, w)
  <2>1. PICK found \in SUBSET Task :
          IF found = {}
          THEN Finish(i, w) /\ sel' = sel
          ELSE /\ sel' = [sel EXCEPT ![i][w] = found]
               /\ At(i, w, "sweeping")
               /\ UNCHANGED <<op, halt>>
    BY <1>8 DEF Sweep, Interrupted
  <2>2. /\ pc' \in [Instance -> [Worker -> Step]] /\ late \subseteq LoopGone'
        /\ op' \in [Instance -> Operation] /\ halt' \in [Instance -> BOOLEAN]
    BY <1>1, <1>8, <2>1, AtType, FinishType DEF Sweep, CoordTypeOK
  <2>3. sel' \in [Instance -> [Worker -> SUBSET (Instance \cup Task)]]
    BY <1>2, <2>1
  <2> QED
    BY <1>8, <2>2, <2>3 DEF Sweep, CoordTypeOK, LoopGone, store, tasks
<1>9. CASE Sweeping(i, w)
  <2>1. PICK t \in sel[i][w] : /\ task' = [task EXCEPT ![t] = "INTERRUPTED"]
                               /\ old' = old \ {t}
                               /\ sel' = [sel EXCEPT ![i][w] = @ \ {t}]
    BY <1>9 DEF Sweeping
  <2>2. task' \in [Task -> Status] /\ old' \in SUBSET Task
    BY <2>1 DEF CoordTypeOK, Status
  <2>3. sel' \in [Instance -> [Worker -> SUBSET (Instance \cup Task)]]
    BY <1>2, <2>1
  <2>4. /\ pc' \in [Instance -> [Worker -> Step]] /\ late \subseteq LoopGone'
        /\ op' \in [Instance -> Operation] /\ halt' \in [Instance -> BOOLEAN]
    <3>1. CASE Finish(i, w)
      BY <1>9, <3>1, FinishType DEF Sweeping
    <3>2. CASE UNCHANGED <<pc, op, halt>>
      BY <3>2 DEF CoordTypeOK, LoopGone
    <3> QED
      BY <1>9, <3>1, <3>2 DEF Sweeping
  <2> QED
    BY <1>9, <2>2, <2>3, <2>4 DEF Sweeping, CoordTypeOK, LoopGone, store
<1> QED
  BY <1>3, <1>4, <1>6, <1>7, <1>8, <1>9 DEF Go

\* The event loop, whatever it is in the middle of, and the threads keep the types.
LEMMA LoopType ==
    ASSUME CoordTypeOK, NEW i \in Instance,
           \/ Boot(i) \/ Join(i) \/ Release(i) \/ Close(i) \/ Exit(i) \/ Crash(i) \/ Forget(i)
           \/ \E what \in Operation : Stop(i, what) \/ Request(i, what)
           \/ \E t \in Thread : Tick(i, t)
    PROVE  CoordTypeOK'
<1> USE DEF CoordTypeOK
<1>1. "loop" \in Worker /\ Thread \subseteq Worker /\ late \subseteq LoopGone
  BY DEF Worker, LoopGone
<1>2. {"beat", "off", "join", "release", "close", "boot", "exit", "down"} \subseteq Step
  BY DEF Step
<1>3. CASE Boot(i)
  <2>1. pc' \in [Instance -> [Worker -> Step]]
    BY <1>1, <1>2, <1>3 DEF Boot, At
  <2>2. \A j \in Instance \ {i} : pc'[j] = pc[j]
    BY <1>3 DEF Boot, At
  <2>3. late' \subseteq LoopGone'
    BY <1>1, <1>3, <2>2 DEF Boot, LoopGone
  <2>4. row' \in [Instance -> {None, "UP", "STOPPED"}] /\ accepting' \in [Instance -> BOOLEAN]
        /\ op' \in [Instance -> Operation]
    BY <1>3 DEF Boot, Operation
  <2> QED
    BY <1>3, <2>1, <2>3, <2>4 DEF Boot, LoopGone, tasks
<1>4. CASE \E what \in Operation : Stop(i, what)
  <2>1. PICK what \in Operation : Stop(i, what)
    BY <1>4
  <2>2. pc' \in [Instance -> [Worker -> Step]] /\ late \subseteq LoopGone'
    BY <1>1, <1>2, <2>1, AtType DEF Stop, LoopFree
  <2>3. op' \in [Instance -> Operation] /\ halt' \in [Instance -> BOOLEAN] /\ ops' \in 0..MaxOps
    BY <2>1, OpsAssumption DEF Stop
  <2> QED
    BY <2>1, <2>2, <2>3 DEF Stop, LoopGone, store, tasks
<1>5. CASE \E what \in Operation : Request(i, what)
  <2>1. PICK what \in Operation : Request(i, what)
    BY <1>5
  <2>2. pc' \in [Instance -> [Worker -> Step]] /\ late \subseteq LoopGone'
    BY <1>1, <1>2, <2>1, AtType DEF Request, LoopFree
  <2>3. op' \in [Instance -> Operation] /\ ops' \in 0..MaxOps
    BY <2>1, OpsAssumption DEF Request
  <2> QED
    BY <2>1, <2>2, <2>3 DEF Request, LoopGone, store, tasks
<1>6. CASE Join(i)
  <2>1. pc' \in [Instance -> [Worker -> Step]] /\ late \subseteq LoopGone'
    BY <1>1, <1>2, <1>6, AtType DEF Join
  <2> QED
    BY <1>6, <2>1 DEF Join, LoopGone, store, tasks
<1>7. CASE Release(i)
  <2>1. pc' \in [Instance -> [Worker -> Step]] /\ late \subseteq LoopGone'
    BY <1>1, <1>2, <1>7, AtType DEF Release
  <2>2. lease' \in Instance \cup {None}
    BY <1>7 DEF Release
  <2> QED
    BY <1>7, <2>1, <2>2 DEF Release, LoopGone, tasks
<1>8. CASE Close(i)
  <2>1. pc' \in [Instance -> [Worker -> Step]] /\ late \subseteq LoopGone'
    BY <1>1, <1>2, <1>8, AtType DEF Close
  <2>2. row' \in [Instance -> {None, "UP", "STOPPED"}] /\ accepting' \in [Instance -> BOOLEAN]
    BY <1>8 DEF Close
  <2> QED
    BY <1>8, <2>1, <2>2 DEF Close, LoopGone, tasks
<1>9. CASE Gone(i) /\ ops' \in 0..MaxOps
  <2>1. pc' \in [Instance -> [Worker -> Step]] /\ late \subseteq LoopGone'
    <3>1. Off \in [Worker -> Step] /\ Off["loop"] = "down"
      BY <1>1, <1>2 DEF Off
    <3> QED
      BY <1>1, <1>9, <3>1 DEF Gone, LoopGone
  <2>2. /\ op' \in [Instance -> Operation] /\ accepting' \in [Instance -> BOOLEAN]
        /\ halt' \in [Instance -> BOOLEAN] /\ held' \in SUBSET Task
        /\ sel' \in [Instance -> [Worker -> SUBSET (Instance \cup Task)]]
    BY <1>9 DEF Gone, Operation
  <2> QED
    BY <1>9, <2>1, <2>2 DEF Gone, LoopGone, store
<1>10. Exit(i) \/ Crash(i) => Gone(i) /\ ops' \in 0..MaxOps
  BY OpsAssumption DEF Exit, Crash
<1>11. CASE Forget(i)
  BY <1>11 DEF Forget, Alive, tasks, procs
<1>12. CASE \E t \in Thread : Tick(i, t)
  <2>1. PICK t \in Thread : Tick(i, t)
    BY <1>12
  <2>2. pc' \in [Instance -> [Worker -> Step]] /\ late \subseteq LoopGone'
    BY <1>1, <1>2, <2>1, AtType DEF Tick
  <2> QED
    BY <2>1, <2>2 DEF Tick, LoopGone, store, tasks
<1> QED
  BY <1>3, <1>4, <1>5, <1>6, <1>7, <1>8, <1>9, <1>10, <1>11, <1>12

LEMMA CoordStepType == CoordTypeOK /\ CoordNext => CoordTypeOK'
<1> SUFFICES ASSUME CoordTypeOK, CoordNext PROVE CoordTypeOK'
  OBVIOUS
<1>1. "loop" \in Worker /\ Thread \subseteq Worker
  BY DEF Worker
<1>2. ASSUME NEW t \in Task, Age(t) PROVE CoordTypeOK'
  BY <1>2 DEF CoordTypeOK, Age, store, procs
<1> QED
  BY <1>1, <1>2, GoType, LoopType DEF CoordNext, Loop, Supervise

\* Only recovery touches the tasks, and only those that have a row.
LEMMA CoordStepSweeps ==
    ASSUME CoordTypeOK, SweptOK, CoordNext
    PROVE  /\ SweptOK'
           /\ \A t \in Task : \/ task'[t] = task[t]
                              \/ task[t] # None /\ task'[t] = "INTERRUPTED"
<1> USE DEF CoordTypeOK
<1>1. sel \in [Instance -> [Worker -> SUBSET (Instance \cup Task)]] /\ "loop" \in Worker
      /\ pc \in [Instance -> [Worker -> Step]]
  BY DEF Worker
<1>2. ASSUME NEW i \in Instance, NEW w \in Worker, Finish(i, w), NEW j \in Instance,
             NEW v \in Worker, pc'[j][v] = "sweeping"
      PROVE  pc[j][v] = "sweeping" /\ ~(j = i /\ v = w)
  <2>1. CASE OpOf(i, w) = "boot" /\ Thread # {}
    <3>1. PICK t \in Thread : pc' = [pc EXCEPT ![i]["loop"] = "rest", ![i][t] = "rest"]
      BY <1>2, <2>1 DEF Finish
    <3>2. w = "loop"
      BY <2>1 DEF OpOf
    <3>3. t \in Worker
      BY DEF Worker
    <3> QED
      BY <1>1, <1>2, <3>1, <3>2, <3>3
  <2>2. CASE ~(OpOf(i, w) = "boot" /\ Thread # {})
    BY <1>1, <1>2, <2>2 DEF Finish, At
  <2> QED
    BY <2>1, <2>2
<1>3. ASSUME UNCHANGED <<task, sel>>,
             \A j \in Instance : \A v \in Worker : pc'[j][v] = "sweeping" => pc[j][v] = "sweeping"
      PROVE  SweptOK' /\ task' = task
  BY <1>3 DEF SweptOK
<1>4. ASSUME NEW i \in Instance, NEW w \in Worker, NEW s \in Step \ {"sweeping"}, At(i, w, s),
             NEW j \in Instance, NEW v \in Worker, pc'[j][v] = "sweeping"
      PROVE  pc[j][v] = "sweeping" /\ ~(j = i /\ v = w)
  BY <1>1, <1>4 DEF At
<1>5. {"beat", "off", "join", "release", "close", "boot", "exit", "down", "claim", "mark", "marking",
        "sweep", "rest"} \subseteq Step \ {"sweeping"}
  BY DEF Step
<1>6. ASSUME NEW i \in Instance, NEW w \in Worker, Marked(i, w), NEW j \in Instance,
             NEW v \in Worker, pc'[j][v] = "sweeping"
      PROVE  pc[j][v] = "sweeping" /\ ~(j = i /\ v = w)
  BY <1>2, <1>4, <1>5, <1>6 DEF Marked
<1>7. ASSUME NEW i \in Instance, NEW w \in Worker, task' = task,
             \A j \in Instance : \A v \in Worker :
                ~(j = i /\ v = w) => sel'[j][v] = sel[j][v],
             \A j \in Instance : \A v \in Worker : pc'[j][v] = "sweeping" =>
                pc[j][v] = "sweeping" /\ ~(j = i /\ v = w)
      PROVE  SweptOK'
  BY <1>1, <1>7 DEF SweptOK
<1>8. ASSUME NEW i \in Instance, Boot(i) \/ Join(i) \/ Release(i) \/ Close(i) \/ Forget(i)
                \/ \E what \in Operation : Stop(i, what) \/ Request(i, what)
      PROVE  SweptOK' /\ task' = task
  BY <1>1, <1>3, <1>4, <1>5, <1>8 DEF Boot, Join, Release, Close, Forget, Stop, Request,
     store, tasks, procs
<1>9. ASSUME NEW i \in Instance, Gone(i) PROVE SweptOK' /\ task' = task
  <2>1. \A v \in Worker : pc'[i][v] # "sweeping"
    BY <1>1, <1>9 DEF Gone, Off
  <2>2. \A j \in Instance \ {i} : pc'[j] = pc[j] /\ sel'[j] = sel[j]
    BY <1>1, <1>9 DEF Gone
  <2> QED
    BY <1>9, <2>1, <2>2 DEF Gone, SweptOK
<1>10. ASSUME NEW i \in Instance, NEW w \in Worker, Beat(i, w) \/ Claim(i, w)
       PROVE  SweptOK' /\ task' = task
  <2>1. UNCHANGED <<task, sel>>
    BY <1>10 DEF Beat, Claim, tasks
  <2>2. Finish(i, w) \/ \E s \in {"claim", "mark", "sweep"} : At(i, w, s)
    BY <1>10 DEF Beat, Claim
  <2> QED
    BY <1>2, <1>3, <1>4, <1>5, <2>1, <2>2
<1>11. ASSUME NEW i \in Instance, NEW w \in Worker, Mark(i, w) PROVE SweptOK' /\ task' = task
  <2>1. \/ Marked(i, w) /\ sel' = sel
        \/ (\E found : sel' = [sel EXCEPT ![i][w] = found]) /\ At(i, w, "marking")
    BY <1>11 DEF Mark
  <2>3. \A j \in Instance : \A v \in Worker : ~(j = i /\ v = w) => sel'[j][v] = sel[j][v]
    BY <1>1, <2>1
  <2>4. \A j \in Instance : \A v \in Worker : pc'[j][v] = "sweeping" =>
           pc[j][v] = "sweeping" /\ ~(j = i /\ v = w)
    <3>1. CASE Marked(i, w)
      BY <1>6, <3>1
    <3>2. CASE At(i, w, "marking")
      BY <1>1, <3>2 DEF At
    <3> QED
      BY <2>1, <3>1, <3>2
  <2>2. task' = task
    BY <1>11 DEF Mark, tasks
  <2> QED
    BY <1>7, <2>2, <2>3, <2>4
<1>12. ASSUME NEW i \in Instance, NEW w \in Worker, Marking(i, w) PROVE SweptOK' /\ task' = task
  <2>1. PICK j \in sel[i][w] : sel' = [sel EXCEPT ![i][w] = @ \ {j}]
    BY <1>12 DEF Marking
  <2>2. task' = task /\ pc[i][w] = "marking" /\ (Marked(i, w) \/ pc' = pc)
    BY <1>12 DEF Marking, tasks
  <2>3. \A k \in Instance : \A v \in Worker : pc'[k][v] = "sweeping" =>
           pc[k][v] = "sweeping" /\ ~(k = i /\ v = w)
    BY <1>6, <2>2
  <2>4. \A k \in Instance : \A v \in Worker : ~(k = i /\ v = w) => sel'[k][v] = sel[k][v]
    BY <1>1, <2>1
  <2> QED
    BY <1>7, <2>2, <2>3, <2>4
<1>13. ASSUME NEW i \in Instance, NEW w \in Worker, Sweep(i, w) PROVE SweptOK' /\ task' = task
  <2> DEFINE found == Interrupted(i, OpOf(i, w) = "boot")
  <2>1. task' = task
    BY <1>13 DEF Sweep, tasks
  <2>2. CASE Finish(i, w) /\ sel' = sel
    <3>1. \A j \in Instance : \A v \in Worker : pc'[j][v] = "sweeping" =>
             pc[j][v] = "sweeping" /\ ~(j = i /\ v = w)
      BY <1>2, <2>2
    <3> QED
      BY <1>7, <2>1, <2>2, <3>1
  <2>3. CASE sel' = [sel EXCEPT ![i][w] = found] /\ At(i, w, "sweeping")
    <3>1. \A t \in found : task[t] # None
      BY NullAssumption DEF Interrupted
    <3>2. sel'[i][w] = found /\ \A j \in Instance : \A v \in Worker :
             ~(j = i /\ v = w) => pc'[j][v] = pc[j][v] /\ sel'[j][v] = sel[j][v]
      BY <1>1, <2>3 DEF At
    <3> HIDE DEF found
    <3> QED
      BY <2>1, <3>1, <3>2 DEF SweptOK
  <2> QED
    BY <1>13, <2>2, <2>3 DEF Sweep
<1>14. ASSUME NEW i \in Instance, NEW w \in Worker, Sweeping(i, w)
       PROVE  /\ SweptOK'
              /\ \A t \in Task : \/ task'[t] = task[t]
                                 \/ task[t] # None /\ task'[t] = "INTERRUPTED"
  <2>1. PICK t \in sel[i][w] : /\ task' = [task EXCEPT ![t] = "INTERRUPTED"]
                               /\ sel' = [sel EXCEPT ![i][w] = @ \ {t}]
    BY <1>14 DEF Sweeping
  <2>2. t \in Task => task[t] # None
    BY <1>14 DEF SweptOK, Sweeping
  <2>3. \A u \in Task : \/ task'[u] = task[u]
                        \/ task[u] # None /\ task'[u] = "INTERRUPTED"
    BY <2>1, <2>2
  <2>4. Finish(i, w) \/ pc' = pc
    BY <1>14 DEF Sweeping
  <2>5. \A j \in Instance : \A v \in Worker :
           /\ pc'[j][v] = "sweeping" => pc[j][v] = "sweeping"
           /\ sel'[j][v] \subseteq sel[j][v]
    BY <1>1, <1>2, <2>1, <2>4
  <2> QED
    BY <2>3, <2>5, NullAssumption DEF SweptOK
<1>15. ASSUME NEW i \in Instance, NEW t \in Thread, Tick(i, t) PROVE SweptOK' /\ task' = task
  <2>1. UNCHANGED <<task, sel>> /\ (At(i, t, "beat") \/ At(i, t, "off")) /\ t \in Worker
    BY <1>15 DEF Tick, tasks, Worker
  <2> QED
    BY <1>3, <1>4, <1>5, <2>1
<1>16. ASSUME NEW t \in Task, Age(t) PROVE SweptOK' /\ task' = task
  BY <1>16 DEF Age, procs, SweptOK
<1>17. Thread \subseteq Worker
  BY DEF Worker
<1> QED
  BY <1>1, <1>8, <1>9, <1>10, <1>11, <1>12, <1>13, <1>14, <1>15, <1>16, <1>17
     DEF CoordNext, Loop, Supervise, Go, Exit, Crash

-----------------------------------------------------------------------------
(* Who ends a task.                                                         *)

\* A recovery has selected the task and not yet updated it.
Sought(t) == \E i \in Instance : \E w \in Worker : pc[i][w] = "sweeping" /\ t \in sel[i][w]

\* A coroutine that can still end a task is in a live process, and the task has
\* not ended but by recovery; only tasks that are RUNNING are due.
HeldOK ==
    \A t \in Task :
       /\ t \in held => /\ task[t] \in {"RUNNING", "INTERRUPTED"}
                        /\ owner[t] \in Instance /\ Alive(owner[t])
       /\ t \in old => task[t] = "RUNNING"

(* A task is created once.  Its own coroutine ends it, in a live process and once,  *)
(* also when recovery has interrupted it before; whatever else changes it is a      *)
(* recovery that has selected it (update_companion_task and                        *)
(* recover_interrupted_companion_tasks have no condition on what they overwrite).   *)
TaskEnds ==
    [][\A t \in Task : task'[t] # task[t] =>
          \/ task[t] = None /\ task'[t] = "RUNNING" /\ t \in held'
          \/ /\ t \in held /\ t \notin held' /\ Alive(owner[t])
             /\ task[t] \in {"RUNNING", "INTERRUPTED"} /\ task'[t] \in {"COMPLETED", "FAILED"}
          \/ Sought(t) /\ task[t] # None /\ task'[t] = "INTERRUPTED"]_coordVars

\* Nobody is about to write the task.
Final(t) == task[t] \notin {None, "RUNNING"} /\ t \notin held /\ ~Sought(t)

(* A task that has ended stays as it is once its coroutine and the recoveries that  *)
(* had selected it are through, over all restarts, ticks and crashes to come.       *)
TaskStays == [][\A t \in Task : Final(t) => Final(t)' /\ task'[t] = task[t]]_coordVars

\* Where workers are after a step of one of them.
LEMMA AtMoves ==
    ASSUME CoordTypeOK, NEW i \in Instance, NEW w \in Worker, NEW s \in Step, At(i, w, s),
           NEW j \in Instance, NEW v \in Worker
    PROVE  pc'[j][v] \in {pc[j][v], s} /\ (pc'[j][v] # pc[j][v] => j = i /\ v = w)
  BY DEF CoordTypeOK, At

LEMMA FinishMoves ==
    ASSUME CoordTypeOK, NEW i \in Instance, NEW w \in Worker, Finish(i, w),
           NEW j \in Instance, NEW v \in Worker
    PROVE  pc'[j][v] \in {pc[j][v], "rest"}
<1>1. pc \in [Instance -> [Worker -> Step]] /\ Thread \subseteq Worker /\ "loop" \in Worker
  BY DEF CoordTypeOK, Worker
<1>2. CASE OpOf(i, w) = "boot" /\ Thread # {}
  <2>1. PICK t \in Thread : pc' = [pc EXCEPT ![i]["loop"] = "rest", ![i][t] = "rest"]
    BY <1>2 DEF Finish
  <2> QED
    BY <1>1, <2>1
<1>3. CASE ~(OpOf(i, w) = "boot" /\ Thread # {})
  BY <1>1, <1>3 DEF Finish, At
<1> QED
  BY <1>2, <1>3

\* A worker's step ends no process and begins a recovery only in Sweep.
LEMMA GoMoves ==
    ASSUME CoordTypeOK, NEW i \in Instance, NEW w \in Worker, Go(i, w),
           NEW j \in Instance, NEW v \in Worker, pc'[j][v] # pc[j][v]
    PROVE  /\ pc'[j][v] \in {"rest", "claim", "mark", "marking", "sweep", "sweeping"}
           /\ pc'[j][v] = "sweeping" => Sweep(i, w) /\ j = i /\ v = w
<1> DEFINE S == {"rest", "claim", "mark", "marking", "sweep"}
<1>1. S \subseteq Step /\ "sweeping" \in Step /\ "sweeping" \notin S
  BY DEF Step
<1>2. CASE \E s \in S : At(i, w, s)
  BY <1>1, <1>2, AtMoves
<1>3. CASE Finish(i, w)
  BY <1>3, FinishMoves
<1>4. CASE At(i, w, "sweeping") /\ Sweep(i, w)
  BY <1>1, <1>4, AtMoves
<1>5. \/ \E s \in S : At(i, w, s)
      \/ Finish(i, w)
      \/ At(i, w, "sweeping") /\ Sweep(i, w)
  <2>1. CASE Beat(i, w) \/ Claim(i, w)
    BY <2>1 DEF Beat, Claim
  <2>2. CASE Mark(i, w) \/ Marking(i, w)
    BY <2>2 DEF Mark, Marking, Marked
  <2>3. CASE Sweep(i, w)
    BY <2>3 DEF Sweep
  <2>4. CASE Sweeping(i, w)
    BY <2>4 DEF Sweeping
  <2> QED
    BY <2>1, <2>2, <2>3, <2>4 DEF Go
<1> QED
  BY <1>2, <1>3, <1>4, <1>5

\* What a worker's step does to the tasks.
LEMMA GoTasks ==
    ASSUME CoordTypeOK, HeldOK, NEW i \in Instance, NEW w \in Worker, Go(i, w), NEW t \in Task
    PROVE  /\ UNCHANGED <<held, owner>>
           /\ task'[t] # task[t] => Sought(t) /\ task'[t] = "INTERRUPTED"
           /\ t \in old' => t \in old /\ task'[t] = task[t]
           /\ Sought(t)' => Sought(t) \/ task[t] = "RUNNING"
<1>1. sel \in [Instance -> [Worker -> SUBSET (Instance \cup Task)]] /\ task \in [Task -> Status]
  BY DEF CoordTypeOK
<1>2. ASSUME NEW j \in Instance, NEW v \in Worker, pc'[j][v] = "sweeping", pc[j][v] # "sweeping"
      PROVE  Sweep(i, w) /\ j = i /\ v = w
  BY <1>2, GoMoves
<1>3. CASE Beat(i, w) \/ Claim(i, w)
  <2>1. UNCHANGED <<task, owner, held, old, sel>>
    BY <1>3 DEF Beat, Claim, tasks
  <2>2. ~Sweep(i, w)
    BY <1>3 DEF Beat, Claim, Sweep
  <2> QED
    BY <1>2, <2>1, <2>2 DEF Sought
<1>4. CASE Mark(i, w) \/ Marking(i, w)
  <2>1. UNCHANGED <<task, owner, held, old>> /\ pc[i][w] \in {"mark", "marking"}
    BY <1>4 DEF Mark, Marking, tasks
  <2>2. ~Sweep(i, w)
    BY <2>1 DEF Sweep
  <2>3. \A j \in Instance : \A v \in Worker : ~(j = i /\ v = w) => sel'[j][v] = sel[j][v]
    <3>1. sel' = sel \/ \E x : sel' = [sel EXCEPT ![i][w] = x]
      BY <1>4 DEF Mark, Marking
    <3> QED
      BY <1>1, <3>1
  <2> QED
    BY <1>2, <2>1, <2>2, <2>3 DEF Sought
<1>5. CASE Sweep(i, w)
  <2> DEFINE found == Interrupted(i, OpOf(i, w) = "boot")
  <2>1. UNCHANGED <<task, owner, held, old>> /\ pc[i][w] = "sweep"
    BY <1>5 DEF Sweep, tasks
  <2>2. CASE found = {} /\ Finish(i, w) /\ sel' = sel
    <3>1. \A j \in Instance : \A v \in Worker : pc'[j][v] = "sweeping" => pc[j][v] = "sweeping"
      BY <2>2, FinishMoves
    <3> QED
      BY <2>1, <2>2, <3>1 DEF Sought
  <2>3. CASE sel' = [sel EXCEPT ![i][w] = found]
    <3>1. t \in found => task[t] = "RUNNING"
      BY DEF Interrupted
    <3> HIDE DEF found
    <3>2. sel'[i][w] = found /\ \A j \in Instance : \A v \in Worker :
             ~(j = i /\ v = w) => sel'[j][v] = sel[j][v]
      BY <1>1, <2>3
    <3> QED
      BY <1>2, <2>1, <3>1, <3>2 DEF Sought
  <2> QED
    BY <1>5, <2>2, <2>3 DEF Sweep
<1>6. CASE Sweeping(i, w)
  <2>1. PICK u \in sel[i][w] : /\ task' = [task EXCEPT ![u] = "INTERRUPTED"]
                               /\ old' = old \ {u}
                               /\ sel' = [sel EXCEPT ![i][w] = @ \ {u}]
    BY <1>6 DEF Sweeping
  <2>2. UNCHANGED <<owner, held>> /\ pc[i][w] = "sweeping" /\ ~Sweep(i, w)
    BY <1>6 DEF Sweeping, Sweep
  <2>3. \A j \in Instance : \A v \in Worker : sel'[j][v] \subseteq sel[j][v]
    BY <1>1, <2>1
  <2>4. Sought(t)' => Sought(t)
    BY <1>2, <2>2, <2>3 DEF Sought
  <2> QED
    BY <1>1, <2>1, <2>2, <2>4 DEF Sought
<1> QED
  BY <1>3, <1>4, <1>5, <1>6 DEF Go

\* A step of an event loop or of the time leaves the tasks alone, but those of a
\* process that ends lose their coroutines.
LEMMA LoopTasks ==
    ASSUME CoordTypeOK, NEW i \in Instance,
           \/ Boot(i) \/ Join(i) \/ Release(i) \/ Close(i) \/ Exit(i) \/ Crash(i) \/ Forget(i)
           \/ \E what \in Operation : Stop(i, what) \/ Request(i, what)
           \/ \E t \in Thread : Tick(i, t)
    PROVE  /\ UNCHANGED <<task, owner, old>> /\ held' \subseteq held
           /\ \A t \in held' : owner[t] \in Instance /\ Alive(owner[t]) => Alive(owner[t])'
           /\ \A t \in Task : Sought(t)' => Sought(t)
<1>1. /\ sel \in [Instance -> [Worker -> SUBSET (Instance \cup Task)]]
      /\ pc \in [Instance -> [Worker -> Step]] /\ "loop" \in Worker /\ Thread \subseteq Worker
  BY DEF CoordTypeOK, Worker
<1>2. CASE Exit(i) \/ Crash(i)
  <2>1. Gone(i)
    BY <1>2 DEF Exit, Crash
  <2>2. \A v \in Worker : pc'[i][v] # "sweeping"
    BY <1>1, <2>1 DEF Gone, Off
  <2>3. \A j \in Instance \ {i} : pc'[j] = pc[j] /\ sel'[j] = sel[j]
    BY <1>1, <2>1 DEF Gone
  <2> QED
    BY <2>1, <2>2, <2>3 DEF Gone, Sought, Alive
<1>3. CASE Forget(i)
  BY <1>3 DEF Forget, tasks, procs, Sought, Alive
<1>4. ASSUME UNCHANGED <<task, owner, held, old, sel>>, NEW w \in Worker,
             NEW s \in {"beat", "join", "release", "close", "boot", "exit", "off"}, At(i, w, s)
      PROVE  /\ \A t \in held' : owner[t] \in Instance /\ Alive(owner[t]) => Alive(owner[t])'
             /\ \A t \in Task : Sought(t)' => Sought(t)
  <2>1. s \in Step \ {"down", "sweeping"}
    BY DEF Step
  <2>2. \A j \in Instance : \A v \in Worker : pc'[j][v] \in {pc[j][v], s}
    BY <1>4, <2>1, AtMoves
  <2> QED
    BY <1>1, <1>4, <2>1, <2>2 DEF Sought, Alive
<1>5. CASE Boot(i) \/ Join(i) \/ Release(i) \/ Close(i)
  <2>1. /\ UNCHANGED <<task, owner, held, old, sel>>
        /\ \E s \in {"beat", "release", "close", "boot", "exit"} : At(i, "loop", s)
    BY <1>5 DEF Boot, Join, Release, Close, tasks
  <2> QED
    BY <1>1, <1>4, <2>1
<1>6. CASE \E what \in Operation : Stop(i, what) \/ Request(i, what)
  <2>1. /\ UNCHANGED <<task, owner, held, old, sel>>
        /\ \E s \in {"join", "beat"} : At(i, "loop", s)
    BY <1>6 DEF Stop, Request, tasks
  <2> QED
    BY <1>1, <1>4, <2>1
<1>7. CASE \E t \in Thread : Tick(i, t)
  <2>1. PICK t \in Thread : Tick(i, t)
    BY <1>7
  <2>2. UNCHANGED <<task, owner, held, old, sel>> /\ \E s \in {"beat", "off"} : At(i, t, s)
    BY <2>1 DEF Tick, tasks
  <2> QED
    BY <1>1, <1>4, <2>2
<1> QED
  BY <1>2, <1>3, <1>5, <1>6, <1>7

\* Every step of the instances, for each task.
LEMMA CoordStepHeld ==
    ASSUME CoordTypeOK, HeldOK, CoordNext
    PROVE  /\ HeldOK' /\ held' \subseteq held
           /\ \A t \in Task : /\ task'[t] # task[t] => Sought(t) /\ task'[t] = "INTERRUPTED"
                              /\ Sought(t)' => Sought(t) \/ task[t] = "RUNNING"
<1>1. ASSUME NEW i \in Instance, NEW w \in Worker, Go(i, w)
      PROVE  /\ HeldOK' /\ held' \subseteq held
             /\ \A t \in Task : /\ task'[t] # task[t] => Sought(t) /\ task'[t] = "INTERRUPTED"
                                /\ Sought(t)' => Sought(t) \/ task[t] = "RUNNING"
  <2>1. \A t \in Task :
           /\ UNCHANGED <<held, owner>>
           /\ task'[t] # task[t] => Sought(t) /\ task'[t] = "INTERRUPTED"
           /\ t \in old' => t \in old /\ task'[t] = task[t]
           /\ Sought(t)' => Sought(t) \/ task[t] = "RUNNING"
    BY <1>1, GoTasks
  <2>2. \A j \in Instance : Alive(j) => Alive(j)'
    BY <1>1, GoMoves DEF Alive, Worker
  <2>3. HeldOK'
    <3> SUFFICES ASSUME NEW t \in Task
                 PROVE  /\ t \in held' => /\ task'[t] \in {"RUNNING", "INTERRUPTED"}
                                          /\ owner'[t] \in Instance /\ Alive(owner[t])'
                        /\ t \in old' => task'[t] = "RUNNING"
      BY DEF HeldOK
    <3>1. t \in held => /\ task[t] \in {"RUNNING", "INTERRUPTED"}
                        /\ owner[t] \in Instance /\ Alive(owner[t])
      BY DEF HeldOK
    <3>2. t \in old => task[t] = "RUNNING"
      BY DEF HeldOK
    <3>3. UNCHANGED <<held, owner>> /\ (Alive(owner[t]) /\ owner[t] \in Instance => Alive(owner[t])')
      BY <2>1, <2>2 DEF Alive
    <3> QED
      BY <2>1, <3>1, <3>2, <3>3
  <2>4. held' \subseteq held
    BY <1>1 DEF Go, Beat, Claim, Mark, Marking, Sweep, Sweeping, tasks
  <2> QED
    BY <2>1, <2>3, <2>4
<1>2. ASSUME NEW i \in Instance,
             \/ Boot(i) \/ Join(i) \/ Release(i) \/ Close(i) \/ Exit(i) \/ Crash(i) \/ Forget(i)
             \/ \E what \in Operation : Stop(i, what) \/ Request(i, what)
             \/ \E t \in Thread : Tick(i, t)
      PROVE  HeldOK' /\ held' \subseteq held /\ task' = task
             /\ \A t \in Task : Sought(t)' => Sought(t)
  BY <1>2, LoopTasks DEF HeldOK, Alive
<1>3. ASSUME NEW t \in Task, Age(t)
      PROVE  HeldOK' /\ held' = held /\ task' = task /\ \A u \in Task : Sought(u)' => Sought(u)
  BY <1>3 DEF Age, HeldOK, Alive, Sought, procs
<1>4. "loop" \in Worker /\ Thread \subseteq Worker
  BY DEF Worker
<1>5. \/ \E i \in Instance : \E w \in Worker : Go(i, w)
      \/ \E i \in Instance :
            \/ Boot(i) \/ Join(i) \/ Release(i) \/ Close(i) \/ Exit(i) \/ Crash(i) \/ Forget(i)
            \/ \E what \in Operation : Stop(i, what) \/ Request(i, what)
            \/ \E t \in Thread : Tick(i, t)
      \/ \E t \in Task : Age(t)
  BY <1>4 DEF CoordNext, Loop, Supervise
<1> QED
  BY <1>1, <1>2, <1>3, <1>5

\* What the owners of tasks do, between two steps of the instances.
LEMMA WorkTasks ==
    ASSUME CoordTypeOK, HeldOK, Work
    PROVE  /\ CoordTypeOK' /\ HeldOK' /\ UNCHANGED procs
           /\ \A t \in Task : task'[t] # task[t] =>
                 \/ task[t] = None /\ task'[t] = "RUNNING" /\ t \in held'
                 \/ /\ t \in held /\ t \notin held' /\ task'[t] \in {"COMPLETED", "FAILED"}
           /\ \A t \in Task : t \in held' => t \in held \/ task[t] = None
<1>1. /\ UNCHANGED <<store, procs>>
      /\ task \in [Task -> Status] /\ owner \in [Task -> Instance \cup {None}]
      /\ old \subseteq Task /\ held \subseteq Task
  BY DEF Work, CoordTypeOK
<1>2. ASSUME task' \in [Task -> Status], owner' \in [Task -> Instance \cup {None}],
             old' \subseteq Task, held' \subseteq Task
      PROVE  CoordTypeOK'
  BY <1>1, <1>2 DEF CoordTypeOK, store, procs
<1>3. pc' = pc
  BY <1>1 DEF procs
<1>4. CASE \E i \in Instance, t \in Task : LoopFree(i) /\ accepting[i] /\ Create(i, t)
  <2>1. PICK i \in Instance, t \in Task : LoopFree(i) /\ Create(i, t)
    BY <1>4
  <2>2. /\ task[t] = None /\ task' = [task EXCEPT ![t] = "RUNNING"]
        /\ owner' = [owner EXCEPT ![t] = i] /\ held' = held \cup {t} /\ old' = old
    BY <2>1 DEF Create
  <2>3. CoordTypeOK'
    BY <1>1, <1>2, <2>2 DEF Status
  <2>4. HeldOK'
    BY <1>1, <1>3, <2>1, <2>2 DEF HeldOK, Alive, LoopFree
  <2> QED
    BY <1>1, <2>2, <2>3, <2>4
<1>5. CASE \E t \in held : /\ LoopFree(owner[t])
                           /\ Abandon(t) \/ \E status \in {"COMPLETED", "FAILED"} : End(t, status)
  <2>1. PICK t \in held : Abandon(t) \/ \E status \in {"COMPLETED", "FAILED"} : End(t, status)
    BY <1>5
  <2>2. CASE Abandon(t)
    <3>1. UNCHANGED <<task, owner, old>> /\ held' = held \ {t}
      BY <2>2 DEF Abandon
    <3>2. CoordTypeOK'
      BY <1>1, <1>2, <3>1
    <3>3. HeldOK'
      BY <1>3, <3>1 DEF HeldOK, Alive
    <3> QED
      BY <1>1, <3>1, <3>2, <3>3
  <2>3. CASE \E status \in {"COMPLETED", "FAILED"} : End(t, status)
    <3>1. PICK status \in {"COMPLETED", "FAILED"} : End(t, status)
      BY <2>3
    <3>2. /\ task' = [task EXCEPT ![t] = status] /\ old' = old \ {t}
          /\ held' = held \ {t} /\ owner' = owner
      BY <3>1 DEF End
    <3>3. CoordTypeOK'
      BY <1>1, <1>2, <3>2 DEF Status
    <3>4. HeldOK'
      BY <1>1, <1>3, <3>2 DEF HeldOK, Alive
    <3> QED
      BY <1>1, <3>2, <3>3, <3>4
  <2> QED
    BY <2>1, <2>2, <2>3
<1> QED
  BY <1>4, <1>5 DEF Work

\* The inductive invariant of instances and tasks: the coroutine of companion_message
\* that can end a task is in a live process, and recovery has selected rows only.
THEOREM TasksHeld == Spec => [](CoordTypeOK /\ SweptOK /\ HeldOK)
<1> DEFINE Inv == CoordTypeOK /\ SweptOK /\ HeldOK
<1>1. CoordInit => Inv
  <2> SUFFICES ASSUME CoordInit PROVE Inv
    OBVIOUS
  <2>1. CoordTypeOK
    BY OpsAssumption DEF CoordInit, CoordTypeOK, Off, Step, Worker, Operation, Status
  <2>2. SweptOK /\ HeldOK
    BY DEF CoordInit, SweptOK, Off, HeldOK
  <2> QED
    BY <2>1, <2>2
<1>2. Inv /\ [Next]_coordVars => Inv'
  <2> SUFFICES ASSUME Inv, [Next]_coordVars PROVE Inv'
    OBVIOUS
  <2>1. CASE CoordNext
    BY <2>1, CoordStepType, CoordStepSweeps, CoordStepHeld
  <2>2. CASE Work
    <3>1. CoordTypeOK' /\ HeldOK' /\ UNCHANGED <<pc, sel>>
      BY <2>2, WorkTasks DEF procs
    <3>2. \A t \in Task : task[t] # None => task'[t] # None
      BY <2>2, WorkTasks, NullAssumption
    <3> QED
      BY <3>1, <3>2 DEF SweptOK
  <2>3. CASE UNCHANGED coordVars
    BY <2>3 DEF coordVars, CoordTypeOK, SweptOK, HeldOK, Alive
  <2> QED
    BY <2>1, <2>2, <2>3 DEF Next
<1> QED
  BY <1>1, <1>2, PTL DEF Spec

\* A task is ended once by its own companion_message, in a live process, or by a
\* recovery that selected it; between the two nothing orders the writes.
THEOREM TasksEnd == Spec => TaskEnds
<1> DEFINE Inv == CoordTypeOK /\ SweptOK /\ HeldOK
           Ends == \A t \in Task : task'[t] # task[t] =>
                      \/ task[t] = None /\ task'[t] = "RUNNING" /\ t \in held'
                      \/ /\ t \in held /\ t \notin held' /\ Alive(owner[t])
                         /\ task[t] \in {"RUNNING", "INTERRUPTED"} /\ task'[t] \in {"COMPLETED", "FAILED"}
                      \/ Sought(t) /\ task[t] # None /\ task'[t] = "INTERRUPTED"
<1>1. Inv /\ [Next]_coordVars => [Ends]_coordVars
  <2> SUFFICES ASSUME Inv, Next PROVE Ends
    OBVIOUS
  <2>1. CASE CoordNext
    <3>1. \A t \in Task : Sought(t) => task[t] # None
      BY DEF SweptOK, Sought
    <3> QED
      BY <2>1, <3>1, CoordStepHeld
  <2>2. CASE Work
    BY <2>2, WorkTasks DEF HeldOK
  <2> QED
    BY <2>1, <2>2 DEF Next
<1> QED
  BY <1>1, TasksHeld, PTL DEF Spec, TaskEnds

\* What has ended is not written again by recover_interrupted_companion_tasks of a
\* start or a tick that begins later, on any instance.
THEOREM TasksStay == Spec => TaskStays
<1> DEFINE Inv == CoordTypeOK /\ SweptOK /\ HeldOK
           Stays == \A t \in Task : Final(t) => Final(t)' /\ task'[t] = task[t]
<1>1. Inv /\ [Next]_coordVars => [Stays]_coordVars
  <2> SUFFICES ASSUME Inv, Next, NEW t \in Task, Final(t) PROVE Final(t)' /\ task'[t] = task[t]
    OBVIOUS
  <2>1. CASE CoordNext
    <3>1. /\ held' \subseteq held
          /\ task'[t] # task[t] => Sought(t)
          /\ Sought(t)' => Sought(t) \/ task[t] = "RUNNING"
      BY <2>1, CoordStepHeld
    <3> QED
      BY <3>1 DEF Final
  <2>2. CASE Work
    <3>1. UNCHANGED <<pc, sel>> /\ t \notin held' /\ task'[t] = task[t]
      BY <2>2, WorkTasks DEF Final, procs
    <3> QED
      BY <3>1 DEF Final, Sought
  <2> QED
    BY <2>1, <2>2 DEF Next
<1> QED
  BY <1>1, TasksHeld, PTL DEF Spec, TaskStays

-----------------------------------------------------------------------------
(* Types of the turns.                                                      *)

LEMMA TypeInit == Init => TInv
<1> SUFFICES ASSUME Init PROVE TInv
  OBVIOUS
<1>1. CoordTypeOK
  <2>1. Off \in [Worker -> Step] /\ Off["loop"] = "down"
    BY DEF Off, Step, Worker
  <2> QED
    BY <2>1, OpsAssumption DEF Init, CoordInit, CoordTypeOK, Status, Operation
<1>2. NewTurn \in TurnRecord
  BY CandidatesAssumption DEF NewTurn, TurnRecord, TurnStep, Over
<1> QED
  BY <1>1, <1>2 DEF Init, TInv, Running, NewTurn

\* The first fallback that is left is one of them.
LEMMA MinType ==
    ASSUME NEW S \in SUBSET Fallbacks, S # {}
    PROVE  Min(S) \in S
<1>1. S \subseteq 2..4
  BY DEF Fallbacks
<1>2. \E x \in S : \A y \in S : x <= y
  <2>1. CASE 2 \in S
    BY <1>1, <2>1
  <2>2. CASE 2 \notin S /\ 3 \in S
    BY <1>1, <2>2
  <2>3. CASE 2 \notin S /\ 3 \notin S
    <3>1. \A y \in S : y = 4
      BY <1>1, <2>3
    <3> QED
      BY <3>1
  <2> QED
    BY <2>1, <2>2, <2>3
<1> QED
  BY <1>2 DEF Min

LEMMA FailingType ==
    ASSUME NEW r \in TurnRecord, r.asked \in Candidate
    PROVE  /\ Failing(r) \in TurnRecord
           /\ Failing(r).step \in {"ask", "close"}
           /\ Failing(r).at = r.at /\ Failing(r).before = r.before
           /\ Failing(r).plan = r.plan /\ Failing(r).ok = r.ok /\ Failing(r).reply = r.reply
           /\ Failing(r).pick = r.pick /\ Failing(r).heard = r.heard
           /\ Failing(r).failed = r.failed \cup {r.asked}
           /\ r.rest = {} => Failing(r).step = "close"
           /\ r.rest # {} => /\ Failing(r).step = "ask"
                             /\ Failing(r).asked = Min(r.rest)
                             /\ Failing(r).rest = r.rest \ {Min(r.rest)}
<1>1. CASE r.rest = {}
  BY <1>1 DEF Failing, TurnRecord, TurnStep
<1>2. CASE r.rest # {}
  <2>1. Min(r.rest) \in r.rest /\ r.rest \subseteq Candidate
    BY <1>2, MinType DEF TurnRecord, Fallbacks
  <2>2. Min(r.rest) \in 0..Candidates
    BY <2>1, CandidatesAssumption DEF Candidate
  <2> DEFINE m == Min(r.rest)
             q == [r EXCEPT !.failed = r.failed \cup {r.asked}, !.step = "ask",
                            !.asked = m, !.rest = r.rest \ {m}]
  <2>3. Failing(r) = q
    BY <1>2 DEF Failing
  <2> HIDE DEF m
  <2>4. q \in TurnRecord
    BY <2>1, <2>2 DEF TurnRecord, TurnStep, m
  <2>5. /\ q.step = "ask" /\ q.asked = m /\ q.rest = r.rest \ {m} /\ q.at = r.at
        /\ q.before = r.before /\ q.plan = r.plan /\ q.ok = r.ok /\ q.reply = r.reply
        /\ q.failed = r.failed \cup {r.asked} /\ q.pick = r.pick /\ q.heard = r.heard
    BY DEF TurnRecord
  <2> HIDE DEF q
  <2> QED
    BY <1>2, <2>3, <2>4, <2>5 DEF m
<1> QED
  BY <1>1, <1>2

LEMMA LeftType ==
    ASSUME NEW r \in TurnRecord, NEW s \in Over
    PROVE  /\ Left(r, s) \in TurnRecord
           /\ Left(r, s).step = s /\ Left(r, s).at = r.at /\ Left(r, s).reply = r.reply
<1>1. NewTurn \in TurnRecord
  BY CandidatesAssumption DEF NewTurn, TurnRecord, TurnStep
<1>2. s \in TurnStep /\ r.at \in Instance \cup {None} /\ r.reply \in Reply \cup {None}
  BY DEF TurnStep, TurnRecord
<1> QED
  BY <1>1, <1>2 DEF Left, TurnRecord

\* The record of a turn that has heard the candidate it asks.
LEMMA AnsweringType ==
    ASSUME NEW r \in TurnRecord, r.asked \in Candidate
    PROVE  /\ Answering(r) \in TurnRecord
           /\ Answering(r).heard = r.heard \cup {r.asked}
           /\ Answering(r).step = r.step /\ Answering(r).at = r.at
           /\ Answering(r).before = r.before /\ Answering(r).pick = r.pick
           /\ Answering(r).plan = r.plan /\ Answering(r).asked = r.asked
           /\ Answering(r).rest = r.rest /\ Answering(r).ok = r.ok
           /\ Answering(r).failed = r.failed /\ Answering(r).reply = r.reply
BY DEF Answering, TurnRecord

\* A dispatch that counts as failed: what the turn made of it before it went on.
Alike(q, r) ==
    /\ q.step = r.step /\ q.at = r.at /\ q.before = r.before /\ q.pick = r.pick
    /\ q.plan = r.plan /\ q.asked = r.asked /\ q.rest = r.rest /\ q.ok = r.ok
    /\ q.failed = r.failed /\ q.reply = r.reply
    /\ q.heard = r.heard \/ (q.heard = r.heard \cup {r.asked} /\ r.failed # {})

LEMMA FailsAs ==
    ASSUME TInv, TurnsOK, NEW t \in Turn, Refused(t) \/ Fail(t) \/ Unrecorded(t)
    PROVE  /\ turn[t].step \in {"ask", "await"} /\ Running(t)
           /\ turn[t].asked \in Candidate
           /\ \E q \in TurnRecord :
                 turn' = [turn EXCEPT ![t] = Failing(q)] /\ Alike(q, turn[t])
<1>1. turn \in [Turn -> TurnRecord] /\ turn[t] \in TurnRecord
  BY DEF TInv
<1>2. turn[t].step \in {"ask", "await"} /\ Running(t)
  BY DEF Refused, Fail, Unrecorded, Goes, Resumed, Running, Over
<1>3. turn[t].asked \in Candidate
  BY <1>1, <1>2 DEF TurnsOK, Says, Asks, TurnRecord
<1>4. CASE Refused(t) \/ Fail(t)
  <2>1. turn' = [turn EXCEPT ![t] = Failing(turn[t])]
    BY <1>1, <1>4 DEF Refused, Fail
  <2> QED
    BY <1>1, <1>2, <1>3, <2>1 DEF Alike
<1>5. CASE Unrecorded(t)
  <2>1. turn' = [turn EXCEPT ![t] = Failing(Answering(turn[t]))] /\ turn[t].failed # {}
    BY <1>1, <1>5 DEF Unrecorded
  <2>2. Answering(turn[t]) \in TurnRecord /\ Alike(Answering(turn[t]), turn[t])
    BY <1>1, <1>3, <2>1, AnsweringType DEF Alike
  <2> QED
    BY <1>2, <1>3, <2>1, <2>2
<1> QED
  BY <1>4, <1>5

\* What each step of a turn makes of its record.
LEMMA TurnStepRecord ==
    ASSUME TInv, TurnsOK, NEW t \in Turn, TurnNext(t)
    PROVE  /\ turn' \in [Turn -> TurnRecord]
           /\ \A u \in Turn \ {t} : turn'[u] = turn[u]
           /\ turn'[t].step \notin {"new"} \cup Over => turn'[t].at \in Instance
<1>1. /\ turn \in [Turn -> TurnRecord] /\ turn[t] \in TurnRecord
      /\ Running(t) => turn[t].at \in Instance
  BY DEF TInv
<1>2. CASE \E i \in Instance : Accept(i, t)
  <2>1. PICK i \in Instance : Accept(i, t)
    BY <1>2
  <2>2. turn' = [turn EXCEPT ![t] = [turn[t] EXCEPT !.step = "choose", !.at = i, !.before = summary]]
    BY <1>1, <2>1 DEF Accept
  <2>3. [turn[t] EXCEPT !.step = "choose", !.at = i, !.before = summary] \in TurnRecord
    BY <1>1 DEF TurnRecord, TurnStep, TInv
  <2> QED
    BY <1>1, <2>2, <2>3 DEF TurnRecord
<1>3. CASE Decline(t)
  <2>1. turn' = [turn EXCEPT ![t] = [turn[t] EXCEPT !.step = "answer", !.reply = "UNRUN"]]
        /\ Running(t)
    BY <1>1, <1>3 DEF Decline, Resumed, Running, Over
  <2>2. [turn[t] EXCEPT !.step = "answer", !.reply = "UNRUN"] \in TurnRecord
    BY <1>1 DEF TurnRecord, TurnStep, Reply
  <2> QED
    BY <1>1, <2>1, <2>2 DEF TurnRecord
<1>4. CASE Run(t)
  <2>1. PICK usable \in SUBSET Candidate : \E pick \in usable :
          turn' = [turn EXCEPT ![t].step = "ask", ![t].pick = pick, ![t].asked = pick,
                               ![t].plan = {pick} \cup Tries(pick, usable),
                               ![t].rest = Tries(pick, usable)]
    BY <1>4 DEF Run
  <2>2. PICK pick \in usable :
          turn' = [turn EXCEPT ![t] = [turn[t] EXCEPT !.step = "ask", !.pick = pick, !.asked = pick,
                               !.plan = {pick} \cup Tries(pick, usable),
                               !.rest = Tries(pick, usable)]]
    BY <1>1, <2>1
  <2>3. /\ Tries(pick, usable) \in SUBSET Fallbacks /\ pick \in 0..Candidates
        /\ {pick} \cup Tries(pick, usable) \in SUBSET Candidate
    BY CandidatesAssumption DEF Tries, Fallbacks, Candidate
  <2>4. [turn[t] EXCEPT !.step = "ask", !.pick = pick, !.asked = pick,
                        !.plan = {pick} \cup Tries(pick, usable),
                        !.rest = Tries(pick, usable)] \in TurnRecord
    BY <1>1, <2>3 DEF TurnRecord, TurnStep
  <2>5. Running(t)
    BY <1>4 DEF Run, Resumed, Running, Over
  <2> QED
    BY <1>1, <2>2, <2>4, <2>5 DEF TurnRecord
<1>5. CASE Refused(t) \/ Fail(t) \/ Unrecorded(t)
  <2>1. PICK q \in TurnRecord :
          turn' = [turn EXCEPT ![t] = Failing(q)] /\ Alike(q, turn[t])
    BY <1>5, FailsAs
  <2>2. q.asked \in Candidate /\ Running(t) /\ q.at = turn[t].at
    BY <1>5, <2>1, FailsAs DEF Alike
  <2>3. Failing(q) \in TurnRecord /\ Failing(q).at = turn[t].at
    BY <2>2, FailingType
  <2> QED
    BY <1>1, <2>1, <2>2, <2>3
<1>6. CASE Raise(t) \/ Break(t) \/ Persist(t)
  <2>1. PICK s \in Over : turn' = [turn EXCEPT ![t] = Left(turn[t], s)]
    BY <1>1, <1>6 DEF Raise, Break, Persist, Over
  <2>2. Left(turn[t], s) \in TurnRecord /\ Left(turn[t], s).step = s
    BY <1>1, LeftType
  <2> QED
    BY <1>1, <2>1, <2>2
<1>7. CASE Send(t)
  <2>1. turn' = [turn EXCEPT ![t] = [turn[t] EXCEPT !.step = "await"]] /\ Running(t)
    BY <1>1, <1>7 DEF Send, Goes, Running, Over
  <2>2. [turn[t] EXCEPT !.step = "await"] \in TurnRecord
    BY <1>1 DEF TurnRecord, TurnStep
  <2> QED
    BY <1>1, <2>1, <2>2 DEF TurnRecord
<1>8. CASE Succeed(t)
  <2> DEFINE q == Answering(turn[t])
  <2>1. turn[t].step = "await" /\ Running(t)
        /\ turn' = [turn EXCEPT ![t] = [q EXCEPT !.step = "close", !.ok = turn[t].asked]]
    BY <1>1, <1>8 DEF Succeed, Asked, Resumed, Running, Over
  <2>2. turn[t].asked \in Candidate
    BY <1>1, <2>1 DEF TurnsOK, Says, Asks, TurnRecord
  <2>3. q \in TurnRecord /\ q.at = turn[t].at
    BY <1>1, <2>2, AnsweringType
  <2> HIDE DEF q
  <2>4. [q EXCEPT !.step = "close", !.ok = turn[t].asked] \in TurnRecord
    BY <1>1, <2>3 DEF TurnRecord, TurnStep
  <2> QED
    BY <1>1, <2>1, <2>3, <2>4 DEF TurnRecord
<1>9. CASE CloseTask(t)
  <2>1. PICK status \in Reply :
           turn' = [turn EXCEPT ![t] = [turn[t] EXCEPT !.step = "answer", !.reply = status]]
    BY <1>1, <1>9 DEF CloseTask, Reply
  <2>2. [turn[t] EXCEPT !.step = "answer", !.reply = status] \in TurnRecord
    BY <1>1 DEF TurnRecord, TurnStep
  <2>3. Running(t)
    BY <1>9 DEF CloseTask, Goes, Running, Over
  <2> QED
    BY <1>1, <2>1, <2>2, <2>3 DEF TurnRecord
<1>10. CASE Answer(t)
  <2>1. turn' = [turn EXCEPT ![t] = [turn[t] EXCEPT !.step = "persist"]] /\ Running(t)
    BY <1>1, <1>10 DEF Answer, Goes, Running, Over
  <2>2. [turn[t] EXCEPT !.step = "persist"] \in TurnRecord
    BY <1>1 DEF TurnRecord, TurnStep
  <2> QED
    BY <1>1, <2>1, <2>2 DEF TurnRecord
<1> QED
  BY <1>2, <1>3, <1>4, <1>5, <1>6, <1>7, <1>8, <1>9, <1>10 DEF TurnNext

LEMMA TurnStepCoord ==
    ASSUME TInv, NEW t \in Turn, TurnNext(t)
    PROVE  CoordTypeOK' /\ UNCHANGED sel
<1>1. CoordTypeOK /\ "loop" \in Worker /\ "rest" \in Step /\ "busy" \in Step
  BY DEF TInv, Worker, Step
<1>2. CASE UNCHANGED coordVars
  BY <1>1, <1>2 DEF CoordTypeOK, coordVars
<1>3. ASSUME NEW s \in {"rest", "busy"}, At(turn[t].at, "loop", s), Running(t),
             pc[turn[t].at]["loop"] \in {"rest", "busy"}, UNCHANGED LoopOnly,
             /\ task' \in [Task -> Status] /\ owner' \in [Task -> Instance \cup {None}]
             /\ old' \in SUBSET Task /\ held' \in SUBSET Task
      PROVE  CoordTypeOK' /\ UNCHANGED sel
  <2>1. turn[t].at \in Instance
    BY <1>3 DEF TInv
  <2>2. pc' \in [Instance -> [Worker -> Step]] /\ late \subseteq LoopGone'
    BY <1>1, <1>3, <2>1, AtType
  <2> QED
    BY <1>1, <1>3, <2>2 DEF CoordTypeOK, LoopOnly, store, LoopGone
<1>4. ASSUME tasks' = tasks
      PROVE  /\ task' \in [Task -> Status] /\ owner' \in [Task -> Instance \cup {None}]
             /\ old' \in SUBSET Task /\ held' \in SUBSET Task
  BY <1>1, <1>4 DEF CoordTypeOK, tasks
<1>5. ASSUME NEW i \in Instance, Create(i, t)
      PROVE  /\ task' \in [Task -> Status] /\ owner' \in [Task -> Instance \cup {None}]
             /\ old' \in SUBSET Task /\ held' \in SUBSET Task
  BY <1>1, <1>5 DEF CoordTypeOK, Create, Status, Turn
<1>6. ASSUME Abandon(t) \/ End(t, "COMPLETED") \/ End(t, "FAILED")
      PROVE  /\ task' \in [Task -> Status] /\ owner' \in [Task -> Instance \cup {None}]
             /\ old' \in SUBSET Task /\ held' \in SUBSET Task
  BY <1>1, <1>6 DEF CoordTypeOK, Abandon, End, Status
<1>7. CASE Decline(t) \/ Send(t) \/ Succeed(t) \/ Unrecorded(t) \/ Fail(t) \/ Persist(t)
  BY <1>3, <1>4, <1>7 DEF Decline, Send, Succeed, Unrecorded, Fail, Persist, Hold, Yield, Resumed, Goes, Running,
     Over
<1>8. CASE Run(t)
  <2>1. Running(t) /\ turn[t].at \in Instance
    BY <1>8 DEF Run, Resumed, Running, Over, TInv
  <2> QED
    BY <1>3, <1>5, <1>8, <2>1 DEF Run, Hold, Resumed
<1>9. CASE Raise(t)
  BY <1>3, <1>6, <1>9 DEF Raise, Yield, Goes, Running, Over
<1>10. CASE CloseTask(t)
  <2>1. UNCHANGED <<store, procs>> /\ (End(t, "COMPLETED") \/ End(t, "FAILED"))
    BY <1>10 DEF CloseTask
  <2> QED
    BY <1>1, <1>6, <2>1 DEF CoordTypeOK, store, procs
<1>11. CASE Break(t)
  <2>1. UNCHANGED <<store, procs>> /\ Abandon(t)
    BY <1>11 DEF Break
  <2> QED
    BY <1>1, <1>6, <2>1 DEF CoordTypeOK, store, procs
<1> QED
  BY <1>2, <1>7, <1>8, <1>9, <1>10, <1>11 DEF TurnNext, Accept, Refused, Answer

\* Every step keeps the types.
LEMMA TypeStep == TInv /\ TurnsOK /\ [ConversationNext]_vars => TInv'
<1> SUFFICES ASSUME TInv, TurnsOK, [ConversationNext]_vars PROVE TInv'
  OBVIOUS
<1>1. ASSUME NEW t \in Turn, TurnNext(t) PROVE TInv'
  <2>1. /\ turn' \in [Turn -> TurnRecord]
        /\ \A u \in Turn : Running(u)' => turn'[u].at \in Instance
    BY <1>1, TurnStepRecord DEF TInv, Running
  <2>2. /\ open' \in BOOLEAN /\ alone' \in BOOLEAN
        /\ answers' \subseteq Turn /\ summary' \subseteq Turn /\ memory' \subseteq Turn
    <3>1. turn[t].before \in SUBSET Turn
      BY DEF TInv, TurnRecord
    <3>2. CASE \E i \in Instance : Accept(i, t)
      <4>1. summary' = turn'[t].before /\ turn'[t].before \in SUBSET Turn
        BY <2>1, <3>2 DEF Accept, TurnRecord
      <4> QED
        BY <3>2, <4>1 DEF Accept, TInv
    <3>3. CASE Answer(t) \/ Persist(t)
      BY <3>1, <3>3 DEF Answer, Persist, Remembers, TInv
    <3>4. CASE UNCHANGED sessionVars
      BY <3>4 DEF sessionVars, TInv
    <3> QED
      BY <1>1, <3>2, <3>3, <3>4 DEF TurnNext, Decline, Run, Refused, Raise, Send, Succeed,
         Unrecorded, Break, Fail, CloseTask
  <2> QED
    BY <1>1, <2>1, <2>2, TurnStepCoord DEF TInv
<1>2. CASE Coordinate
  <2>1. CoordTypeOK'
    BY <1>2, CoordStepType DEF Coordinate, TInv
  <2>2. turn' \in [Turn -> TurnRecord] /\ \A u \in Turn : Running(u)' => turn'[u] = turn[u]
    <3>1. \A u \in Turn : Left(turn[u], "cut") \in TurnRecord /\ Left(turn[u], "cut").step = "cut"
      BY LeftType DEF TInv, Over
    <3> QED
      BY <1>2, <3>1 DEF Coordinate, TInv, Running, Over
  <2> QED
    BY <1>2, <2>1, <2>2 DEF Coordinate, TInv, sessionVars, Running
<1>3. CASE CloseSession \/ UNCHANGED vars
  BY <1>3 DEF CloseSession, vars, coordVars, sessionVars, TInv, CoordTypeOK, Running
<1> QED
  BY <1>1, <1>2, <1>3 DEF ConversationNext

-----------------------------------------------------------------------------
(* What turns say.                                                          *)

\* A step of t leaves the tasks of the other turns alone, and its own but for
\* the opening and the end.
LEMMA TurnStepTask ==
    ASSUME TInv, TurnsOK, NEW t \in Turn, TurnNext(t)
    PROVE  /\ \A u \in Turn \ {t} : task'[u] = task[u]
           /\ ~Run(t) /\ ~CloseTask(t) => task' = task
           /\ \A u \in Task : task[u] # None => task'[u] # None
<1>1. task \in [Task -> Status]
  BY DEF TInv, CoordTypeOK
<1>2. ~Run(t) /\ ~CloseTask(t) => task' = task
  BY DEF TurnNext, Accept, Decline, Refused, Raise, Send, Succeed, Unrecorded, Break, Fail, Answer, Persist,
     coordVars, tasks, Abandon
<1>3. CASE Run(t)
  BY <1>1, <1>2, <1>3, NullAssumption DEF Run, Create, Turn
<1>4. CASE CloseTask(t)
  <2>1. End(t, "COMPLETED") \/ End(t, "FAILED")
    BY <1>4 DEF CloseTask
  <2> QED
    BY <1>1, <1>2, <2>1, <1>4, NullAssumption DEF End, Turn, Run, CloseTask, Resumed, Goes
<1> QED
  BY <1>2, <1>3, <1>4

LEMMA TurnStepSays ==
    ASSUME TInv, TurnsOK, NEW t \in Turn, TurnNext(t)
    PROVE  Says(turn'[t]) /\ Matches(turn'[t], task'[t])
<1>1. /\ turn \in [Turn -> TurnRecord] /\ turn[t] \in TurnRecord
      /\ Says(turn[t]) /\ Matches(turn[t], task[t]) /\ None \notin Reply
      /\ turn' \in [Turn -> TurnRecord]
  BY ReplyAssumption, TurnStepRecord DEF TInv, TurnsOK
<1>2. CASE \E i \in Instance : Accept(i, t)
  <2>1. /\ turn[t].step = "new" /\ turn'[t].step = "choose" /\ turn'[t].reply = turn[t].reply
        /\ turn'[t].ok = turn[t].ok /\ turn'[t].failed = turn[t].failed
        /\ turn'[t].heard = turn[t].heard /\ task' = task
    BY <1>1, <1>2 DEF Accept, TurnRecord, coordVars
  <2> QED
    BY <1>1, <2>1 DEF Says, Matches, Reply
<1>3. CASE Decline(t)
  <2>1. turn[t].step = "choose" /\ turn'[t].step = "answer" /\ turn'[t].reply = "UNRUN"
        /\ task' = task
    BY <1>1, <1>3 DEF Decline, TurnRecord, tasks, Resumed
  <2> QED
    BY <1>1, <2>1 DEF Says, Matches
<1>4. CASE Run(t)
  <2>1. PICK usable \in SUBSET Candidate : \E pick \in usable :
          turn' = [turn EXCEPT ![t].step = "ask", ![t].pick = pick, ![t].asked = pick,
                               ![t].plan = {pick} \cup Tries(pick, usable),
                               ![t].rest = Tries(pick, usable)]
    BY <1>4 DEF Run
  <2>2. PICK pick \in usable :
          turn' = [turn EXCEPT ![t].step = "ask", ![t].pick = pick, ![t].asked = pick,
                               ![t].plan = {pick} \cup Tries(pick, usable),
                               ![t].rest = Tries(pick, usable)]
    BY <2>1
  <2>3. pick \notin Tries(pick, usable)
    BY DEF Tries
  <2>4. /\ turn'[t].step = "ask" /\ turn'[t].asked = pick /\ turn'[t].pick = pick
        /\ turn'[t].rest = Tries(pick, usable)
        /\ turn'[t].plan = {pick} \cup Tries(pick, usable)
        /\ turn'[t].ok = turn[t].ok /\ turn'[t].failed = turn[t].failed
        /\ turn'[t].heard = turn[t].heard /\ turn'[t].reply = turn[t].reply
    BY <1>1, <2>2 DEF TurnRecord
  <2>5. turn[t].ok = 0 /\ turn[t].failed = {} /\ turn[t].heard = {} /\ turn[t].reply = None
    BY <1>1, <1>4 DEF Says, Run, Resumed
  <2>6. Asks(turn'[t])
    BY <2>3, <2>4, <2>5 DEF Asks
  <2> QED
    BY <1>1, <2>4, <2>5, <2>6 DEF Says, Matches, Reply
<1>5. CASE Refused(t) \/ Fail(t) \/ Unrecorded(t)
  <2>1. PICK r \in TurnRecord :
          turn' = [turn EXCEPT ![t] = Failing(r)] /\ Alike(r, turn[t])
    BY <1>5, FailsAs
  <2>2. turn[t].step \in {"ask", "await"} /\ r.asked \in Candidate /\ task' = task
    BY <1>5, <2>1, FailsAs DEF Alike, Refused, Fail, Unrecorded, coordVars, tasks
  <2>3. /\ r.asked \in r.plan \ r.failed /\ r.ok = 0 /\ r.reply = None
        /\ r.rest \subseteq (r.plan \ r.failed) \ {r.asked}
        /\ r.plan = r.failed \cup {r.asked} \cup r.rest
        /\ r.pick \in r.failed \cup {r.asked}
        /\ r.heard \subseteq (r.failed \cup {r.asked}) \ {r.pick}
    <3>1. Asks(turn[t]) /\ turn[t].reply = None
      BY <1>1, <2>2 DEF Says
    <3> QED
      BY <2>1, <3>1 DEF Asks, Alike
  <2> DEFINE q == Failing(r)
  <2>4. /\ q.plan = r.plan /\ q.ok = 0 /\ q.reply = None
        /\ q.pick = r.pick /\ q.heard = r.heard
        /\ q.failed = r.failed \cup {r.asked}
        /\ r.rest = {} => q.step = "close"
        /\ r.rest # {} => q.step = "ask" /\ q.asked = Min(r.rest) /\ q.rest = r.rest \ {Min(r.rest)}
    BY <2>2, <2>3, FailingType
  <2>5. turn'[t] = q
    BY <1>1, <2>1
  <2> HIDE DEF q
  <2>6. CASE r.rest = {}
    <3>1. Failed(q) /\ q.step = "close"
      BY <2>3, <2>4, <2>6 DEF Failed
    <3> QED
      BY <1>1, <2>2, <2>4, <2>5, <3>1 DEF Says, Matches, Reply
  <2>7. CASE r.rest # {}
    <3>1. Min(r.rest) \in r.rest
      BY <2>7, MinType DEF TurnRecord
    <3>2. Asks(q) /\ q.step = "ask"
      BY <2>3, <2>4, <2>7, <3>1 DEF Asks
    <3> QED
      BY <1>1, <2>2, <2>4, <2>5, <3>2 DEF Says, Matches, Reply
  <2> QED
    BY <2>6, <2>7
<1>6. CASE Raise(t) \/ Break(t) \/ Persist(t)
  <2>1. PICK s \in Over : turn' = [turn EXCEPT ![t] = Left(turn[t], s)]
    BY <1>1, <1>6 DEF Raise, Break, Persist, Over
  <2>2. turn'[t].step \in Over /\ turn'[t].reply = turn[t].reply
    BY <1>1, <2>1, LeftType
  <2>3. task' = task
    BY <1>6 DEF Raise, Break, Persist, Abandon, tasks
  <2> QED
    BY <1>1, <2>2, <2>3 DEF Says, Matches, Over
<1>7. CASE Send(t)
  <2>1. /\ turn[t].step = "ask" /\ turn'[t].step = "await" /\ task' = task
        /\ turn'[t].asked = turn[t].asked /\ turn'[t].rest = turn[t].rest
        /\ turn'[t].pick = turn[t].pick /\ turn'[t].heard = turn[t].heard
        /\ turn'[t].plan = turn[t].plan /\ turn'[t].failed = turn[t].failed
        /\ turn'[t].ok = turn[t].ok /\ turn'[t].reply = turn[t].reply
    BY <1>1, <1>7 DEF Send, Goes, TurnRecord, tasks
  <2> QED
    BY <1>1, <2>1 DEF Says, Asks, Matches
<1>8. CASE Succeed(t)
  <2> DEFINE q == Answering(turn[t])
  <2>1. /\ turn[t].step = "await" /\ task' = task
        /\ turn' = [turn EXCEPT ![t] = [q EXCEPT !.step = "close", !.ok = turn[t].asked]]
    BY <1>1, <1>8 DEF Succeed, Asked, Resumed, tasks
  <2>2. Asks(turn[t]) /\ turn[t].reply = None
    BY <1>1, <2>1 DEF Says
  <2>3. turn[t].asked \in Candidate /\ turn[t].asked # 0
    BY <1>1, <2>2, CandidatesAssumption DEF Asks, TurnRecord, Candidate
  <2>4. /\ q \in TurnRecord /\ q.heard = turn[t].heard \cup {turn[t].asked}
        /\ q.failed = turn[t].failed /\ q.reply = None
    BY <1>1, <2>2, <2>3, AnsweringType
  <2> HIDE DEF q
  <2>5. /\ turn'[t].step = "close" /\ turn'[t].ok = turn[t].asked
        /\ turn'[t].heard = q.heard /\ turn'[t].failed = q.failed /\ turn'[t].reply = None
    BY <1>1, <2>1, <2>4 DEF TurnRecord
  <2>6. Ran(turn'[t])
    BY <2>2, <2>3, <2>4, <2>5 DEF Ran, Asks
  <2> QED
    BY <1>1, <2>1, <2>5, <2>6 DEF Says, Matches, Reply
<1>9. CASE CloseTask(t)
  <2> DEFINE status == IF turn[t].ok # 0 THEN "COMPLETED" ELSE "FAILED"
  <2>1. /\ turn[t].step = "close" /\ turn'[t].step = "answer" /\ End(t, status)
        /\ turn'[t].reply = status /\ turn'[t].ok = turn[t].ok
        /\ turn'[t].plan = turn[t].plan /\ turn'[t].failed = turn[t].failed
        /\ turn'[t].pick = turn[t].pick /\ turn'[t].heard = turn[t].heard
    BY <1>1, <1>9 DEF CloseTask, Goes, TurnRecord
  <2>2. task'[t] = status
    BY <2>1 DEF End, TInv, CoordTypeOK, Turn
  <2>3. Failed(turn[t]) \/ Ran(turn[t])
    BY <1>1, <2>1 DEF Says
  <2> QED
    BY <2>1, <2>2, <2>3 DEF Says, Failed, Ran, Matches
<1>10. CASE Answer(t)
  <2>1. /\ turn[t].step = "answer" /\ turn'[t].step = "persist" /\ task' = task
        /\ turn'[t].plan = turn[t].plan /\ turn'[t].failed = turn[t].failed
        /\ turn'[t].pick = turn[t].pick /\ turn'[t].heard = turn[t].heard
        /\ turn'[t].ok = turn[t].ok /\ turn'[t].reply = turn[t].reply
    BY <1>1, <1>10 DEF Answer, Goes, TurnRecord, coordVars
  <2> QED
    BY <1>1, <2>1 DEF Says, Failed, Ran, Matches
<1> QED
  BY <1>2, <1>3, <1>4, <1>5, <1>6, <1>7, <1>8, <1>9, <1>10 DEF TurnNext

\* Every step keeps what turns say true.
LEMMA SaysStep == TInv /\ SweptOK /\ TurnsOK /\ [ConversationNext]_vars => SweptOK' /\ TurnsOK'
<1> SUFFICES ASSUME TInv, SweptOK, TurnsOK, [ConversationNext]_vars PROVE SweptOK' /\ TurnsOK'
  OBVIOUS
<1>1. ASSUME NEW t \in Turn, TurnNext(t) PROVE SweptOK' /\ TurnsOK'
  <2>1. SweptOK'
    <3>1. ASSUME NEW j \in Instance, NEW v \in Worker, pc'[j][v] = "sweeping"
          PROVE  pc[j][v] = "sweeping"
      <4>1. \/ pc' = pc
            \/ At(turn[t].at, "loop", "busy") \/ At(turn[t].at, "loop", "rest")
        BY <1>1 DEF TurnNext, Accept, Decline, Run, Refused, Raise, Send, Succeed, Unrecorded,
           Break, Fail, CloseTask, Answer, Persist, Hold, Yield, coordVars, procs
      <4>2. ASSUME NEW s \in {"busy", "rest"}, pc' = [pc EXCEPT ![turn[t].at]["loop"] = s]
            PROVE  pc[j][v] = "sweeping"
        <5>1. pc \in [Instance -> [Worker -> Step]]
          BY DEF TInv, CoordTypeOK
        <5>2. CASE j = turn[t].at /\ v = "loop"
          BY <3>1, <4>2, <5>1, <5>2
        <5>3. CASE j = turn[t].at /\ v # "loop"
          BY <3>1, <4>2, <5>1, <5>3
        <5>4. CASE j # turn[t].at
          BY <3>1, <4>2, <5>1, <5>4
        <5> QED
          BY <5>2, <5>3, <5>4
      <4> QED
        BY <3>1, <4>1, <4>2 DEF At
    <3> QED
      BY <1>1, <3>1, TurnStepTask, TurnStepCoord DEF SweptOK
  <2>2. TurnsOK'
    BY <1>1, TurnStepRecord, TurnStepTask, TurnStepSays DEF TurnsOK, Turn
  <2> QED
    BY <2>1, <2>2
<1>2. CASE Coordinate
  <2>1. /\ SweptOK'
        /\ \A t \in Task : \/ task'[t] = task[t]
                           \/ task[t] # None /\ task'[t] = "INTERRUPTED"
    BY <1>2, CoordStepSweeps DEF Coordinate, TInv
  <2>2. ASSUME NEW t \in Turn PROVE Says(turn'[t]) /\ Matches(turn'[t], task'[t])
    <3>1. Says(turn[t]) /\ Matches(turn[t], task[t])
      BY DEF TurnsOK
    <3>2. Matches(turn[t], task'[t])
      BY <2>1, <3>1 DEF Matches, Turn
    <3>3. CASE turn'[t] = turn[t]
      BY <3>1, <3>2, <3>3
    <3>4. CASE turn'[t] = Left(turn[t], "cut")
      <4>1. turn'[t].step = "cut" /\ turn'[t].reply = turn[t].reply
        BY <3>4, LeftType DEF TInv, Over
      <4> QED
        BY <3>2, <4>1 DEF Says, Matches
    <3> QED
      BY <1>2, <3>3, <3>4 DEF Coordinate
  <2> QED
    BY <2>1, <2>2 DEF TurnsOK
<1>3. CASE CloseSession \/ UNCHANGED vars
  BY <1>3 DEF CloseSession, vars, coordVars, TurnsOK, SweptOK
<1> QED
  BY <1>1, <1>2, <1>3 DEF ConversationNext

\* Every step keeps the memory of turns that do not overlap.
LEMMA MemoryStep == TInv /\ MemoryOK /\ TurnsOK /\ [ConversationNext]_vars => MemoryOK'
<1> SUFFICES ASSUME TInv, MemoryOK, TurnsOK, [ConversationNext]_vars, alone' PROVE MemoryOK'
  BY DEF MemoryOK
<1>1. ASSUME alone, UNCHANGED <<summary, answers>>,
             \A u \in Turn : Running(u)' => /\ Running(u) /\ turn'[u].before = turn[u].before
                                            /\ turn'[u].step # "persist" => turn[u].step # "persist"
      PROVE  MemoryOK'
  BY <1>1 DEF MemoryOK
<1>2. ASSUME NEW t \in Turn, TurnNext(t) PROVE MemoryOK'
  <2>1. /\ turn \in [Turn -> TurnRecord] /\ turn' \in [Turn -> TurnRecord]
        /\ \A u \in Turn \ {t} : turn'[u] = turn[u]
    BY <1>2, TurnStepRecord DEF TInv
  <2>2. CASE \E i \in Instance : Accept(i, t)
    <3>1. alone /\ (\A u \in Turn : ~Running(u)) /\ answers' = answers
      BY <2>2 DEF Accept
    <3>2. turn'[t].before = summary /\ summary' = summary
      BY <2>1, <2>2 DEF Accept, TurnRecord
    <3>3. \A u \in Turn : Running(u)' => u = t
      BY <2>1, <3>1 DEF Running
    <3> QED
      BY <3>1, <3>2, <3>3 DEF MemoryOK
  <2>3. CASE Answer(t)
    <3>1. alone /\ Running(t) /\ turn[t].step # "persist"
      BY <2>3 DEF Answer, Goes, Running, Over
    <3>2. summary' = summary \cup {t} /\ answers' = answers \cup {t} /\ answers = summary
          /\ \A u \in Turn : Running(u) => u = t
      BY <2>3, <3>1 DEF Answer, Remembers, MemoryOK
    <3>3. (\A u \in Turn : Running(u)' => u = t) /\ turn'[t].step = "persist"
      BY <2>1, <2>3, <3>2 DEF Running, Answer, TurnRecord
    <3> QED
      BY <3>2, <3>3 DEF MemoryOK
  <2>4. CASE Persist(t)
    <3>1. PICK s \in Over : turn' = [turn EXCEPT ![t] = Left(turn[t], s)]
      BY <2>1, <2>4 DEF Persist, Over
    <3>2. ~Running(t)'
      BY <2>1, <3>1, LeftType DEF Running
    <3> QED
      BY <1>1, <2>1, <2>4, <3>2 DEF Persist, Running
  <2>5. CASE Raise(t) \/ Break(t)
    <3>1. ~Running(t)'
      BY <2>1, <2>5, LeftType DEF Running, Raise, Break, Over
    <3> QED
      BY <1>1, <2>1, <2>5, <3>1 DEF Raise, Break, Running, sessionVars
  <2>6. CASE Decline(t) \/ Run(t) \/ Send(t) \/ Succeed(t) \/ CloseTask(t)
    <3>1. Running(t) /\ turn[t].step # "persist" /\ UNCHANGED sessionVars
      BY <2>6 DEF Decline, Run, Send, Succeed, CloseTask, Resumed, Goes, Running, Over
    <3>2. turn'[t].before = turn[t].before
      <4>1. CASE Run(t)
        BY <2>1, <4>1 DEF Run, TurnRecord
      <4>2. CASE Decline(t) \/ Send(t) \/ CloseTask(t)
        BY <2>1, <4>2 DEF Decline, Send, CloseTask, TurnRecord
      <4>3. CASE Succeed(t)
        BY <2>1, <4>3 DEF Succeed, Answering, TurnRecord
      <4> QED
        BY <2>6, <4>1, <4>2, <4>3
    <3> QED
      BY <1>1, <2>1, <3>1, <3>2 DEF Running, sessionVars
  <2>7. CASE Refused(t) \/ Fail(t) \/ Unrecorded(t)
    <3>1. PICK q \in TurnRecord :
            turn' = [turn EXCEPT ![t] = Failing(q)] /\ Alike(q, turn[t])
      BY <2>7, FailsAs
    <3>2. q.asked \in Candidate /\ turn[t].step \in {"ask", "await"} /\ UNCHANGED sessionVars
      BY <2>7, <3>1, FailsAs DEF Alike, Refused, Fail, Unrecorded
    <3>3. turn'[t].before = turn[t].before
      BY <2>1, <3>1, <3>2, FailingType DEF Alike
    <3> QED
      BY <1>1, <2>1, <3>2, <3>3 DEF Running, Over, sessionVars
  <2> QED
    BY <1>2, <2>2, <2>3, <2>4, <2>5, <2>6, <2>7 DEF TurnNext
<1>3. CASE Coordinate
  <2>1. \A u \in Turn : Running(u)' => turn'[u] = turn[u]
    <3>1. \A u \in Turn : Left(turn[u], "cut").step = "cut"
      BY LeftType DEF TInv, Over
    <3> QED
      BY <1>3, <3>1 DEF Coordinate, Running, Over
  <2> QED
    BY <1>1, <1>3, <2>1 DEF Coordinate, sessionVars, Running
<1>4. CASE CloseSession \/ UNCHANGED vars
  BY <1>1, <1>4 DEF CloseSession, vars, sessionVars, Running
<1> QED
  BY <1>2, <1>3, <1>4 DEF ConversationNext

\* The types, what turns say and what they remember, together.
THEOREM Inductive == ConversationSpec => [](TInv /\ IInv)
<1>1. Init => TInv /\ IInv
  <2> SUFFICES ASSUME Init PROVE IInv
    BY TypeInit
  <2>1. SweptOK
    BY DEF Init, CoordInit, SweptOK, Off
  <2>2. TurnsOK
    BY ReplyAssumption DEF Init, CoordInit, TurnsOK, Says, Matches, NewTurn, Reply, Turn
  <2>3. MemoryOK
    BY DEF Init, MemoryOK, Running, NewTurn
  <2> QED
    BY <2>1, <2>2, <2>3 DEF IInv
<1>2. TInv /\ IInv /\ [ConversationNext]_vars => TInv' /\ IInv'
  BY TypeStep, SaysStep, MemoryStep DEF IInv
<1> QED
  BY <1>1, <1>2, PTL DEF ConversationSpec

\* The rows, the workers and the turns keep their types.
THEOREM TypeCorrect == ConversationSpec => []TypeOK
<1>1. TInv => TypeOK
  BY DEF TInv, TypeOK, TurnRecord, Fallbacks
<1> QED
  BY <1>1, Inductive, PTL

\* No product is asked twice for a capability in a turn, and none after the one
\* selected has answered (companion_message, _attempt_fallback_dispatch).
THEOREM AskedOnceHolds == ConversationSpec => []AskedOnce
<1>1. IInv => AskedOnce
  BY DEF IInv, TurnsOK, Says, Asks, AskedOnce, Asked
<1> QED
  BY <1>1, Inductive, PTL

\* An answer and its task tell what became of the candidates (companion_message,
\* update_companion_task, recover_interrupted_companion_tasks).
THEOREM AnswersAreTrue == ConversationSpec => []AnswerIsTrue
<1>1. TInv /\ IInv => AnswerIsTrue
  <2> SUFFICES ASSUME TInv, IInv, NEW t \in Turn
               PROVE  /\ Running(t) /\ turn[t].reply = "COMPLETED" =>
                            turn[t].ok \in turn[t].heard \ turn[t].failed
                      /\ Running(t) /\ turn[t].reply = "FAILED" =>
                            /\ turn[t].ok = 0 /\ turn[t].plan = turn[t].failed
                            /\ turn[t].pick \notin turn[t].heard
                      /\ turn[t].reply \in {"COMPLETED", "FAILED"}
                            => task[t] \in {turn[t].reply, "INTERRUPTED"}
                      /\ turn[t].reply = "UNRUN" => task[t] = None
    BY DEF AnswerIsTrue
  <2>1. Says(turn[t]) /\ Matches(turn[t], task[t]) /\ turn[t].step \in TurnStep
    BY DEF IInv, TurnsOK, TInv, TurnRecord
  <2> QED
    BY <2>1, ReplyAssumption DEF Says, Matches, Failed, Ran, Running, TurnStep, Over, Reply
<1> QED
  BY <1>1, Inductive, PTL

\* Turns that do not overlap find the memory of all the answers before them
\* (summarize_memory, latest_companion_memory).
THEOREM MemoryIsKept == ConversationSpec => []MemoryKept
<1>1. IInv => MemoryKept
  BY DEF IInv, MemoryOK, MemoryKept
<1> QED
  BY <1>1, Inductive, PTL

=============================================================================
