------------------------------ MODULE Ecosystem ------------------------------
(***************************************************************************)
(* One strict ecosystem execution: the checkpointed chain of owner calls    *)
(* that EcosystemRuntime drives (ecosystem.py) over the rows RuntimeStore    *)
(* keeps (store.py).                                                        *)
(*                                                                         *)
(* A worker is one call of execute or recover.  Several may run at once:    *)
(* the two handlers are coroutines of one event loop, and the store is      *)
(* shared by processes.  One action is one transaction (or one statement)   *)
(* of the store, so that workers interleave exactly where the code releases *)
(* the database.                                                            *)
(*                                                                         *)
(* Abstractions.  A stage's request is the response it was built from (the  *)
(* previous stage's); an artifact hash, a lineage identity and a package     *)
(* hash are the content they hash; the chain hash of a lineage entry is its  *)
(* position.  The owners' replies are the elements of Response.              *)
(***************************************************************************)
EXTENDS Naturals, Sequences

CONSTANTS
    Worker,     \* concurrent calls of execute / recover
    NStages,    \* length of ECOSYSTEM_STAGE_ORDER (10 in the code)
    LeaseAt,    \* stages entered under the chain-head lease (6 and 10 there)
    Response,   \* what an owner may answer
    None,       \* SQL NULL: no response, no artifact, no package
    Faults,     \* the faults that may strike: a subset of FaultKind
    MaxCalls,   \* bound: calls of execute and recover together
    MaxFaults   \* bound: faults of all kinds together

Stage == 1..NStages
Reply == Response \cup {None}
StageStatus == {"ABSENT", "RUNNING", "COMPLETED", "FAILED"}

\* tantra.ecosystem-stage.v1: what _materialize_stage writes for a stage row.
StageArtifact ==
    [type : {"stage"}, stage : Stage, attempts : Nat, request : Reply,
     response : Reply]

\* tantra.ecosystem-replay.v1: the sealed package, one component per stage.
Package == [Stage -> StageArtifact]
ReplayArtifact == [type : {"replay"}, stages : Package]

Artifact == StageArtifact \cup ReplayArtifact

StageRow ==
    [status : StageStatus, request : Reply, response : Reply,
     link : StageArtifact \cup {None}]

\* Inside the try block of _run_stage; in the plain body of execute/recover.
InTry == {"call", "reread", "put", "append", "link", "report"}
Outside == {"begin", "began", "mark", "seal", "finish", "finished"}
Failing == {"fail", "failAttempt", "failExecution"}
Handling == {"except", "exceptWrite"}
Control ==
    {"idle", "created", "recovering"} \cup InTry \cup Outside \cup Failing
        \cup Handling

FaultKind == {"owner", "lease", "store", "crash"}

ASSUME NStagesAssumption == NStages \in Nat \ {0}
ASSUME LeaseAtAssumption == LeaseAt \subseteq 1..NStages
ASSUME NoneAssumption == None \notin Response \cup StageArtifact \cup Package
ASSUME FaultsAssumption == Faults \subseteq FaultKind
ASSUME BoundsAssumption == MaxCalls \in Nat /\ MaxFaults \in Nat

VARIABLES
    status,      \* ecosystem_executions.status, "ABSENT" before the INSERT
    capability,  \* whether capability_json has been recorded
    package,     \* replay_package_json
    stage,       \* ecosystem_execution_stages, one row for each stage
    tries,       \* ecosystem_stage_attempts: the statuses of a stage's attempts
    lineage,     \* central_lineage of this execution, by sequence number
    pc,          \* where each worker is
    cur,         \* the stage it is at
    att,         \* the attempt it believes it owns; 0: the stage was COMPLETED
    carry,       \* the response it carries from one stage to the next
    item,        \* the artifact it is writing
    calls,       \* calls made so far
    faults       \* faults so far

row == <<status, capability, package>>
evidence == <<stage, tries, lineage>>
local == <<pc, cur, att, carry, item>>
vars == <<row, evidence, local, calls, faults>>

Contents(k) ==
    [type |-> "stage", stage |-> k, attempts |-> Len(tries[k]),
     request |-> stage[k].request, response |-> stage[k].response]

Recorded(a) == \E i \in 1..Len(lineage) : lineage[i] = a

Init ==
    /\ status = "ABSENT"
    /\ capability = FALSE
    /\ package = None
    /\ stage = [k \in Stage |-> [status |-> "ABSENT", request |-> None,
                                 response |-> None, link |-> None]]
    /\ tries = [k \in Stage |-> <<>>]
    /\ lineage = <<>>
    /\ pc = [w \in Worker |-> "idle"]
    /\ cur = [w \in Worker |-> 1]
    /\ att = [w \in Worker |-> 0]
    /\ carry = [w \in Worker |-> None]
    /\ item = [w \in Worker |-> None]
    /\ calls = 0
    /\ faults = 0

Goto(w, l) == pc' = [pc EXCEPT ![w] = l]

\* A call returns or its coroutine is gone: its locals go with it.
Leave(w) ==
    /\ Goto(w, "idle")
    /\ cur' = [cur EXCEPT ![w] = 1]
    /\ att' = [att EXCEPT ![w] = 0]
    /\ carry' = [carry EXCEPT ![w] = None]
    /\ item' = [item EXCEPT ![w] = None]

-----------------------------------------------------------------------------
(* Entry points.                                                            *)

\* execute: create_ecosystem_execution inserts the PENDING row.  Under an
\* idempotency key that is bound already nothing changes: no step.
Execute(w) ==
    /\ pc[w] = "idle"
    /\ calls < MaxCalls
    /\ status = "ABSENT"
    /\ status' = "PENDING"
    /\ calls' = calls + 1
    /\ Goto(w, "created")
    /\ UNCHANGED <<capability, package, evidence, cur, att, carry, item, faults>>

\* execute: the update that records the capability contract.
RecordCapability(w) ==
    /\ pc[w] = "created"
    /\ status' = "RUNNING"
    /\ capability' = TRUE
    /\ Goto(w, "begin")
    /\ UNCHANGED <<package, evidence, cur, att, carry, item, calls, faults>>

\* recover: reads the row; COMPLETED is answered from the row and an execution
\* without its capability is refused, neither of which is a step.
Recover(w) ==
    /\ pc[w] = "idle"
    /\ calls < MaxCalls
    /\ status \notin {"ABSENT", "COMPLETED"}
    /\ capability
    /\ calls' = calls + 1
    /\ Goto(w, "recovering")
    /\ UNCHANGED <<row, evidence, cur, att, carry, item, faults>>

MarkRecovering(w) ==
    /\ pc[w] = "recovering"
    /\ status' = "RUNNING"
    /\ Goto(w, "begin")
    /\ UNCHANGED <<capability, package, evidence, cur, att, carry, item, calls,
                   faults>>

-----------------------------------------------------------------------------
(* One stage.                                                               *)

\* After a stage: the next one, or the sealing of the replay package.
Advance(w) ==
    /\ att' = [att EXCEPT ![w] = 0]
    /\ item' = [item EXCEPT ![w] = None]
    /\ IF cur[w] = NStages
         THEN Goto(w, "seal") /\ UNCHANGED cur
         ELSE Goto(w, "begin") /\ cur' = [cur EXCEPT ![w] = cur[w] + 1]

\* _materialize_stage(row): nothing to do when the row is linked already.
Materialize(w, next) ==
    IF stage[cur[w]].link # None
      THEN next
      ELSE /\ item' = [item EXCEPT ![w] = Contents(cur[w])]
           /\ Goto(w, "put")
           /\ UNCHANGED <<cur, att>>

\* Mutant of Reuse: a COMPLETED stage is taken for a recorded one.
ReuseUnrecorded(w) ==
    /\ pc[w] = "begin"
    /\ stage[cur[w]].status = "COMPLETED"
    /\ carry' = [carry EXCEPT ![w] = stage[cur[w]].response]
    /\ Advance(w)
    /\ UNCHANGED <<row, evidence, calls, faults>>

\* Mutant of Reuse: the response that the row has is not handed on.
ReuseSilent(w) ==
    /\ pc[w] = "begin"
    /\ stage[cur[w]].status = "COMPLETED"
    /\ Materialize(w, Advance(w))
    /\ UNCHANGED <<row, evidence, carry, calls, faults>>

\* begin_ecosystem_stage finds the stage COMPLETED: its response is reused.
Reuse(w) ==
    /\ pc[w] = "begin"
    /\ stage[cur[w]].status = "COMPLETED"
    /\ carry' = [carry EXCEPT ![w] = stage[cur[w]].response]
    /\ Materialize(w, Advance(w))
    /\ UNCHANGED <<row, evidence, calls, faults>>

\* begin_ecosystem_stage opens a new attempt.  The upsert clears the response
\* but leaves artifact_hash, lineage_id and chain_hash as they are.
Begin(w) ==
    LET k == cur[w] IN
    /\ pc[w] = "begin"
    /\ stage[k].status # "COMPLETED"
    /\ tries' = [tries EXCEPT ![k] = Append(tries[k], "RUNNING")]
    /\ stage' = [stage EXCEPT ![k] = [@ EXCEPT !.status = "RUNNING",
                                              !.request = carry[w],
                                              !.response = None]]
    /\ Goto(w, "began")
    /\ UNCHANGED <<row, lineage, cur, att, carry, item, calls, faults>>

\* begin_ecosystem_stage re-reads the row after COMMIT: the attempt number the
\* worker takes for its own is whatever the row holds by then.
ReadAttempt(w) ==
    /\ pc[w] = "began"
    /\ att' = [att EXCEPT ![w] = Len(tries[cur[w]])]
    /\ Goto(w, "mark")
    /\ UNCHANGED <<row, evidence, cur, carry, item, calls, faults>>

MarkStage(w) ==
    /\ pc[w] = "mark"
    /\ status' = "RUNNING"
    /\ Goto(w, "call")
    /\ UNCHANGED <<capability, package, evidence, cur, att, carry, item, calls,
                   faults>>

\* Mutant of Complete: the attempt is fenced, a COMPLETED row is not.
CompleteOver(w, r) ==
    LET k == cur[w] IN
    /\ pc[w] = "call"
    /\ IF att[w] # Len(tries[k])
         THEN Goto(w, "fail") /\ UNCHANGED <<stage, tries, carry>>
         ELSE /\ stage' = [stage EXCEPT ![k] =
                              [@ EXCEPT !.status = "COMPLETED", !.response = r]]
              /\ tries' = [tries EXCEPT ![k][att[w]] = "COMPLETED"]
              /\ carry' = [carry EXCEPT ![w] = r]
              /\ Goto(w, "reread")
    /\ UNCHANGED <<row, lineage, cur, att, item, calls, faults>>

\* The owner answers r and complete_ecosystem_stage records it.  A COMPLETED
\* row keeps the response it has; another attempt's row accepts none.
Complete(w, r) ==
    LET k == cur[w] IN
    /\ pc[w] = "call"
    /\ stage[k].status = "COMPLETED" => stage[k].response # r
    /\ IF stage[k].status = "COMPLETED" \/ att[w] # Len(tries[k])
         THEN Goto(w, "fail") /\ UNCHANGED <<stage, tries, carry>>
         ELSE /\ stage' = [stage EXCEPT ![k] =
                              [@ EXCEPT !.status = "COMPLETED", !.response = r]]
              /\ tries' = [tries EXCEPT ![k][att[w]] = "COMPLETED"]
              /\ carry' = [carry EXCEPT ![w] = r]
              /\ Goto(w, "reread")
    /\ UNCHANGED <<row, lineage, cur, att, item, calls, faults>>

\* After the stage is recorded and its row linked, the event is reported.
ToReport(w) == Goto(w, "report") /\ UNCHANGED <<cur, att, item>>

\* complete_ecosystem_stage finds the row COMPLETED with this very response and
\* hands on the row it read.
RepeatComplete(w, r) ==
    /\ pc[w] = "call"
    /\ stage[cur[w]].status = "COMPLETED"
    /\ stage[cur[w]].response = r
    /\ carry' = [carry EXCEPT ![w] = r]
    /\ Materialize(w, ToReport(w))
    /\ UNCHANGED <<row, evidence, calls, faults>>

\* complete_ecosystem_stage re-reads the row after COMMIT and hands it to
\* _materialize_stage.
ReadCompleted(w) ==
    /\ pc[w] = "reread"
    /\ Materialize(w, ToReport(w))
    /\ UNCHANGED <<row, evidence, carry, calls, faults>>

\* An exception: the handlers of _run_stage catch it inside the try block,
\* the handler of execute/recover everywhere else.
Raise(w) == Goto(w, IF att[w] # 0 THEN "fail" ELSE "except")

\* Mutant of PutArtifact: the lineage identity is not looked up.
PutBlindly(w) ==
    /\ pc[w] = "put"
    /\ Goto(w, "append")
    /\ UNCHANGED <<row, evidence, cur, att, carry, item, calls, faults>>

\* depository.put is idempotent (the artifact table is content-addressed and not
\* modelled); then append_lineage looks its deterministic identity up.
PutArtifact(w) ==
    /\ pc[w] = "put"
    /\ Goto(w, IF Recorded(item[w]) THEN "link" ELSE "append")
    /\ UNCHANGED <<row, evidence, cur, att, carry, item, calls, faults>>

\* append_central_lineage: the primary key refuses an identity inserted since.
AppendLineage(w) ==
    /\ pc[w] = "append"
    /\ IF Recorded(item[w])
         THEN Raise(w) /\ UNCHANGED lineage
         ELSE lineage' = Append(lineage, item[w]) /\ Goto(w, "link")
    /\ UNCHANGED <<row, stage, tries, cur, att, carry, item, calls, faults>>

\* link_ecosystem_stage_artifact: only a COMPLETED row can be linked.
LinkArtifact(w) ==
    LET k == cur[w] IN
    /\ pc[w] = "link"
    /\ item[w].type = "stage"
    /\ IF stage[k].status # "COMPLETED"
         THEN Raise(w) /\ UNCHANGED <<stage, cur, att, item>>
         ELSE /\ stage' = [stage EXCEPT ![k] = [@ EXCEPT !.link = item[w]]]
              /\ IF att[w] = 0 THEN Advance(w) ELSE ToReport(w)
    /\ UNCHANGED <<row, tries, lineage, carry, calls, faults>>

\* telemetry.record_event closes the try block.
Report(w) ==
    /\ pc[w] = "report"
    /\ Advance(w)
    /\ UNCHANGED <<row, evidence, carry, calls, faults>>

-----------------------------------------------------------------------------
(* Sealing.                                                                 *)

\* Mutant of Sealable: build's check of the rows, without validate's.
SealableRows == \A k \in Stage : stage[k].status = "COMPLETED"

\* Mutant of Sealable: the place in the lineage is not validated.
SealableLinked ==
    \A k \in Stage :
        stage[k].status = "COMPLETED" /\ stage[k].link = Contents(k)

\* What EcosystemReplayLedger.build demands of the rows and validate demands
\* of the package: every stage COMPLETED, linked to the artifact of exactly
\* this attempt and response, and recorded at its own place in the lineage.
Sealable ==
    \A k \in Stage :
        /\ stage[k].status = "COMPLETED"
        /\ stage[k].link = Contents(k)
        /\ k <= Len(lineage)
        /\ lineage[k] = Contents(k)

Seal(w) ==
    /\ pc[w] = "seal"
    /\ IF Sealable
         THEN /\ item' = [item EXCEPT ![w] =
                            [type |-> "replay", stages |-> [k \in Stage |-> Contents(k)]]]
              /\ Goto(w, "put")
         ELSE Goto(w, "except") /\ UNCHANGED item
    /\ UNCHANGED <<row, evidence, cur, att, carry, calls, faults>>

\* set_ecosystem_replay_package.
SetPackage(w) ==
    /\ pc[w] = "link"
    /\ item[w].type = "replay"
    /\ package' = item[w].stages
    /\ Goto(w, "finish")
    /\ UNCHANGED <<status, capability, evidence, cur, att, carry, item, calls,
                   faults>>

Finish(w) ==
    /\ pc[w] = "finish"
    /\ status' = "COMPLETED"
    /\ Goto(w, "finished")
    /\ UNCHANGED <<capability, package, evidence, cur, att, carry, item, calls,
                   faults>>

Return(w) ==
    /\ pc[w] = "finished"
    /\ Leave(w)
    /\ UNCHANGED <<row, evidence, calls, faults>>

-----------------------------------------------------------------------------
(* Failure handling.                                                        *)

\* fail_ecosystem_stage, first UPDATE: fenced by the attempt, not by the status.
\* (What a refusing owner answered is kept for display only: None here.)
FailStage(w) ==
    LET k == cur[w] IN
    /\ pc[w] = "fail"
    /\ stage' = IF att[w] = Len(tries[k])
                  THEN [stage EXCEPT ![k] =
                          [@ EXCEPT !.status = "FAILED", !.response = None]]
                  ELSE stage
    /\ Goto(w, "failAttempt")
    /\ UNCHANGED <<row, tries, lineage, cur, att, carry, item, calls, faults>>

\* fail_ecosystem_stage, second UPDATE.
FailAttempt(w) ==
    /\ pc[w] = "failAttempt"
    /\ tries' = [tries EXCEPT ![cur[w]][att[w]] = "FAILED"]
    /\ Goto(w, "failExecution")
    /\ UNCHANGED <<row, stage, lineage, cur, att, carry, item, calls, faults>>

FailExecution(w) ==
    /\ pc[w] = "failExecution"
    /\ status' = "FAILED"
    /\ Goto(w, "except")
    /\ UNCHANGED <<capability, package, evidence, cur, att, carry, item, calls,
                   faults>>

\* Mutant of Except: the status is taken to be FAILED already.
ExceptLeaves(w) ==
    /\ pc[w] = "except"
    /\ Leave(w)
    /\ UNCHANGED <<row, evidence, calls, faults>>

\* execute / recover: except Exception reads the status ...
Except(w) ==
    /\ pc[w] = "except"
    /\ IF status = "FAILED"
         THEN Leave(w)
         ELSE Goto(w, "exceptWrite") /\ UNCHANGED <<cur, att, carry, item>>
    /\ UNCHANGED <<row, evidence, calls, faults>>

\* ... and overwrites whatever was not FAILED.
ExceptWrite(w) ==
    /\ pc[w] = "exceptWrite"
    /\ status' = "FAILED"
    /\ Leave(w)
    /\ UNCHANGED <<capability, package, evidence, calls, faults>>

-----------------------------------------------------------------------------
(* Faults.                                                                  *)

Strike(kind) ==
    /\ kind \in Faults
    /\ faults < MaxFaults
    /\ faults' = faults + 1

\* The owner refuses, is unreachable, times out or answers out of contract.
OwnerFails(w) ==
    /\ Strike("owner")
    /\ pc[w] = "call"
    /\ Goto(w, "fail")
    /\ UNCHANGED <<row, evidence, cur, att, carry, item, calls>>

\* _chain_head_lease gives up before the stage is entered.
LeaseTimeout(w) ==
    /\ Strike("lease")
    /\ pc[w] = "begin"
    /\ cur[w] \in LeaseAt
    /\ Goto(w, "except")
    /\ UNCHANGED <<row, evidence, cur, att, carry, item, calls>>

\* A statement of the store (or the telemetry file) raises and nothing of it is
\* written: a locked or full database, a lost PostgreSQL connection.
StoreFails(w) ==
    /\ Strike("store")
    /\ \/ pc[w] \in InTry /\ Raise(w)
       \/ pc[w] \in Outside \cup Failing /\ Goto(w, "except")
    /\ UNCHANGED <<row, evidence, cur, att, carry, item, calls>>

\* The process dies or the coroutine is cancelled (CancelledError is no
\* Exception), or a statement raises where nothing handles it.
Crash(w) ==
    /\ Strike("crash")
    /\ pc[w] # "idle"
    /\ Leave(w)
    /\ UNCHANGED <<row, evidence, calls>>

-----------------------------------------------------------------------------

\* What a call in progress does by itself.
Step(w) ==
    \/ RecordCapability(w) \/ MarkRecovering(w)
    \/ Reuse(w) \/ Begin(w) \/ ReadAttempt(w) \/ MarkStage(w)
    \/ \E r \in Response : Complete(w, r) \/ RepeatComplete(w, r)
    \/ ReadCompleted(w) \/ PutArtifact(w) \/ AppendLineage(w)
    \/ LinkArtifact(w) \/ Report(w)
    \/ Seal(w) \/ SetPackage(w) \/ Finish(w) \/ Return(w)
    \/ FailStage(w) \/ FailAttempt(w) \/ FailExecution(w)
    \/ Except(w) \/ ExceptWrite(w)

Fault(w) == OwnerFails(w) \/ LeaseTimeout(w) \/ StoreFails(w) \/ Crash(w)

Next == \E w \in Worker : Execute(w) \/ Recover(w) \/ Step(w) \/ Fault(w)

Spec == Init /\ [][Next]_vars

\* The event loop runs every coroutine and httpx bounds every owner call, so a
\* call in progress keeps stepping.  Nothing obliges anybody to call recover.
FairSpec == Spec /\ \A w \in Worker : WF_vars(Step(w))

-----------------------------------------------------------------------------
(* Properties.                                                              *)

Recording == {"put", "append", "link"}

\* The rows, the lineage and the locals of the workers have their types.
TypeOK ==
    /\ status \in {"ABSENT", "PENDING", "RUNNING", "FAILED", "COMPLETED"}
    /\ capability \in BOOLEAN
    /\ package \in Package \cup {None}
    /\ stage \in [Stage -> StageRow]
    /\ tries \in [Stage -> Seq(StageStatus \ {"ABSENT"})]
    /\ lineage \in Seq(Artifact)
    /\ pc \in [Worker -> Control]
    /\ cur \in [Worker -> Stage]
    /\ att \in [Worker -> Nat]
    /\ carry \in [Worker -> Reply]
    /\ item \in [Worker -> Artifact \cup {None}]
    /\ calls \in Nat
    /\ faults \in Nat

Checkpointed(k) ==
    \E i \in 1..Len(lineage) :
        lineage[i].type = "stage" /\ lineage[i].stage = k

\* No owner is called before every earlier stage has left durable, hash-chained
\* evidence: whatever crashes, and however many workers run the execution, an
\* attempt of stage k exists only if stages 1..k-1 are in the lineage.
CheckpointBeforeNext ==
    \A k \in Stage : tries[k] # <<>> => \A j \in 1..(k - 1) : Checkpointed(j)

\* A sealed replay package is the lineage's own prefix, entry by entry, and an
\* execution is COMPLETED only with a package: replay never shows a stage the
\* depository does not hold at that place.
SealedIsRecorded ==
    /\ status = "COMPLETED" => package # None
    /\ package # None =>
        \A k \in Stage : k <= Len(lineage) /\ lineage[k] = package[k]

\* A sealed package is final: a second worker, a recovery after COMPLETED was
\* overwritten, a repeated seal can only write the same package again.
SealIsFinal == [][package # None => package' = package]_vars

\* "A completed ecosystem stage cannot be rewritten": while a stage stays
\* COMPLETED no other worker, holding the same attempt or a stale one, replaces
\* the response that later stages have been built from.
CompletedResponseFixed ==
    [][\A k \in Stage :
          stage[k].status = "COMPLETED" /\ stage'[k].status = "COMPLETED"
            => stage'[k].response = stage[k].response]_vars

\* With one worker at a time, whatever crashes: entry k of the lineage is
\* stage k, and a worker that reaches the seal finds everything in its place.
\* No crash can leave an execution that recovery cannot seal.
SealNeverRefused ==
    /\ \A k \in Stage : k <= Len(lineage) =>
           lineage[k].type = "stage" /\ lineage[k].stage = k
    /\ \A w \in Worker : pc[w] = "seal" => Sealable

\* With one worker at a time a sealed package tells one run: every stage after
\* the first was asked with the response that the package has for the stage
\* before it.  What a recovery reuses is what the interrupted call had used,
\* wherever that was cut off, and what a failed attempt was asked with is gone.
\* (Two workers can do otherwise: a response may be replaced by another attempt's
\* while the worker that was given the first carries it on, and
\* EcosystemReplayLedger.validate compares no request with a former response.)
SealedIsOneRun ==
    package # None =>
        \A k \in Stage \ {1} : package[k].request = package[k - 1].response

\* While no fault strikes, an execution is RUNNING only if a worker is driving
\* it: two workers that refuse each other's attempts and overwrite each other's
\* FAILED never leave it orphaned.
RunningIsDriven ==
    faults = 0 /\ status \in {"PENDING", "RUNNING"}
        => \E w \in Worker : pc[w] # "idle"

\* Once the faults are over, a call that sets out completes the execution,
\* wherever earlier calls were cut off.
RecoveryCompletes ==
    \A w \in Worker :
        (pc[w] \in {"created", "recovering"} /\ faults = MaxFaults)
            ~> status = "COMPLETED"

-----------------------------------------------------------------------------
(* The inductive invariant behind CheckpointBeforeNext, SealedIsRecorded and *)
(* SealIsFinal (EcosystemProofs).                                           *)

\* A worker writes the artifact of the stage it is at, or a replay package that
\* repeats the lineage; it links or seals only what is recorded.
ItemOK ==
    \A w \in Worker :
        /\ pc[w] \in Recording =>
             \/ item[w] \in StageArtifact /\ item[w].stage = cur[w]
             \/ /\ item[w] \in ReplayArtifact
                /\ \A k \in Stage : /\ k <= Len(lineage)
                                     /\ lineage[k] = item[w].stages[k]
        /\ pc[w] = "link" => Recorded(item[w])

\* A worker has left a checkpoint at every stage it has passed.
Frontier ==
    \A w \in Worker :
        /\ \A j \in 1..(cur[w] - 1) : Checkpointed(j)
        /\ pc[w] = "report" => Checkpointed(cur[w])

\* A linked stage is in the lineage.
Linked ==
    \A k \in Stage : stage[k].link # None =>
        stage[k].link.stage = k /\ Recorded(stage[k].link)

FinishOK == \A w \in Worker : pc[w] = "finish" => package # None

IInv ==
    /\ TypeOK /\ ItemOK /\ Frontier /\ Linked /\ FinishOK
    /\ CheckpointBeforeNext /\ SealedIsRecorded
=============================================================================
