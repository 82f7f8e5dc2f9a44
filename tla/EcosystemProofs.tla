--------------------------- MODULE EcosystemProofs ---------------------------
(***************************************************************************)
(* Machine-checked proofs about Ecosystem, for every number of workers,     *)
(* stages, answers and faults.                                              *)
(***************************************************************************)
EXTENDS Ecosystem, TLAPS

\* Setting one attempt's status, or adding an attempt, keeps the log typed.
LEMMA TriesAppend ==
    ASSUME NEW s \in Seq(StageStatus \ {"ABSENT"})
    PROVE  /\ Append(s, "RUNNING") \in Seq(StageStatus \ {"ABSENT"})
           /\ Append(s, "RUNNING") # <<>>
           /\ Len(s) \in Nat
BY DEF StageStatus

\* The contents of a typed stage row make a stage artifact.
LEMMA ContentsType ==
    ASSUME TypeOK, NEW k \in Stage
    PROVE  Contents(k) \in StageArtifact /\ Contents(k).stage = k
                 /\ Contents(k).type = "stage"
BY DEF TypeOK, Contents, StageArtifact, StageRow, Reply

\* The first stage exists.
LEMMA FirstStage == 1 \in Stage
BY NStagesAssumption DEF Stage

\* Overwriting one entry of a sequence keeps its type and its length.
LEMMA SeqExcept ==
    ASSUME NEW S, NEW s \in Seq(S), NEW x \in S, NEW i
    PROVE  [s EXCEPT ![i] = x] \in Seq(S)
<1> DEFINE t == [s EXCEPT ![i] = x]
<1>1. s \in [1..Len(s) -> S] /\ Len(s) \in Nat
  OBVIOUS
<1>2. t \in [1..Len(s) -> S]
  BY <1>1, Zenon
<1> QED
  BY <1>1, <1>2

\* An execution starts typed.
LEMMA InitType == Init => TypeOK
<1> SUFFICES ASSUME Init PROVE TypeOK
  OBVIOUS
<1>1. stage \in [Stage -> StageRow]
  BY DEF Init, StageRow, StageStatus, Reply
<1>2. tries \in [Stage -> Seq(StageStatus \ {"ABSENT"})]
  BY DEF Init
<1>3. lineage \in Seq(Artifact)
  BY DEF Init
<1>4. pc \in [Worker -> Control] /\ cur \in [Worker -> Stage]
  BY FirstStage DEF Init, Control
<1>5. /\ att \in [Worker -> Nat] /\ carry \in [Worker -> Reply]
      /\ item \in [Worker -> Artifact \cup {None}]
  BY DEF Init, Reply
<1> QED
  BY <1>1, <1>2, <1>3, <1>4, <1>5 DEF Init, TypeOK

\* Where a worker goes is a label of the program.
LEMMA GotoType ==
    ASSUME TypeOK, NEW w \in Worker, NEW l \in Control, Goto(w, l)
    PROVE  pc' \in [Worker -> Control]
BY DEF TypeOK, Goto

\* Dropping a worker's locals keeps them typed.
LEMMA LeaveType ==
    ASSUME TypeOK, NEW w \in Worker, Leave(w)
    PROVE  /\ pc' \in [Worker -> Control] /\ cur' \in [Worker -> Stage]
           /\ att' \in [Worker -> Nat] /\ carry' \in [Worker -> Reply]
           /\ item' \in [Worker -> Artifact \cup {None}]
BY FirstStage DEF TypeOK, Leave, Goto, Control, Reply

\* The stage after a stage other than the last is a stage.
LEMMA AdvanceType ==
    ASSUME TypeOK, NEW w \in Worker, Advance(w)
    PROVE  /\ pc' \in [Worker -> Control] /\ cur' \in [Worker -> Stage]
           /\ att' \in [Worker -> Nat]
           /\ item' \in [Worker -> Artifact \cup {None}]
<1>1. cur[w] # NStages => cur[w] + 1 \in Stage
  BY NStagesAssumption DEF TypeOK, Stage
<1> QED
  BY <1>1 DEF TypeOK, Advance, Goto, Control, Outside

\* The entry points of execute and recover keep the types.
LEMMA EntryType ==
    ASSUME TypeOK, NEW w \in Worker, Execute(w) \/ RecordCapability(w)
                                     \/ Recover(w) \/ MarkRecovering(w)
    PROVE  TypeOK'
<1> USE GotoType DEF evidence
<1>1. CASE Execute(w)
  BY <1>1 DEF Execute, TypeOK, Control
<1>2. CASE RecordCapability(w)
  BY <1>2 DEF RecordCapability, TypeOK, Control, Outside
<1>3. CASE Recover(w)
  BY <1>3 DEF Recover, TypeOK, Control, row
<1>4. CASE MarkRecovering(w)
  BY <1>4 DEF MarkRecovering, TypeOK, Control, Outside
<1> QED
  BY <1>1, <1>2, <1>3, <1>4

\* Rewriting one stage row, column by column, keeps the table typed.
LEMMA StageUpdate ==
    ASSUME TypeOK, NEW k \in Stage, NEW new \in StageRow
    PROVE  [stage EXCEPT ![k] = new] \in [Stage -> StageRow]
BY DEF TypeOK

\* A typed worker's stage, and its row.
LEMMA RowType ==
    ASSUME TypeOK, NEW w \in Worker
    PROVE  /\ cur[w] \in Stage /\ stage[cur[w]] \in StageRow
           /\ tries[cur[w]] \in Seq(StageStatus \ {"ABSENT"})
           /\ Contents(cur[w]) \in StageArtifact
BY ContentsType DEF TypeOK

\* _materialize_stage keeps the types if what follows a linked row does.
LEMMA MaterializeType ==
    ASSUME TypeOK, NEW w \in Worker, NEW next,
           Materialize(w, next),
           next => /\ pc' \in [Worker -> Control] /\ cur' \in [Worker -> Stage]
                   /\ att' \in [Worker -> Nat]
                   /\ item' \in [Worker -> Artifact \cup {None}]
    PROVE  /\ pc' \in [Worker -> Control] /\ cur' \in [Worker -> Stage]
           /\ att' \in [Worker -> Nat]
           /\ item' \in [Worker -> Artifact \cup {None}]
BY RowType DEF Materialize, TypeOK, Goto, Control, InTry, Artifact

\* Reusing a stage, or opening an attempt, keeps the types.
LEMMA AttemptType ==
    ASSUME TypeOK, NEW w \in Worker, Reuse(w) \/ Begin(w) \/ ReadAttempt(w)
                                     \/ MarkStage(w)
    PROVE  TypeOK'
<1> USE RowType DEF evidence, row
<1>1. CASE Reuse(w)
  <2>1. /\ pc' \in [Worker -> Control] /\ cur' \in [Worker -> Stage]
        /\ att' \in [Worker -> Nat]
        /\ item' \in [Worker -> Artifact \cup {None}]
    BY <1>1, MaterializeType, AdvanceType DEF Reuse
  <2>2. carry' \in [Worker -> Reply]
    BY <1>1 DEF Reuse, TypeOK, StageRow
  <2> QED
    BY <1>1, <2>1, <2>2 DEF Reuse, TypeOK
<1>2. CASE Begin(w)
  <2>1. tries' \in [Stage -> Seq(StageStatus \ {"ABSENT"})]
    BY <1>2, TriesAppend DEF Begin, TypeOK
  <2>2. stage' \in [Stage -> StageRow]
    <3>1. [stage[cur[w]] EXCEPT !.status = "RUNNING", !.request = carry[w],
                                !.response = None] \in StageRow
      BY DEF TypeOK, StageRow, StageStatus, Reply
    <3> QED
      BY <1>2, <3>1, StageUpdate DEF Begin
  <2> QED
    BY <1>2, <2>1, <2>2, GotoType DEF Begin, TypeOK, Control, Outside
<1>3. CASE ReadAttempt(w)
  BY <1>3, GotoType DEF ReadAttempt, TypeOK, Control, Outside
<1>4. CASE MarkStage(w)
  BY <1>4, GotoType DEF MarkStage, TypeOK, Control, InTry
<1> QED
  BY <1>1, <1>2, <1>3, <1>4

\* Recording an owner's answer keeps the types.
LEMMA CompleteType ==
    ASSUME TypeOK, NEW w \in Worker, NEW r \in Response, Complete(w, r)
    PROVE  TypeOK'
<1> USE RowType
<1>1. pc' \in [Worker -> Control]
  BY DEF Complete, TypeOK, Goto, Control, InTry, Failing
<1>2. stage' \in [Stage -> StageRow]
  <2>1. [stage[cur[w]] EXCEPT !.status = "COMPLETED", !.response = r]
          \in StageRow
    BY DEF TypeOK, StageRow, StageStatus, Reply
  <2>2. [stage EXCEPT ![cur[w]] = [@ EXCEPT !.status = "COMPLETED",
                                           !.response = r]]
          \in [Stage -> StageRow]
    BY <2>1, StageUpdate
  <2> QED
    BY <2>2 DEF Complete, TypeOK
<1>3. tries' \in [Stage -> Seq(StageStatus \ {"ABSENT"})]
  <2>1. [tries[cur[w]] EXCEPT ![att[w]] = "COMPLETED"]
          \in Seq(StageStatus \ {"ABSENT"})
    BY SeqExcept DEF StageStatus
  <2> QED
    BY <2>1 DEF Complete, TypeOK
<1>4. carry' \in [Worker -> Reply]
  BY DEF Complete, TypeOK, Reply
<1> QED
  BY <1>1, <1>2, <1>3, <1>4 DEF Complete, TypeOK, row

\* Both handlers an exception may reach are labels.
LEMMA RaiseType ==
    ASSUME TypeOK, NEW w \in Worker, Raise(w)
    PROVE  pc' \in [Worker -> Control]
BY DEF Raise, TypeOK, Goto, Control, Failing, Handling

\* Recording the artifact of a stage keeps the types, provided the worker
\* holds the artifact its label stands for.
LEMMA CheckpointType ==
    ASSUME TypeOK, NEW w \in Worker,
           ReadCompleted(w) \/ (\E r \in Response : RepeatComplete(w, r))
             \/ PutArtifact(w) \/ AppendLineage(w) \/ LinkArtifact(w) \/ Report(w),
           pc[w] = "append" => item[w] \in Artifact,
           pc[w] = "link" /\ item[w].type = "stage" => item[w] \in StageArtifact
    PROVE  TypeOK'
<1> USE RowType DEF evidence, row
<1>1. CASE ReadCompleted(w) \/ \E r \in Response : RepeatComplete(w, r)
  <2>1. /\ pc' \in [Worker -> Control] /\ cur' \in [Worker -> Stage]
        /\ att' \in [Worker -> Nat]
        /\ item' \in [Worker -> Artifact \cup {None}]
    <3>1. ToReport(w) =>
            /\ pc' \in [Worker -> Control] /\ cur' \in [Worker -> Stage]
            /\ att' \in [Worker -> Nat]
            /\ item' \in [Worker -> Artifact \cup {None}]
      BY DEF TypeOK, ToReport, Goto, Control, InTry
    <3>2. Materialize(w, ToReport(w))
      BY <1>1 DEF ReadCompleted, RepeatComplete
    <3> QED
      BY <3>1, <3>2, MaterializeType
  <2>2. carry' \in [Worker -> Reply]
    BY <1>1 DEF ReadCompleted, RepeatComplete, TypeOK, Reply
  <2> QED
    BY <1>1, <2>1, <2>2 DEF ReadCompleted, RepeatComplete, TypeOK
<1>2. CASE PutArtifact(w)
  BY <1>2 DEF PutArtifact, TypeOK, Goto, Control, InTry
<1>3. CASE AppendLineage(w)
  <2>1. pc' \in [Worker -> Control]
    BY <1>3, RaiseType DEF AppendLineage, TypeOK, Goto, Control, InTry
  <2>2. lineage' \in Seq(Artifact)
    <3>1. item[w] \in Artifact /\ lineage \in Seq(Artifact)
      BY <1>3 DEF AppendLineage, TypeOK
    <3>2. Append(lineage, item[w]) \in Seq(Artifact)
      BY <3>1
    <3> QED
      BY <1>3, <3>1, <3>2 DEF AppendLineage
  <2> QED
    BY <1>3, <2>1, <2>2 DEF AppendLineage, TypeOK
<1>4. CASE LinkArtifact(w)
  <2>1. stage' \in [Stage -> StageRow]
    <3>1. item[w] \in StageArtifact =>
            [stage[cur[w]] EXCEPT !.link = item[w]] \in StageRow
      BY DEF StageRow
    <3> QED
      BY <1>4, <3>1, StageUpdate DEF LinkArtifact, TypeOK
  <2>2. /\ pc' \in [Worker -> Control] /\ cur' \in [Worker -> Stage]
        /\ att' \in [Worker -> Nat]
        /\ item' \in [Worker -> Artifact \cup {None}]
    <3>1. CASE Raise(w) /\ UNCHANGED <<cur, att, item>>
      BY <3>1, RaiseType DEF TypeOK
    <3>2. CASE Advance(w)
      BY <3>2, AdvanceType
    <3>3. CASE ToReport(w)
      BY <3>3 DEF ToReport, TypeOK, Goto, Control, InTry
    <3> QED
      BY <1>4, <3>1, <3>2, <3>3 DEF LinkArtifact
  <2> QED
    BY <1>4, <2>1, <2>2 DEF LinkArtifact, TypeOK
<1>5. CASE Report(w)
  BY <1>5, AdvanceType DEF Report, TypeOK
<1> QED
  BY <1>1, <1>2, <1>3, <1>4, <1>5

\* Sealing keeps the types, under the same proviso.
LEMMA SealType ==
    ASSUME TypeOK, NEW w \in Worker,
           Seal(w) \/ SetPackage(w) \/ Finish(w) \/ Return(w),
           pc[w] = "link" /\ item[w].type = "replay" => item[w] \in ReplayArtifact
    PROVE  TypeOK'
<1> USE DEF evidence, row
<1>1. CASE Seal(w)
  <2>1. [k \in Stage |-> Contents(k)] \in Package
    BY ContentsType DEF Package
  <2>2. [type |-> "replay", stages |-> [k \in Stage |-> Contents(k)]] \in Artifact
    BY <2>1 DEF Artifact, ReplayArtifact
  <2>3. item' \in [Worker -> Artifact \cup {None}]
    BY <1>1, <2>2 DEF Seal, TypeOK
  <2> QED
    BY <1>1, <2>3 DEF Seal, TypeOK, Goto, Control, InTry, Handling
<1>2. CASE SetPackage(w)
  <2>1. package' \in Package
    BY <1>2 DEF SetPackage, ReplayArtifact
  <2> QED
    BY <1>2, <2>1, GotoType DEF SetPackage, TypeOK, Control, Outside
<1>3. CASE Finish(w)
  BY <1>3, GotoType DEF Finish, TypeOK, Control, Outside
<1>4. CASE Return(w)
  BY <1>4, LeaveType DEF Return, TypeOK
<1> QED
  BY <1>1, <1>2, <1>3, <1>4

\* The failure handlers keep the types.
LEMMA FailType ==
    ASSUME TypeOK, NEW w \in Worker,
           FailStage(w) \/ FailAttempt(w) \/ FailExecution(w)
             \/ Except(w) \/ ExceptWrite(w)
    PROVE  TypeOK'
<1> USE RowType DEF evidence, row
<1>1. CASE FailStage(w)
  <2>1. [stage[cur[w]] EXCEPT !.status = "FAILED", !.response = None] \in StageRow
    BY DEF StageRow, StageStatus, Reply
  <2>2. stage' \in [Stage -> StageRow]
    BY <1>1, <2>1, StageUpdate DEF FailStage, TypeOK
  <2> QED
    BY <1>1, <2>2, GotoType DEF FailStage, TypeOK, Control, Failing
<1>2. CASE FailAttempt(w)
  <2>1. [tries[cur[w]] EXCEPT ![att[w]] = "FAILED"]
          \in Seq(StageStatus \ {"ABSENT"})
    BY SeqExcept DEF StageStatus
  <2>2. tries' \in [Stage -> Seq(StageStatus \ {"ABSENT"})]
    BY <1>2, <2>1 DEF FailAttempt, TypeOK
  <2> QED
    BY <1>2, <2>2, GotoType DEF FailAttempt, TypeOK, Control, Failing
<1>3. CASE FailExecution(w)
  BY <1>3, GotoType DEF FailExecution, TypeOK, Control, Handling
<1>4. CASE Except(w)
  BY <1>4, GotoType, LeaveType DEF Except, TypeOK, Control, Handling
<1>5. CASE ExceptWrite(w)
  BY <1>5, LeaveType DEF ExceptWrite, TypeOK
<1> QED
  BY <1>1, <1>2, <1>3, <1>4, <1>5

\* A fault keeps the types.
LEMMA FaultType ==
    ASSUME TypeOK, NEW w \in Worker, Fault(w)
    PROVE  TypeOK'
<1> USE DEF evidence, row, Strike
<1>1. CASE OwnerFails(w)
  BY <1>1, GotoType DEF OwnerFails, TypeOK, Control, Failing
<1>2. CASE LeaseTimeout(w)
  BY <1>2, GotoType DEF LeaseTimeout, TypeOK, Control, Handling
<1>3. CASE StoreFails(w)
  BY <1>3, GotoType, RaiseType DEF StoreFails, TypeOK, Control, Handling
<1>4. CASE Crash(w)
  BY <1>4, LeaveType DEF Crash, TypeOK
<1> QED
  BY <1>1, <1>2, <1>3, <1>4 DEF Fault

-----------------------------------------------------------------------------
(* The inductive invariant.  The lineage only grows, so what is recorded     *)
(* stays recorded; most steps are Quiet: they leave the lineage, the links   *)
(* and the package alone and take the worker to a label that claims nothing. *)

Grows ==
    /\ lineage \in Seq(Artifact) /\ lineage' \in Seq(Artifact)
    /\ Len(lineage) <= Len(lineage')
    /\ \A i \in 1..Len(lineage) : lineage'[i] = lineage[i]

\* What a growing lineage records it goes on recording, at the same place.
LEMMA Persist ==
    ASSUME Grows
    PROVE  /\ \A a : Recorded(a) => Recorded(a)'
           /\ \A k : Checkpointed(k) => Checkpointed(k)'
           /\ \A p : (\A k \in Stage : k <= Len(lineage) /\ lineage[k] = p[k])
                  => (\A k \in Stage : k <= Len(lineage') /\ lineage'[k] = p[k])
<1>1. 1..Len(lineage) \subseteq 1..Len(lineage')
  BY DEF Grows
<1>2. ASSUME NEW a, Recorded(a) PROVE Recorded(a)'
  BY <1>1, <1>2 DEF Grows, Recorded
<1>3. ASSUME NEW k, Checkpointed(k) PROVE Checkpointed(k)'
  BY <1>1, <1>3 DEF Grows, Checkpointed
<1>4. ASSUME NEW p, NEW k \in Stage, k <= Len(lineage), lineage[k] = p[k]
      PROVE  k <= Len(lineage') /\ lineage'[k] = p[k]
  <2>1. k \in 1..Len(lineage)
    BY <1>4 DEF Stage, Grows
  <2> QED
    BY <1>4, <2>1 DEF Grows, Stage
<1> QED
  BY <1>2, <1>3, <1>4

\* What a recorded stage artifact proves.
LEMMA RecordedCheckpoint ==
    ASSUME NEW a \in StageArtifact, Recorded(a)
    PROVE  Checkpointed(a.stage)
BY DEF Recorded, Checkpointed, StageArtifact

Others(w) ==
    \A v \in Worker \ {w} :
        pc'[v] = pc[v] /\ cur'[v] = cur[v] /\ item'[v] = item[v]

Quiet(w) ==
    /\ lineage' = lineage /\ package' = package
    /\ \A k \in Stage : stage'[k].link = stage[k].link
    /\ \A k \in Stage : tries'[k] # <<>> => tries[k] # <<>>
    /\ status' = "COMPLETED" => status = "COMPLETED"
    /\ Others(w)
    /\ cur'[w] \in {1, cur[w]}
    /\ pc'[w] \notin Recording \cup {"report", "finish"}

\* A Quiet step keeps the inductive invariant.
LEMMA QuietKeeps ==
    ASSUME IInv, TypeOK', NEW w \in Worker, Quiet(w)
    PROVE  IInv'
<1>1. \A a : Recorded(a)' <=> Recorded(a)
  BY DEF Quiet, Recorded
<1>2. \A k : Checkpointed(k)' <=> Checkpointed(k)
  BY DEF Quiet, Checkpointed
<1>3. ItemOK'
  BY <1>1 DEF IInv, ItemOK, Quiet, Others, Recording
<1>4. Frontier'
  <2>1. cur[w] \in Nat \ {0} /\ cur'[w] \in {1, cur[w]}
    BY DEF IInv, TypeOK, Quiet, Stage
  <2>2. \A j \in 1..(cur'[w] - 1) : j \in 1..(cur[w] - 1)
    BY <2>1
  <2> QED
    BY <1>2, <2>2 DEF IInv, Frontier, Quiet, Others
<1>5. Linked'
  BY <1>1 DEF IInv, Linked, Quiet
<1>6. FinishOK'
  BY DEF IInv, FinishOK, Quiet, Others
<1>7. CheckpointBeforeNext'
  BY <1>2 DEF IInv, CheckpointBeforeNext, Quiet
<1>8. SealedIsRecorded'
  BY DEF IInv, SealedIsRecorded, Quiet
<1> QED
  BY <1>3, <1>4, <1>5, <1>6, <1>7, <1>8 DEF IInv

\* The inductive invariant holds at the start.
LEMMA InitInv == Init => IInv
<1> SUFFICES ASSUME Init PROVE IInv
  OBVIOUS
<1>1. \A w \in Worker : pc[w] = "idle" /\ cur[w] = 1
  BY DEF Init
<1>2. ItemOK /\ Frontier /\ FinishOK
  BY <1>1 DEF ItemOK, Frontier, FinishOK, Recording
<1>3. Linked /\ CheckpointBeforeNext /\ SealedIsRecorded
  BY DEF Init, Linked, CheckpointBeforeNext, SealedIsRecorded
<1> QED
  BY <1>2, <1>3, InitType DEF IInv

\* The artifact a worker holds while it records is typed.
LEMMA HeldType ==
    ASSUME IInv, NEW w \in Worker, pc[w] \in Recording
    PROVE  /\ item[w] \in Artifact
           /\ item[w].type = "stage" =>
                item[w] \in StageArtifact /\ item[w].stage = cur[w]
           /\ item[w].type = "replay" =>
                /\ item[w] \in ReplayArtifact
                /\ \A k \in Stage : /\ k <= Len(lineage)
                                    /\ lineage[k] = item[w].stages[k]
<1>1. \/ item[w] \in StageArtifact /\ item[w].stage = cur[w]
      \/ /\ item[w] \in ReplayArtifact
         /\ \A k \in Stage : k <= Len(lineage) /\ lineage[k] = item[w].stages[k]
  BY DEF IInv, ItemOK
<1>2. item[w] \in StageArtifact => item[w].type = "stage"
  BY DEF StageArtifact
<1>3. item[w] \in ReplayArtifact => item[w].type = "replay"
  BY DEF ReplayArtifact
<1> QED
  BY <1>1, <1>2, <1>3 DEF Artifact

\* Every step keeps the types.
LEMMA StepType ==
    ASSUME IInv, [Next]_vars
    PROVE  TypeOK'
<1>0. TypeOK
  BY DEF IInv
<1>1. CASE UNCHANGED vars
  BY <1>0, <1>1 DEF vars, row, evidence, local, TypeOK
<1>2. ASSUME NEW w \in Worker,
             Execute(w) \/ Recover(w) \/ Step(w) \/ Fault(w)
      PROVE  TypeOK'
  <2>1. /\ pc[w] = "append" => item[w] \in Artifact
        /\ pc[w] = "link" /\ item[w].type = "stage" => item[w] \in StageArtifact
        /\ pc[w] = "link" /\ item[w].type = "replay" => item[w] \in ReplayArtifact
    BY HeldType DEF Recording
  <2> QED
    BY <1>0, <1>2, <2>1, EntryType, AttemptType, CompleteType, CheckpointType,
       SealType, FailType, FaultType DEF Step
<1> QED
  BY <1>1, <1>2 DEF Next

\* A worker that leaves is back at the first stage and claims nothing.
LEMMA QuietLeave ==
    ASSUME TypeOK, NEW w \in Worker, Leave(w)
    PROVE  Others(w) /\ cur'[w] = 1 /\ pc'[w] = "idle"
BY DEF TypeOK, Leave, Goto, Others

\* A worker that goes somewhere with its stage and artifact disturbs no other.
LEMMA QuietGoto ==
    ASSUME TypeOK, NEW w \in Worker, NEW l, Goto(w, l), UNCHANGED <<cur, item>>
    PROVE  Others(w) /\ cur'[w] = cur[w] /\ pc'[w] = l
BY DEF TypeOK, Goto, Others

\* The entry points, the attempt's bookkeeping, the return and a refused seal
\* are Quiet.
LEMMA QuietEntry ==
    ASSUME TypeOK, NEW w \in Worker,
           Execute(w) \/ RecordCapability(w) \/ Recover(w) \/ MarkRecovering(w)
             \/ ReadAttempt(w) \/ MarkStage(w) \/ Return(w) \/ (Seal(w) /\ ~Sealable)
    PROVE  Quiet(w)
<1> USE QuietGoto DEF evidence, row, Quiet, Recording
<1>1. CASE Execute(w)
  BY <1>1 DEF Execute
<1>2. CASE RecordCapability(w)
  BY <1>2 DEF RecordCapability
<1>3. CASE Recover(w)
  BY <1>3 DEF Recover
<1>4. CASE MarkRecovering(w)
  BY <1>4 DEF MarkRecovering
<1>5. CASE ReadAttempt(w)
  BY <1>5 DEF ReadAttempt
<1>6. CASE MarkStage(w)
  BY <1>6 DEF MarkStage
<1>7. CASE Return(w)
  BY <1>7, QuietLeave DEF Return
<1>8. CASE (Seal(w) /\ ~Sealable)
  BY <1>8 DEF Seal
<1> QED
  BY <1>1, <1>2, <1>3, <1>4, <1>5, <1>6, <1>7, <1>8

\* Overwriting an attempt's status creates no attempt.
LEMMA SameAttempts ==
    ASSUME TypeOK, NEW k \in Stage, NEW i, NEW x,
           tries' = [tries EXCEPT ![k][i] = x]
    PROVE  \A j \in Stage : tries'[j] # <<>> => tries[j] # <<>>
<1>1. ASSUME NEW j \in Stage, tries[j] = <<>> PROVE tries'[j] = <<>>
  <2>1. [<<>> EXCEPT ![i] = x] = <<>>
    OBVIOUS
  <2> QED
    BY <1>1, <2>1 DEF TypeOK
<1> QED
  BY <1>1

\* Rewriting the other columns of a row keeps its link.
LEMMA SameLinks ==
    ASSUME TypeOK, NEW k \in Stage, NEW new, new.link = stage[k].link,
           stage' = [stage EXCEPT ![k] = new]
    PROVE  \A j \in Stage : stage'[j].link = stage[j].link
BY DEF TypeOK

\* Recording an owner's answer is Quiet: it is no evidence yet.
LEMMA QuietComplete ==
    ASSUME TypeOK, NEW w \in Worker, NEW r \in Response, Complete(w, r)
    PROVE  Quiet(w)
<1> USE RowType
<1>1. Others(w) /\ cur'[w] = cur[w] /\ pc'[w] \in {"reread", "fail"}
  BY QuietGoto DEF Complete
<1>2. \A k \in Stage : stage'[k].link = stage[k].link
  <2>1. [stage[cur[w]] EXCEPT !.status = "COMPLETED", !.response = r].link
          = stage[cur[w]].link
    BY DEF StageRow
  <2> QED
    BY <2>1, SameLinks DEF Complete
<1>3. \A k \in Stage : tries'[k] # <<>> => tries[k] # <<>>
  <2>1. CASE tries' = tries
    BY <2>1
  <2>2. CASE tries' = [tries EXCEPT ![cur[w]][att[w]] = "COMPLETED"]
    BY <2>2, SameAttempts
  <2> QED
    BY <2>1, <2>2 DEF Complete
<1> QED
  BY <1>1, <1>2, <1>3 DEF Complete, Quiet, row, Recording

\* The failure handlers are Quiet: they take no evidence back.
LEMMA QuietFail ==
    ASSUME TypeOK, NEW w \in Worker,
           FailStage(w) \/ FailAttempt(w) \/ FailExecution(w)
             \/ Except(w) \/ ExceptWrite(w)
    PROVE  Quiet(w)
<1> USE RowType, QuietGoto, QuietLeave DEF evidence, row, Quiet, Recording
<1>1. CASE FailStage(w)
  <2>1. [stage[cur[w]] EXCEPT !.status = "FAILED", !.response = None].link
          = stage[cur[w]].link
    BY DEF StageRow
  <2>2. \A k \in Stage : stage'[k].link = stage[k].link
    BY <1>1, <2>1, SameLinks DEF FailStage
  <2> QED
    BY <1>1, <2>2 DEF FailStage
<1>2. CASE FailAttempt(w)
  BY <1>2, SameAttempts DEF FailAttempt
<1>3. CASE FailExecution(w)
  BY <1>3 DEF FailExecution
<1>4. CASE Except(w)
  BY <1>4 DEF Except
<1>5. CASE ExceptWrite(w)
  BY <1>5 DEF ExceptWrite
<1> QED
  BY <1>1, <1>2, <1>3, <1>4, <1>5

\* The faults are Quiet.
LEMMA QuietFault ==
    ASSUME TypeOK, NEW w \in Worker, Fault(w)
    PROVE  Quiet(w)
<1> USE QuietGoto, QuietLeave DEF evidence, row, Quiet, Recording
<1>1. CASE OwnerFails(w)
  BY <1>1 DEF OwnerFails
<1>2. CASE LeaseTimeout(w)
  BY <1>2 DEF LeaseTimeout
<1>3. CASE StoreFails(w)
  BY <1>3 DEF StoreFails, Raise
<1>4. CASE Crash(w)
  BY <1>4 DEF Crash
<1> QED
  BY <1>1, <1>2, <1>3, <1>4 DEF Fault

-----------------------------------------------------------------------------
(* The steps that record evidence.                                          *)

\* An attempt is opened only at the worker's own frontier.
LEMMA BeginInv ==
    ASSUME IInv, TypeOK', NEW w \in Worker, Begin(w)
    PROVE  IInv'
<1> USE RowType DEF IInv
<1>1. Others(w) /\ cur'[w] = cur[w] /\ pc'[w] = "began"
  BY QuietGoto DEF Begin
<1>2. \A k : Checkpointed(k)' <=> Checkpointed(k)
  BY DEF Begin, Checkpointed
<1>3. \A a : Recorded(a)' <=> Recorded(a)
  BY DEF Begin, Recorded
<1>4. CheckpointBeforeNext'
  <2>1. \A k \in Stage : tries'[k] # <<>> => tries[k] # <<>> \/ k = cur[w]
    BY DEF Begin, TypeOK
  <2> QED
    BY <1>2, <2>1 DEF CheckpointBeforeNext, Frontier
<1>5. \A k \in Stage : stage'[k].link = stage[k].link
  <2>1. [stage[cur[w]] EXCEPT !.status = "RUNNING", !.request = carry[w],
                              !.response = None].link = stage[cur[w]].link
    BY DEF StageRow
  <2> QED
    BY <2>1, SameLinks DEF Begin
<1>6. Linked'
  BY <1>3, <1>5 DEF Linked
<1>7. ItemOK' /\ Frontier' /\ FinishOK'
  BY <1>1, <1>2, <1>3 DEF ItemOK, Frontier, FinishOK, Others, Recording, Begin, row
<1>8. SealedIsRecorded'
  BY DEF SealedIsRecorded, Begin, row
<1> QED
  BY <1>4, <1>6, <1>7, <1>8

\* Advancing past a checkpointed stage keeps the frontier.
LEMMA AdvanceFrontier ==
    ASSUME IInv, NEW w \in Worker, Advance(w),
           \A k : Checkpointed(k) => Checkpointed(k)',
           NEW here, here = cur[w], Checkpointed(here)'
    PROVE  Frontier' /\ Others(w) /\ pc'[w] \in {"seal", "begin"}
<1> USE DEF IInv
<1>1. Others(w) /\ pc'[w] \in {"seal", "begin"} /\ cur'[w] \in {cur[w], cur[w] + 1}
  BY DEF Advance, Goto, TypeOK, Others
<1>2. \A j \in 1..(cur'[w] - 1) : j \in 1..(cur[w] - 1) \/ j = here
  BY <1>1 DEF TypeOK, Stage
<1>3. ASSUME NEW v \in Worker, NEW j \in 1..(cur'[v] - 1) PROVE Checkpointed(j)'
  <2>1. CASE v = w
    <3>1. CASE j = here
      BY <3>1
    <3>2. CASE j \in 1..(cur[w] - 1)
      <4>1. Checkpointed(j)
        BY <3>2 DEF Frontier
      <4> QED
        BY <4>1
    <3> QED
      BY <1>2, <1>3, <2>1, <3>1, <3>2
  <2>2. CASE v # w
    <3>1. Checkpointed(j)
      BY <1>1, <1>3, <2>2 DEF Frontier, Others
    <3> QED
      BY <3>1
  <2> QED
    BY <2>1, <2>2
<1>4. ASSUME NEW v \in Worker, pc'[v] = "report" PROVE Checkpointed(cur[v])'
  <2>1. v # w
    BY <1>1, <1>4
  <2>2. Checkpointed(cur[v]) /\ cur'[v] = cur[v]
    BY <1>1, <1>4, <2>1 DEF Frontier, Others
  <2>3. \A k : k = cur[v] => Checkpointed(k)'
    BY <2>2
  <2> QED
    BY <2>2, <2>3 DEF Checkpointed
<1> QED
  BY <1>1, <1>3, <1>4 DEF Frontier

\* A step that changes nothing but the worker's locals and ends at a label
\* whose claims hold.
LEMMA LocalInv ==
    ASSUME IInv, TypeOK', NEW w \in Worker, UNCHANGED <<row, evidence>>,
           Others(w), Frontier',
           pc'[w] \in Recording =>
             \/ item'[w] \in StageArtifact /\ item'[w].stage = cur'[w]
             \/ /\ item'[w] \in ReplayArtifact
                /\ \A k \in Stage : /\ k <= Len(lineage)
                                    /\ lineage[k] = item'[w].stages[k],
           pc'[w] = "link" => Recorded(item'[w]),
           pc'[w] # "finish"
    PROVE  IInv'
<1> USE DEF IInv, row, evidence
<1>1. \A a : Recorded(a)' <=> Recorded(a)
  BY DEF Recorded
<1>2. \A k : Checkpointed(k)' <=> Checkpointed(k)
  BY DEF Checkpointed
<1>3. ItemOK'
  BY <1>1 DEF ItemOK, Others
<1>4. FinishOK'
  BY DEF FinishOK, Others
<1>5. Linked' /\ CheckpointBeforeNext' /\ SealedIsRecorded'
  BY <1>1, <1>2 DEF Linked, CheckpointBeforeNext, SealedIsRecorded
<1> QED
  BY <1>3, <1>4, <1>5

\* Where nothing of the lineage changes and the worker stays at its stage.
LEMMA FrontierStays ==
    ASSUME IInv, NEW w \in Worker, lineage' = lineage, Others(w),
           cur'[w] = cur[w], pc'[w] = "report" => Checkpointed(cur[w])
    PROVE  Frontier'
BY DEF IInv, Frontier, Others, Checkpointed

\* A linked stage is checkpointed.
LEMMA LinkedCheckpoint ==
    ASSUME IInv, NEW k \in Stage, stage[k].link # None
    PROVE  Checkpointed(k)
<1> USE DEF IInv
<1>1. stage[k].link \in StageArtifact
  BY DEF TypeOK, StageRow
<1>2. Recorded(stage[k].link) /\ stage[k].link.stage = k
  BY DEF Linked
<1> QED
  BY <1>1, <1>2, RecordedCheckpoint

\* A worker that has to record a stage holds the artifact of that stage.
LEMMA MaterializeItem ==
    ASSUME IInv, NEW w \in Worker, NEW next, Materialize(w, next),
           stage[cur[w]].link = None
    PROVE  /\ Others(w) /\ cur'[w] = cur[w] /\ pc'[w] = "put"
           /\ item'[w] \in StageArtifact /\ item'[w].stage = cur'[w]
BY RowType, ContentsType DEF IInv, Materialize, TypeOK, Goto, Others

\* Handing a COMPLETED row to _materialize_stage keeps the invariant: a row
\* that needs no artifact is checkpointed already.
LEMMA ReuseInv ==
    ASSUME IInv, TypeOK', NEW w \in Worker,
           Reuse(w) \/ ReadCompleted(w) \/ \E r \in Response : RepeatComplete(w, r)
    PROVE  IInv'
<1> USE RowType DEF IInv
<1>1. UNCHANGED <<row, evidence>>
  BY DEF Reuse, ReadCompleted, RepeatComplete
<1>2. CASE stage[cur[w]].link = None
  <2>1. /\ Others(w) /\ cur'[w] = cur[w] /\ pc'[w] = "put"
        /\ item'[w] \in StageArtifact /\ item'[w].stage = cur'[w]
    BY <1>2, MaterializeItem DEF Reuse, ReadCompleted, RepeatComplete
  <2>2. Frontier'
    BY <1>1, <2>1, FrontierStays DEF evidence
  <2> QED
    BY <1>1, <2>1, <2>2, LocalInv
<1>3. CASE stage[cur[w]].link # None
  <2>1. Checkpointed(cur[w]) /\ \A k : Checkpointed(k)' <=> Checkpointed(k)
    BY <1>1, <1>3, LinkedCheckpoint DEF evidence, Checkpointed
  <2>2. CASE Reuse(w)
    <3>1. Advance(w)
      BY <1>3, <2>2 DEF Reuse, Materialize
    <3>2. \A k : k = cur[w] => Checkpointed(k)'
      BY <2>1
    <3>3. Frontier' /\ Others(w) /\ pc'[w] \in {"seal", "begin"}
      <4>1. PICK here : here = cur[w]
        OBVIOUS
      <4>2. Checkpointed(here)'
        BY <3>2, <4>1
      <4> QED
        BY <2>1, <3>1, <4>1, <4>2, AdvanceFrontier
    <3> QED
      BY <1>1, <3>3, LocalInv DEF Recording
  <2>3. CASE ReadCompleted(w) \/ \E r \in Response : RepeatComplete(w, r)
    <3>1. ToReport(w)
      BY <1>3, <2>3 DEF ReadCompleted, RepeatComplete, Materialize
    <3>2. Others(w) /\ cur'[w] = cur[w] /\ pc'[w] = "report"
      BY <3>1, QuietGoto DEF ToReport
    <3>3. Frontier'
      BY <1>1, <2>1, <3>2, FrontierStays DEF evidence
    <3> QED
      BY <1>1, <3>2, <3>3, LocalInv DEF Recording
  <2> QED
    BY <2>2, <2>3
<1> QED
  BY <1>2, <1>3

\* PutArtifact only decides where the worker goes.
LEMMA PutInv ==
    ASSUME IInv, TypeOK', NEW w \in Worker, PutArtifact(w)
    PROVE  IInv'
<1>1. Others(w) /\ cur'[w] = cur[w] /\ item' = item
      /\ pc'[w] \in {"link", "append"}
  BY QuietGoto DEF PutArtifact, IInv
<1>2. UNCHANGED <<row, evidence>>
  BY DEF PutArtifact
<1>3. Frontier'
  BY <1>1, <1>2, FrontierStays DEF evidence
<1>4. pc[w] = "put" /\ (pc'[w] = "link" => Recorded(item[w]))
  BY <1>1, QuietGoto DEF PutArtifact, IInv
<1>5. \/ item'[w] \in StageArtifact /\ item'[w].stage = cur'[w]
      \/ /\ item'[w] \in ReplayArtifact
         /\ \A k \in Stage : /\ k <= Len(lineage)
                             /\ lineage[k] = item'[w].stages[k]
  BY <1>1, <1>4 DEF IInv, ItemOK, Recording
<1> QED
  BY <1>1, <1>2, <1>3, <1>4, <1>5, LocalInv

\* An append extends the lineage with the worker's own artifact.
LEMMA AppendInv ==
    ASSUME IInv, TypeOK', NEW w \in Worker, AppendLineage(w)
    PROVE  IInv'
<1> USE DEF IInv
<1>1. CASE Recorded(item[w])
  <2>1. Raise(w) /\ UNCHANGED <<row, evidence, cur, item>>
    BY <1>1 DEF AppendLineage, evidence
  <2>2. Others(w) /\ cur'[w] = cur[w] /\ pc'[w] \in {"fail", "except"}
    BY <2>1, QuietGoto DEF Raise
  <2>3. Quiet(w)
    BY <2>1, <2>2 DEF Quiet, row, evidence, Recording
  <2> QED
    BY <2>3, QuietKeeps
<1>2. CASE ~Recorded(item[w])
  <2>1. /\ pc[w] = "append" /\ lineage' = Append(lineage, item[w])
        /\ Goto(w, "link") /\ UNCHANGED <<row, stage, tries, cur, item>>
    BY <1>2 DEF AppendLineage
  <2>2. Others(w) /\ cur'[w] = cur[w] /\ pc'[w] = "link"
    BY <2>1, QuietGoto
  <2>3. item[w] \in Artifact
    BY <2>1, HeldType DEF Recording
  <2>4. Grows
    BY <2>1, <2>3 DEF Grows, TypeOK
  <2>5. Recorded(item[w])' /\ item' = item
    <3>1. lineage'[Len(lineage) + 1] = item[w] /\ Len(lineage') = Len(lineage) + 1
          /\ Len(lineage) \in Nat
      BY <2>1, <2>3 DEF TypeOK
    <3>2. Len(lineage) + 1 \in 1..Len(lineage')
      BY <3>1
    <3> QED
      BY <2>1, <3>1, <3>2 DEF Recorded
  <2>6. ItemOK'
    <3>1. ASSUME NEW v \in Worker, pc'[v] \in Recording
          PROVE  \/ item[v] \in StageArtifact /\ item[v].stage = cur[v]
                 \/ /\ item[v] \in ReplayArtifact
                    /\ \A k \in Stage : /\ k <= Len(lineage')
                                        /\ lineage'[k] = item[v].stages[k]
      <4>1. pc[v] \in Recording
        BY <2>1, <2>2, <3>1 DEF Others, Recording
      <4> QED
        BY <2>4, <4>1, Persist DEF ItemOK
    <3>2. ASSUME NEW v \in Worker, pc'[v] = "link" PROVE Recorded(item[v])'
      <4>1. CASE v = w
        BY <2>5, <4>1
      <4>2. CASE v # w
        <5>1. Recorded(item[v]) /\ item'[v] = item[v]
          BY <2>1, <2>2, <3>2, <4>2 DEF Others, ItemOK
        <5> QED
          BY <2>4, <5>1, Persist DEF Recorded
      <4> QED
        BY <4>1, <4>2
    <3> QED
      BY <2>1, <3>1, <3>2 DEF ItemOK
  <2>7. Frontier'
    <3>1. \A v \in Worker : cur'[v] = cur[v] /\ (pc'[v] = "report" => pc[v] = "report")
      BY <2>1, <2>2 DEF Others
    <3>2. \A k : Checkpointed(k) => Checkpointed(k)'
      BY <2>4, Persist
    <3>3. \A v \in Worker : pc'[v] = "report" => Checkpointed(cur[v])'
      <4>1. ASSUME NEW v \in Worker, NEW k, k = cur[v], pc'[v] = "report"
            PROVE  Checkpointed(k)'
        BY <3>1, <3>2, <4>1 DEF Frontier
      <4> QED
        BY <2>1, <4>1 DEF Checkpointed
    <3> QED
      BY <2>1, <3>1, <3>2, <3>3 DEF Frontier
  <2>8. Linked'
    <3>1. \A a : Recorded(a) => Recorded(a)'
      BY <2>4, Persist
    <3>2. ASSUME NEW k \in Stage, stage[k].link # None
          PROVE  stage[k].link.stage = k /\ Recorded(stage[k].link)'
      <4>1. PICK a : a = stage[k].link
        OBVIOUS
      <4>2. Recorded(a)'
        BY <3>1, <3>2, <4>1 DEF Linked
      <4> QED
        BY <2>1, <3>2, <4>1, <4>2 DEF Linked, Recorded
    <3> QED
      BY <2>1, <3>2 DEF Linked
  <2>9. FinishOK'
    BY <2>1, <2>2 DEF FinishOK, Others, row
  <2>10. CheckpointBeforeNext'
    BY <2>1, <2>4, Persist DEF CheckpointBeforeNext
  <2>11. SealedIsRecorded'
    BY <2>1, <2>4, Persist DEF SealedIsRecorded, row
  <2> QED
    BY <2>6, <2>7, <2>8, <2>9, <2>10, <2>11
<1> QED
  BY <1>1, <1>2

\* Linking a row to a recorded artifact of that stage, and what follows.
LEMMA LinkInv ==
    ASSUME IInv, TypeOK', NEW w \in Worker, LinkArtifact(w)
    PROVE  IInv'
<1> USE DEF IInv
<1>1. CASE stage[cur[w]].status # "COMPLETED"
  <2>1. Raise(w) /\ UNCHANGED <<row, evidence, cur, item>>
    BY <1>1 DEF LinkArtifact, evidence
  <2>2. Others(w) /\ cur'[w] = cur[w] /\ pc'[w] \in {"fail", "except"}
    BY <2>1, QuietGoto DEF Raise
  <2>3. Quiet(w)
    BY <2>1, <2>2 DEF Quiet, row, evidence, Recording
  <2> QED
    BY <2>3, QuietKeeps
<1>2. CASE stage[cur[w]].status = "COMPLETED"
  <2>1. /\ pc[w] = "link" /\ UNCHANGED <<row, tries, lineage>>
        /\ stage' = [stage EXCEPT ![cur[w]] = [@ EXCEPT !.link = item[w]]]
        /\ Advance(w) \/ ToReport(w)
    <3>1. pc[w] = "link" /\ UNCHANGED <<row, tries, lineage>>
      BY DEF LinkArtifact
    <3>2. /\ stage' = [stage EXCEPT ![cur[w]] = [@ EXCEPT !.link = item[w]]]
          /\ IF att[w] = 0 THEN Advance(w) ELSE ToReport(w)
      BY <1>2, Zenon DEF LinkArtifact
    <3> QED
      BY <3>1, <3>2
  <2>2. /\ item[w] \in StageArtifact /\ item[w].stage = cur[w]
        /\ Recorded(item[w]) /\ Checkpointed(cur[w])
    <3>1. item[w].type = "stage" /\ pc[w] = "link"
      BY DEF LinkArtifact
    <3>2. item[w] \in StageArtifact /\ item[w].stage = cur[w] /\ Recorded(item[w])
      BY <3>1, HeldType DEF Recording, ItemOK
    <3> QED
      BY <3>2, RecordedCheckpoint
  <2>3. (\A k : Checkpointed(k)' <=> Checkpointed(k))
        /\ (\A a : Recorded(a)' <=> Recorded(a))
    BY <2>1 DEF Checkpointed, Recorded
  <2>4. Frontier' /\ Others(w) /\ pc'[w] \in {"seal", "begin", "report"}
    <3>1. CASE Advance(w)
      <4>1. PICK here : here = cur[w]
        OBVIOUS
      <4>2. Checkpointed(here)'
        BY <2>2, <2>3, <4>1
      <4> QED
        BY <2>3, <3>1, <4>1, <4>2, AdvanceFrontier
    <3>2. CASE ToReport(w)
      <4>1. Others(w) /\ cur'[w] = cur[w] /\ pc'[w] = "report"
        BY <3>2, QuietGoto DEF ToReport
      <4> QED
        BY <2>1, <2>2, <4>1, FrontierStays
    <3> QED
      BY <2>1, <3>1, <3>2
  <2>5. Linked'
    <3>1. \A k \in Stage : stage'[k].link = stage[k].link
                           \/ (k = cur[w] /\ stage'[k].link = item[w])
      <4> DEFINE new == [stage[cur[w]] EXCEPT !.link = item[w]]
      <4>1. new.link = item[w]
        BY RowType DEF StageRow
      <4>2. stage' = [stage EXCEPT ![cur[w]] = new]
        BY <2>1
      <4> HIDE DEF new
      <4> QED
        BY <4>1, <4>2, RowType DEF TypeOK
    <3> QED
      BY <2>2, <2>3, <3>1 DEF Linked
  <2>6. ItemOK' /\ FinishOK'
    BY <2>1, <2>3, <2>4 DEF ItemOK, FinishOK, Others, Recording, row
  <2>7. CheckpointBeforeNext' /\ SealedIsRecorded'
    BY <2>1, <2>3 DEF CheckpointBeforeNext, SealedIsRecorded, row
  <2> QED
    BY <2>4, <2>5, <2>6, <2>7
<1> QED
  BY <1>1, <1>2

\* Report moves past a stage its worker has checkpointed.
LEMMA ReportInv ==
    ASSUME IInv, TypeOK', NEW w \in Worker, Report(w)
    PROVE  IInv'
<1>1. UNCHANGED <<row, evidence>> /\ Advance(w) /\ Checkpointed(cur[w])
  BY DEF Report, IInv, Frontier
<1>2. PICK here : here = cur[w]
  OBVIOUS
<1>3. (\A k : Checkpointed(k) => Checkpointed(k)') /\ Checkpointed(here)'
  BY <1>1, <1>2 DEF evidence, Checkpointed
<1>4. Frontier' /\ Others(w) /\ pc'[w] \in {"seal", "begin"}
  BY <1>1, <1>2, <1>3, AdvanceFrontier
<1> QED
  BY <1>1, <1>4, LocalInv DEF Recording

\* The package a worker sets out to record is the lineage's prefix, and the
\* one it sets is the one it recorded.
LEMMA SealInv ==
    ASSUME IInv, TypeOK', NEW w \in Worker,
           (Seal(w) /\ Sealable) \/ SetPackage(w) \/ Finish(w)
    PROVE  IInv'
<1> USE DEF IInv
<1>1. CASE Seal(w) /\ Sealable
  <2>1. /\ UNCHANGED <<row, evidence>> /\ Goto(w, "put") /\ cur' = cur
        /\ item' = [item EXCEPT ![w] =
             [type |-> "replay", stages |-> [k \in Stage |-> Contents(k)]]]
    BY <1>1 DEF Seal
  <2>2. Others(w) /\ pc'[w] = "put" /\ cur'[w] = cur[w]
    BY <2>1 DEF TypeOK, Goto, Others
  <2>3. /\ item'[w] \in ReplayArtifact
        /\ \A k \in Stage : item'[w].stages[k] = Contents(k)
    <3>1. [k \in Stage |-> Contents(k)] \in Package
      BY ContentsType DEF Package
    <3> QED
      BY <2>1, <3>1 DEF TypeOK, ReplayArtifact
  <2>4. \A k \in Stage : k <= Len(lineage) /\ lineage[k] = item'[w].stages[k]
    BY <1>1, <2>3 DEF Sealable
  <2>5. Frontier'
    BY <2>1, <2>2, FrontierStays DEF evidence
  <2> QED
    BY <2>1, <2>2, <2>3, <2>4, <2>5, LocalInv
<1>2. CASE SetPackage(w)
  <2>1. /\ UNCHANGED <<status, evidence, cur, item>> /\ Goto(w, "finish")
        /\ pc[w] = "link" /\ item[w].type = "replay" /\ package' = item[w].stages
    BY <1>2 DEF SetPackage
  <2>2. Others(w) /\ pc'[w] = "finish" /\ cur'[w] = cur[w]
    BY <2>1, QuietGoto
  <2>3. /\ item[w] \in ReplayArtifact
        /\ \A k \in Stage : k <= Len(lineage) /\ lineage[k] = item[w].stages[k]
    BY <2>1, HeldType DEF Recording
  <2>4. package' # None
    BY <2>1, <2>3, NoneAssumption DEF ReplayArtifact
  <2>5. (\A k : Checkpointed(k)' <=> Checkpointed(k))
        /\ (\A a : Recorded(a)' <=> Recorded(a))
    BY <2>1 DEF evidence, Checkpointed, Recorded
  <2>6. Frontier'
    BY <2>1, <2>2, FrontierStays DEF evidence
  <2>7. ItemOK' /\ Linked' /\ CheckpointBeforeNext'
    BY <2>1, <2>2, <2>5
    DEF ItemOK, Linked, CheckpointBeforeNext, Others, Recording, evidence
  <2>8. FinishOK' /\ SealedIsRecorded'
    BY <2>1, <2>3, <2>4 DEF FinishOK, SealedIsRecorded, evidence
  <2> QED
    BY <2>6, <2>7, <2>8
<1>3. CASE Finish(w)
  <2>1. /\ UNCHANGED <<package, evidence, cur, item>> /\ Goto(w, "finished")
        /\ pc[w] = "finish"
    BY <1>3 DEF Finish
  <2>2. Others(w) /\ pc'[w] = "finished" /\ cur'[w] = cur[w]
    BY <2>1, QuietGoto
  <2>3. (\A k : Checkpointed(k)' <=> Checkpointed(k))
        /\ (\A a : Recorded(a)' <=> Recorded(a))
    BY <2>1 DEF evidence, Checkpointed, Recorded
  <2>4. Frontier'
    BY <2>1, <2>2, FrontierStays DEF evidence
  <2>5. ItemOK' /\ Linked' /\ CheckpointBeforeNext'
    BY <2>1, <2>2, <2>3
    DEF ItemOK, Linked, CheckpointBeforeNext, Others, Recording, evidence
  <2>6. FinishOK' /\ SealedIsRecorded'
    BY <2>1, <2>2 DEF FinishOK, SealedIsRecorded, Others, evidence
  <2> QED
    BY <2>4, <2>5, <2>6
<1> QED
  BY <1>1, <1>2, <1>3

\* Every step keeps the inductive invariant.
LEMMA StepInv ==
    ASSUME IInv, [Next]_vars
    PROVE  IInv'
<1>1. TypeOK /\ TypeOK'
  BY StepType DEF IInv
<1>2. CASE UNCHANGED vars
  BY <1>1, <1>2
  DEF vars, row, evidence, local, IInv, ItemOK, Frontier, Linked, FinishOK,
      CheckpointBeforeNext, SealedIsRecorded, Checkpointed, Recorded
<1>3. ASSUME NEW w \in Worker,
             Execute(w) \/ Recover(w) \/ Step(w) \/ Fault(w)
      PROVE  IInv'
  <2>1. CASE Execute(w) \/ RecordCapability(w) \/ Recover(w) \/ MarkRecovering(w)
               \/ ReadAttempt(w) \/ MarkStage(w) \/ Return(w)
               \/ (Seal(w) /\ ~Sealable)
    BY <1>1, <2>1, QuietEntry, QuietKeeps
  <2>2. CASE \E r \in Response : Complete(w, r)
    BY <1>1, <2>2, QuietComplete, QuietKeeps
  <2>3. CASE FailStage(w) \/ FailAttempt(w) \/ FailExecution(w) \/ Except(w)
               \/ ExceptWrite(w)
    BY <1>1, <2>3, QuietFail, QuietKeeps
  <2>4. CASE Fault(w)
    BY <1>1, <2>4, QuietFault, QuietKeeps
  <2>5. CASE Begin(w)
    BY <1>1, <2>5, BeginInv
  <2>6. CASE Reuse(w) \/ ReadCompleted(w) \/ \E r \in Response : RepeatComplete(w, r)
    BY <1>1, <2>6, ReuseInv
  <2>7. CASE PutArtifact(w)
    BY <1>1, <2>7, PutInv
  <2>8. CASE AppendLineage(w)
    BY <1>1, <2>8, AppendInv
  <2>9. CASE LinkArtifact(w)
    BY <1>1, <2>9, LinkInv
  <2>10. CASE Report(w)
    BY <1>1, <2>10, ReportInv
  <2>11. CASE (Seal(w) /\ Sealable) \/ SetPackage(w) \/ Finish(w)
    BY <1>1, <2>11, SealInv
  <2>12. ASSUME Step(w) PROVE IInv'
    BY <2>1, <2>2, <2>3, <2>5, <2>6, <2>7, <2>8, <2>9, <2>10, <2>11, <2>12, Zenon
    DEF Step
  <2> QED
    BY <1>3, <2>1, <2>4, <2>12
<1> QED
  BY <1>2, <1>3 DEF Next

\* The package a worker is about to set repeats the lineage, and so does the
\* package that is there already: they are the same function on Stage.
LEMMA PackageKept ==
    ASSUME IInv, [Next]_vars, package # None
    PROVE  package' = package
<1> USE DEF IInv
<1>1. package \in Package /\ \A k \in Stage : package[k] = lineage[k]
  BY DEF TypeOK, SealedIsRecorded
<1>2. ASSUME NEW w \in Worker, SetPackage(w) PROVE package' = package
  <2>1. /\ item[w] \in ReplayArtifact
        /\ \A k \in Stage : lineage[k] = item[w].stages[k]
    BY <1>2, HeldType DEF SetPackage, Recording
  <2>2. item[w].stages \in Package /\ package' = item[w].stages
    BY <1>2, <2>1 DEF ReplayArtifact, SetPackage
  <2> QED
    BY <1>1, <2>1, <2>2 DEF Package
<1>3. ASSUME NEW w \in Worker, Begin(w) \/ Reuse(w) \/ ReadCompleted(w)
               \/ (\E r \in Response : RepeatComplete(w, r))
               \/ PutArtifact(w) \/ AppendLineage(w) \/ LinkArtifact(w)
               \/ Report(w) \/ (Seal(w) /\ Sealable) \/ Finish(w)
      PROVE  package' = package
  BY <1>3 DEF Begin, Reuse, ReadCompleted, RepeatComplete, PutArtifact, AppendLineage,
              LinkArtifact, Report, Seal, Finish, row
<1>4. ASSUME NEW w \in Worker, Quiet(w) PROVE package' = package
  BY <1>4 DEF Quiet
<1>5. ASSUME NEW w \in Worker, Execute(w) \/ Recover(w) \/ Step(w) \/ Fault(w)
      PROVE  package' = package
  BY <1>2, <1>3, <1>4, <1>5, QuietEntry, QuietComplete, QuietFail, QuietFault
  DEF Step
<1> QED
  BY <1>5 DEF Next, vars, row

\* Of the steps that write a stage row only an owner's answer records a
\* response, and it leaves a COMPLETED row alone.
LEMMA ResponseKept ==
    ASSUME TypeOK, [Next]_vars, NEW k \in Stage,
           stage[k].status = "COMPLETED", stage'[k].status = "COMPLETED"
    PROVE  stage'[k].response = stage[k].response
<1> USE RowType
<1>1. ASSUME NEW w \in Worker, NEW r \in Response, Complete(w, r)
      PROVE  stage'[k].response = stage[k].response
  <2>1. CASE k = cur[w]
    BY <1>1, <2>1 DEF Complete
  <2>2. CASE k # cur[w]
    <3>1. \/ stage' = stage
          \/ \E new : stage' = [stage EXCEPT ![cur[w]] = new]
      BY <1>1 DEF Complete
    <3> QED
      BY <2>2, <3>1 DEF TypeOK
  <2> QED
    BY <2>1, <2>2
<1>2. ASSUME NEW w \in Worker, Begin(w)
      PROVE  stage'[k].response = stage[k].response
  BY <1>2 DEF Begin, TypeOK, StageRow
<1>3. ASSUME NEW w \in Worker, LinkArtifact(w)
      PROVE  stage'[k].response = stage[k].response
  <2> DEFINE new == [stage[cur[w]] EXCEPT !.link = item[w]]
  <2>1. new.response = stage[cur[w]].response
    BY DEF StageRow
  <2>2. stage' = stage \/ stage' = [stage EXCEPT ![cur[w]] = new]
    BY <1>3 DEF LinkArtifact
  <2> HIDE DEF new
  <2> QED
    BY <2>1, <2>2 DEF TypeOK
<1>4. ASSUME NEW w \in Worker, FailStage(w)
      PROVE  stage'[k].response = stage[k].response
  BY <1>4 DEF FailStage, TypeOK, StageRow
<1>5. ASSUME NEW w \in Worker, Execute(w) \/ Recover(w) \/ Step(w) \/ Fault(w)
      PROVE  stage' = stage \/ Begin(w) \/ LinkArtifact(w) \/ FailStage(w)
               \/ \E r \in Response : Complete(w, r)
  BY <1>5
  DEF Step, Fault, Execute, RecordCapability, Recover, MarkRecovering, Reuse,
      ReadAttempt, MarkStage, ReadCompleted, RepeatComplete, PutArtifact, AppendLineage, Report,
      Seal, SetPackage, Finish, Return, FailAttempt, FailExecution, Except,
      ExceptWrite, OwnerFails, LeaseTimeout, StoreFails, Crash, evidence
<1> QED
  BY <1>1, <1>2, <1>3, <1>4, <1>5 DEF Next, vars, evidence

-----------------------------------------------------------------------------

\* In every reachable state the inductive invariant holds.
THEOREM Inductive == Spec => []IInv
<1>1. Init => IInv
  BY InitInv
<1>2. IInv /\ [Next]_vars => IInv'
  BY StepInv
<1> QED
  BY <1>1, <1>2, PTL DEF Spec

\* The rows, the lineage and the workers' locals are typed in every reachable
\* state, whatever the number of workers, stages and faults.
THEOREM TypeCorrect == Spec => []TypeOK
<1>1. IInv => TypeOK
  BY DEF IInv
<1> QED
  BY <1>1, Inductive, PTL

\* No owner of stage k is ever called before stages 1..k-1 have left their
\* evidence in the lineage, for every interleaving of workers and faults.
THEOREM EvidenceFirst == Spec => []CheckpointBeforeNext
<1>1. IInv => CheckpointBeforeNext
  BY DEF IInv
<1> QED
  BY <1>1, Inductive, PTL

\* A sealed replay package is always the lineage's own prefix, and a COMPLETED
\* execution has one.
THEOREM SealSound == Spec => []SealedIsRecorded
<1>1. IInv => SealedIsRecorded
  BY DEF IInv
<1> QED
  BY <1>1, Inductive, PTL

\* A sealed package is never replaced by another, however many workers seal.
THEOREM SealFinal == Spec => SealIsFinal
<1>1. IInv /\ [Next]_vars => [package # None => package' = package]_vars
  BY PackageKept
<1> QED
  BY <1>1, Inductive, PTL DEF Spec, SealIsFinal

\* The response of a stage that stays COMPLETED is never replaced: what later
\* stages were built from is what the row goes on saying.
THEOREM ResponseFixed == Spec => CompletedResponseFixed
<1>1. IInv /\ [Next]_vars =>
        [\A k \in Stage :
            stage[k].status = "COMPLETED" /\ stage'[k].status = "COMPLETED"
              => stage'[k].response = stage[k].response]_vars
  BY ResponseKept DEF IInv
<1> QED
  BY <1>1, Inductive, PTL DEF Spec, CompletedResponseFixed
-----------------------------------------------------------------------------
(* Who drives an execution.                                                 *)

\* Without faults an execution that is not over has a worker that will yet write
\* its status.
Driven ==
    faults = 0 /\ status \in {"PENDING", "RUNNING"}
        => \E w \in Worker : pc[w] \notin {"idle", "finished"}

\* Whoever marks the execution goes on with it.
LEMMA DrivenStep == TypeOK /\ Driven /\ [Next]_vars => Driven'
<1> SUFFICES ASSUME TypeOK, Driven, [Next]_vars, faults' = 0, status' \in {"PENDING", "RUNNING"}
             PROVE  \E w \in Worker : pc'[w] \notin {"idle", "finished"}
  BY DEF Driven
<1>1. CASE UNCHANGED vars
  BY <1>1 DEF vars, row, local, Driven
<1>2. ASSUME NEW w \in Worker, Execute(w) \/ Recover(w) \/ Step(w)
      PROVE  \E v \in Worker : pc'[v] \notin {"idle", "finished"}
  <2>1. faults = 0 /\ pc \in [Worker -> Control]
    BY <1>2 DEF TypeOK, Execute, Recover, Step, RecordCapability, MarkRecovering, Reuse, Begin,
       ReadAttempt, MarkStage, Complete, RepeatComplete, ReadCompleted, PutArtifact,
       AppendLineage, LinkArtifact, Report, Seal, SetPackage, Finish, Return, FailStage,
       FailAttempt, FailExecution, Except, ExceptWrite
  <2>2. CASE Finish(w) \/ ExceptWrite(w) \/ FailExecution(w)
    BY <2>2 DEF Finish, ExceptWrite, FailExecution
  <2>3. CASE Return(w)
    <3>1. pc[w] = "finished" /\ status' = status /\ pc' = [pc EXCEPT ![w] = "idle"]
      BY <2>3 DEF Return, Leave, Goto, row
    <3> QED
      BY <2>1, <3>1 DEF Driven
  <2>4. CASE Except(w)
    <3>1. status' = status /\ pc' = [pc EXCEPT ![w] = "exceptWrite"]
      BY <2>4 DEF Except, row, Goto
    <3> QED
      BY <2>1, <3>1
  <2>5. CASE \/ Execute(w) \/ Recover(w) \/ RecordCapability(w) \/ MarkRecovering(w)
             \/ Begin(w) \/ ReadAttempt(w) \/ MarkStage(w) \/ PutArtifact(w) \/ AppendLineage(w)
             \/ Report(w) \/ Seal(w) \/ SetPackage(w) \/ FailStage(w) \/ FailAttempt(w)
             \/ \E r \in Response : Complete(w, r)
    <3>1. \E l \in Control \ {"idle", "finished"} : Goto(w, l)
      BY <2>5 DEF Execute, Recover, RecordCapability, MarkRecovering, Begin, ReadAttempt,
         MarkStage, PutArtifact, AppendLineage, Report, Seal, SetPackage, FailStage, FailAttempt,
         Complete, Advance, Raise, Control, InTry, Outside, Failing, Handling
    <3> QED
      BY <2>1, <3>1 DEF Goto
  <2>6. CASE \/ Reuse(w) \/ ReadCompleted(w) \/ LinkArtifact(w)
             \/ \E r \in Response : RepeatComplete(w, r)
    <3>1. \/ \E l \in Control \ {"idle", "finished"} : Goto(w, l)
      BY <2>6 DEF Reuse, ReadCompleted, LinkArtifact, RepeatComplete, Materialize, Advance,
         ToReport, Raise, Control, InTry, Outside, Failing, Handling
    <3> QED
      BY <2>1, <3>1 DEF Goto
  <2> QED
    BY <1>2, <2>2, <2>3, <2>4, <2>5, <2>6 DEF Step
<1>3. ASSUME NEW w \in Worker, Fault(w) PROVE FALSE
  BY <1>3 DEF TypeOK, Fault, OwnerFails, LeaseTimeout, StoreFails, Crash, Strike
<1> QED
  BY <1>1, <1>2, <1>3 DEF Next

\* While no fault strikes, an execution is RUNNING only if a worker is driving it
\* (execute, recover, the handlers of _run_stage).
THEOREM RunningDriven == Spec => []RunningIsDriven
<1>1. Init => Driven
  BY DEF Init, Driven
<1>2. Driven => RunningIsDriven
  BY DEF Driven, RunningIsDriven
<1> QED
  BY <1>1, <1>2, DrivenStep, TypeCorrect, PTL DEF Spec
-----------------------------------------------------------------------------
(* One worker at a time, and a store that does not fail: no step is refused, *)
(* so an execution can be sealed wherever a crash has cut it off.            *)

\* The lineage is the COMPLETED stages in their order, then replay packages.
InOrder ==
    /\ \A k \in Stage : k <= Len(lineage) =>
           stage[k].status = "COMPLETED" /\ lineage[k] = Contents(k)
    /\ \A i \in 1..Len(lineage) : i \notin Stage => lineage[i].type = "replay"

\* A link repeats the entry of its stage.
LinkedInOrder ==
    \A k \in Stage : stage[k].link # None =>
        k <= Len(lineage) /\ stage[k].link = lineage[k]

\* A worker has linked the stages that it has passed, opens an attempt of a
\* stage that is not COMPLETED only, and writes what the row says now.
AloneOK(w) ==
    /\ \A j \in 1..(cur[w] - 1) : stage[j].link # None
    /\ pc[w] \in {"began", "mark", "call", "fail"} =>
         stage[cur[w]].status # "COMPLETED"
    /\ pc[w] = "reread" => stage[cur[w]].status = "COMPLETED"
    /\ pc[w] \in Recording =>
         \/ stage[cur[w]].status = "COMPLETED" /\ item[w] = Contents(cur[w])
         \/ item[w].type = "replay" /\ NStages <= Len(lineage)
    /\ pc[w] = "append" => ~Recorded(item[w])
    /\ pc[w] = "report" => stage[cur[w]].link # None
    /\ pc[w] = "seal" => \A k \in Stage : stage[k].link # None

SerialInv == InOrder /\ LinkedInOrder /\ \A w \in Worker : AloneOK(w)

\* What the steps of the only worker w may rely on.
Alone(w) ==
    /\ \A v \in Worker : v = w
    /\ IInv /\ TypeOK' /\ InOrder /\ LinkedInOrder /\ AloneOK(w)

\* A stage that is not COMPLETED has no entry and no link.
LEMMA OpenStage ==
    ASSUME TypeOK, InOrder, LinkedInOrder, NEW k \in Stage,
           stage[k].status # "COMPLETED"
    PROVE  ~(k <= Len(lineage)) /\ stage[k].link = None
BY DEF InOrder, LinkedInOrder

\* An entry that repeats a COMPLETED stage has that stage's place.
LEMMA PlaceOfStage ==
    ASSUME TypeOK, InOrder, NEW k \in Stage, Recorded(Contents(k))
    PROVE  k <= Len(lineage) /\ lineage[k] = Contents(k)
<1>1. PICK i \in 1..Len(lineage) : lineage[i] = Contents(k)
  BY DEF Recorded
<1>2. Contents(k).type = "stage" /\ Contents(k).stage = k
  BY ContentsType
<1>3. i \in Stage
  BY <1>1, <1>2 DEF InOrder
<1>4. i <= Len(lineage)
  BY <1>1 DEF TypeOK
<1>5. lineage[i] = Contents(i) /\ Contents(i).stage = i
  BY <1>3, <1>4, ContentsType DEF InOrder
<1> QED
  BY <1>1, <1>2, <1>4, <1>5

\* Rewriting a stage that is not COMPLETED disturbs neither lineage nor links.
LEMMA OpenRewrite ==
    ASSUME TypeOK, InOrder, LinkedInOrder, NEW k \in Stage,
           stage[k].status # "COMPLETED", lineage' = lineage,
           \A j \in Stage \ {k} : stage'[j] = stage[j] /\ tries'[j] = tries[j],
           stage'[k].link = stage[k].link
    PROVE  InOrder' /\ LinkedInOrder'
<1>1. ~(k <= Len(lineage)) /\ stage[k].link = None
  BY OpenStage
<1>2. \A j \in Stage \ {k} : Contents(j)' = Contents(j)
  BY DEF Contents
<1>3. ASSUME NEW j \in Stage, j <= Len(lineage')
      PROVE  stage'[j].status = "COMPLETED" /\ lineage'[j] = Contents(j)'
  <2>1. j # k
    BY <1>1, <1>3
  <2> QED
    BY <1>2, <1>3, <2>1 DEF InOrder
<1>4. ASSUME NEW j \in Stage, stage'[j].link # None
      PROVE  j <= Len(lineage') /\ stage'[j].link = lineage'[j]
  <2>1. j # k
    BY <1>1, <1>4
  <2> QED
    BY <1>4, <2>1 DEF LinkedInOrder
<1>5. \A i \in 1..Len(lineage') : i \notin Stage => lineage'[i].type = "replay"
  BY DEF InOrder
<1> QED
  BY <1>3, <1>4, <1>5 DEF InOrder, LinkedInOrder

\* Steps that leave rows, attempts and lineage alone keep them in order.
LEMMA EvidenceKept ==
    ASSUME UNCHANGED evidence
    PROVE  /\ InOrder => InOrder'
           /\ LinkedInOrder => LinkedInOrder'
           /\ \A k : Contents(k)' = Contents(k)
           /\ \A a : Recorded(a)' <=> Recorded(a)
<1>1. stage' = stage /\ tries' = tries /\ lineage' = lineage
  BY DEF evidence
<1> QED
  BY <1>1 DEF InOrder, LinkedInOrder, Contents, Recorded

\* A worker at one of these labels relies on the stages it has passed only.
Careless ==
    {"idle", "created", "recovering", "begin", "finish", "finished",
     "failAttempt", "failExecution", "except", "exceptWrite"}

\* The worker goes where it relies on nothing new.
LEMMA CarelessStep ==
    ASSUME NEW w \in Worker, TypeOK, TypeOK', AloneOK(w),
           pc'[w] \in Careless,
           \/ cur'[w] = cur[w] \/ cur'[w] = 1
           \/ cur'[w] = cur[w] + 1 /\ stage[cur[w]].link # None,
           \A k \in Stage : stage[k].link # None => stage'[k].link # None
    PROVE  AloneOK(w)'
<1>1. ASSUME NEW j \in 1..(cur'[w] - 1) PROVE stage'[j].link # None
  <2>1. cur[w] \in Stage /\ cur'[w] \in Stage /\ NStages \in Nat
    BY NStagesAssumption DEF TypeOK
  <2>2. j \in Stage
    BY <2>1 DEF Stage
  <2>3. j \in 1..(cur[w] - 1) \/ (j = cur[w] /\ stage[cur[w]].link # None)
    BY <2>1 DEF Stage
  <2>4. stage[j].link # None
    BY <2>3 DEF AloneOK
  <2> QED
    BY <2>2, <2>4
<1> QED
  BY <1>1 DEF AloneOK, Careless, Recording

\* Stages before a worker's own are stages.
LEMMA PassedStage ==
    ASSUME TypeOK, NEW w \in Worker
    PROVE  \A j \in 1..(cur[w] - 1) : j \in Stage
BY NStagesAssumption DEF TypeOK, Stage

\* Overwriting one entry of a sequence keeps its length.
LEMMA ExceptLen ==
    ASSUME NEW S, NEW s \in Seq(S), NEW i, NEW x
    PROVE  Len([s EXCEPT ![i] = x]) = Len(s)
OBVIOUS

\* The entries and exits of execute and recover, and what is not at a stage.
LEMMA SerialEntry ==
    ASSUME NEW w \in Worker, Alone(w),
           \/ Execute(w) \/ RecordCapability(w) \/ Recover(w) \/ MarkRecovering(w)
           \/ Return(w) \/ Finish(w) \/ SetPackage(w)
           \/ FailExecution(w) \/ Except(w) \/ ExceptWrite(w)
           \/ LeaseTimeout(w) \/ Crash(w)
    PROVE  InOrder' /\ LinkedInOrder' /\ AloneOK(w)'
<1>1. UNCHANGED evidence
  BY DEF Execute, RecordCapability, Recover, MarkRecovering, Return, Finish, SetPackage,
         FailExecution, Except, ExceptWrite, LeaseTimeout, Crash
<1>2. pc'[w] \in Careless /\ (cur'[w] = cur[w] \/ cur'[w] = 1)
  BY DEF Alone, IInv, TypeOK, Execute, RecordCapability, Recover, MarkRecovering, Return,
         Finish, SetPackage, FailExecution, Except, ExceptWrite, LeaseTimeout, Crash, Leave,
         Goto, Careless
<1>3. \A k \in Stage : stage[k].link # None => stage'[k].link # None
  BY <1>1 DEF evidence
<1>4. AloneOK(w)'
  BY <1>2, <1>3, CarelessStep DEF Alone, IInv
<1> QED
  BY <1>1, <1>4, EvidenceKept DEF Alone

\* Once the last stage is passed every stage is linked.
LEMMA AdvanceSerial ==
    ASSUME NEW w \in Worker, Alone(w), UNCHANGED evidence, Advance(w),
           stage[cur[w]].link # None
    PROVE  AloneOK(w)'
<1> USE DEF Alone, IInv
<1>1. CASE cur[w] # NStages
  <2>1. pc'[w] = "begin" /\ cur'[w] = cur[w] + 1
    BY <1>1 DEF Advance, Goto, TypeOK
  <2> QED
    BY <2>1, CarelessStep DEF Careless, evidence
<1>2. CASE cur[w] = NStages
  <2>1. pc'[w] = "seal" /\ cur' = cur /\ stage' = stage
    BY <1>2 DEF Advance, Goto, TypeOK, evidence
  <2>2. ASSUME NEW k \in Stage PROVE stage[k].link # None
    <3>1. k = cur[w] \/ k \in 1..(cur[w] - 1)
      BY <1>2, NStagesAssumption DEF Stage
    <3> QED
      BY <3>1 DEF AloneOK
  <2> QED
    BY <2>1, <2>2 DEF AloneOK, Recording
<1> QED
  BY <1>1, <1>2

\* Reusing a stage, recording what was answered, reporting it.
LEMMA SerialMaterialize ==
    ASSUME NEW w \in Worker, Alone(w),
           \/ Reuse(w) \/ ReadCompleted(w) \/ Report(w)
           \/ \E r \in Response : RepeatComplete(w, r)
    PROVE  InOrder' /\ LinkedInOrder' /\ AloneOK(w)'
<1> USE DEF Alone, IInv
<1>1. UNCHANGED evidence
  BY DEF Reuse, ReadCompleted, Report, RepeatComplete
<1>2. CASE Report(w)
  <2>1. Advance(w) /\ stage[cur[w]].link # None
    BY <1>2 DEF Report, AloneOK
  <2> QED
    BY <1>1, <2>1, AdvanceSerial, EvidenceKept
<1>3. CASE ~Report(w) /\ stage[cur[w]].link = None
  <2>1. /\ pc' = [pc EXCEPT ![w] = "put"] /\ cur' = cur
        /\ item' = [item EXCEPT ![w] = Contents(cur[w])]
        /\ stage[cur[w]].status = "COMPLETED"
    BY <1>3 DEF Reuse, ReadCompleted, RepeatComplete, Materialize, Goto, AloneOK
  <2>2. pc'[w] = "put" /\ item'[w] = Contents(cur[w])' /\ stage' = stage
    BY <1>1, <2>1 DEF TypeOK, evidence, Contents
  <2> QED
    BY <1>1, <2>1, <2>2, EvidenceKept DEF AloneOK
<1>4. CASE Reuse(w) /\ stage[cur[w]].link # None
  <2>1. Advance(w)
    BY <1>4 DEF Reuse, Materialize
  <2> QED
    BY <1>1, <1>4, <2>1, AdvanceSerial, EvidenceKept
<1>5. CASE (ReadCompleted(w) \/ \E r \in Response : RepeatComplete(w, r))
             /\ stage[cur[w]].link # None
  <2>1. pc'[w] = "report" /\ cur' = cur /\ stage' = stage
    BY <1>1, <1>5 DEF ReadCompleted, RepeatComplete, Materialize, ToReport, Goto, TypeOK, evidence
  <2> QED
    BY <1>1, <1>5, <2>1, EvidenceKept DEF AloneOK, Recording
<1> QED
  BY <1>1, <1>2, <1>3, <1>4, <1>5, EvidenceKept

\* An attempt on its way: the stage is not COMPLETED until it is answered.
LEMMA SerialAttempt ==
    ASSUME NEW w \in Worker, Alone(w),
           ReadAttempt(w) \/ MarkStage(w) \/ OwnerFails(w)
    PROVE  InOrder' /\ LinkedInOrder' /\ AloneOK(w)'
<1> USE DEF Alone, IInv
<1>1. UNCHANGED evidence
  BY DEF ReadAttempt, MarkStage, OwnerFails
<1>2. /\ pc'[w] \in {"mark", "call", "fail"} /\ pc[w] \in {"began", "mark", "call"}
      /\ cur' = cur
  BY DEF ReadAttempt, MarkStage, OwnerFails, Goto, TypeOK
<1>3. AloneOK(w)'
  BY <1>1, <1>2 DEF AloneOK, evidence, Recording
<1> QED
  BY <1>1, <1>3, EvidenceKept

\* Opening an attempt and failing it: the stage is not COMPLETED before and after.
LEMMA SerialOpen ==
    ASSUME NEW w \in Worker, Alone(w), Begin(w) \/ FailStage(w)
    PROVE  InOrder' /\ LinkedInOrder' /\ AloneOK(w)'
<1> USE DEF Alone, IInv
<1> DEFINE k == cur[w]
<1>1. k \in Stage /\ stage[k] \in StageRow /\ stage[k].status # "COMPLETED"
  BY RowType DEF Begin, FailStage, AloneOK
<1>2. /\ cur' = cur /\ lineage' = lineage
      /\ pc'[w] = "began" \/ pc'[w] = "failAttempt"
  BY DEF Begin, FailStage, Goto, TypeOK
<1>3. /\ \A j \in Stage \ {k} : stage'[j] = stage[j] /\ tries'[j] = tries[j]
      /\ stage'[k].link = stage[k].link /\ stage'[k].status # "COMPLETED"
  <2>1. PICK new : /\ stage' = [stage EXCEPT ![k] = new]
                   /\ new.link = stage[k].link /\ new.status # "COMPLETED"
    <3>1. CASE Begin(w)
      <4> DEFINE new == [stage[k] EXCEPT !.status = "RUNNING", !.request = carry[w],
                                         !.response = None]
      <4>1. new.link = stage[k].link /\ new.status # "COMPLETED"
        BY <1>1 DEF StageRow
      <4>2. stage' = [stage EXCEPT ![k] = new]
        BY <3>1 DEF Begin
      <4> HIDE DEF new
      <4> QED
        BY <4>1, <4>2
    <3>2. CASE FailStage(w) /\ att[w] = Len(tries[k])
      <4> DEFINE new == [stage[k] EXCEPT !.status = "FAILED", !.response = None]
      <4>1. new.link = stage[k].link /\ new.status # "COMPLETED"
        BY <1>1 DEF StageRow
      <4>2. stage' = [stage EXCEPT ![k] = new]
        BY <3>2 DEF FailStage
      <4> HIDE DEF new
      <4> QED
        BY <4>1, <4>2
    <3>3. CASE FailStage(w) /\ att[w] # Len(tries[k])
      <4>1. stage' = [stage EXCEPT ![k] = stage[k]]
        BY <3>3 DEF FailStage, TypeOK
      <4> QED
        BY <1>1, <4>1
    <3> QED
      BY <3>1, <3>2, <3>3
  <2>2. \A j \in Stage \ {k} : tries'[j] = tries[j]
    BY DEF Begin, FailStage, TypeOK
  <2> QED
    BY <1>1, <2>1, <2>2 DEF TypeOK
<1>4. InOrder' /\ LinkedInOrder'
  BY <1>1, <1>2, <1>3, OpenRewrite
<1>5. \A j \in Stage : stage'[j].link = stage[j].link
  BY <1>3
<1>6. AloneOK(w)'
  <2>1. \A j \in 1..(cur'[w] - 1) : stage'[j].link # None
    <3>1. \A j \in 1..(cur[w] - 1) : j \in Stage
      BY PassedStage
    <3> QED
      BY <1>2, <1>5, <3>1 DEF AloneOK
  <2> QED
    BY <1>2, <1>3, <2>1 DEF AloneOK, Recording
<1> QED
  BY <1>4, <1>6

\* The owner's answer completes a stage that was not COMPLETED.
LEMMA SerialComplete ==
    ASSUME NEW w \in Worker, Alone(w), NEW r \in Response, Complete(w, r)
    PROVE  InOrder' /\ LinkedInOrder' /\ AloneOK(w)'
<1> USE DEF Alone, IInv
<1> DEFINE k == cur[w]
<1>1. k \in Stage /\ stage[k] \in StageRow /\ stage[k].status # "COMPLETED"
  BY RowType DEF Complete, AloneOK
<1>2. PICK new : /\ stage' = [stage EXCEPT ![k] = new]
                 /\ new.link = stage[k].link
                 /\ \/ pc'[w] = "fail" /\ new.status # "COMPLETED"
                    \/ pc'[w] = "reread" /\ new.status = "COMPLETED"
  <2>1. CASE att[w] # Len(tries[k])
    <3>1. pc'[w] = "fail" /\ stage' = [stage EXCEPT ![k] = stage[k]]
      BY <2>1 DEF Complete, Goto, TypeOK
    <3> QED
      BY <1>1, <3>1
  <2>2. CASE att[w] = Len(tries[k])
    <3> DEFINE new == [stage[k] EXCEPT !.status = "COMPLETED", !.response = r]
    <3>1. new.link = stage[k].link /\ new.status = "COMPLETED"
      BY <1>1 DEF StageRow
    <3>2. pc'[w] = "reread" /\ stage' = [stage EXCEPT ![k] = new]
      BY <1>1, <2>2 DEF Complete, Goto, TypeOK
    <3> HIDE DEF new
    <3> QED
      BY <3>1, <3>2
  <2> QED
    BY <2>1, <2>2
<1>3. /\ cur' = cur /\ lineage' = lineage
      /\ \A j \in Stage \ {k} : stage'[j] = stage[j] /\ tries'[j] = tries[j]
      /\ stage'[k] = new
  <2>1. \A j \in Stage \ {k} : tries'[j] = tries[j]
    BY DEF Complete, TypeOK
  <2>2. cur' = cur /\ lineage' = lineage
    BY DEF Complete
  <2> QED
    BY <1>1, <1>2, <2>1, <2>2 DEF TypeOK
<1>4. InOrder' /\ LinkedInOrder'
  BY <1>1, <1>2, <1>3, OpenRewrite
<1>5. \A j \in 1..(cur'[w] - 1) : stage'[j].link # None
  <2>1. \A j \in 1..(cur[w] - 1) : j \in Stage
    BY PassedStage
  <2> QED
    BY <1>2, <1>3, <2>1 DEF AloneOK
<1>6. \/ pc'[w] = "fail" /\ stage'[cur'[w]].status # "COMPLETED"
      \/ pc'[w] = "reread" /\ stage'[cur'[w]].status = "COMPLETED"
  BY <1>2, <1>3
<1>7. AloneOK(w)'
  BY <1>5, <1>6 DEF AloneOK, Recording
<1> QED
  BY <1>4, <1>7

\* Closing a failed attempt leaves the number of attempts alone.
LEMMA SerialFailAttempt ==
    ASSUME NEW w \in Worker, Alone(w), FailAttempt(w)
    PROVE  InOrder' /\ LinkedInOrder' /\ AloneOK(w)'
<1> USE DEF Alone, IInv
<1>1. /\ stage' = stage /\ lineage' = lineage /\ cur' = cur
      /\ pc'[w] = "failExecution"
  BY DEF FailAttempt, Goto, TypeOK
<1>2. ASSUME NEW k \in Stage PROVE Len(tries'[k]) = Len(tries[k])
  <2>1. tries[k] \in Seq(StageStatus \ {"ABSENT"})
    BY DEF TypeOK
  <2>2. \/ tries'[k] = tries[k]
        \/ tries'[k] = [tries[k] EXCEPT ![att[w]] = "FAILED"]
    BY DEF FailAttempt, TypeOK
  <2>3. Len([tries[k] EXCEPT ![att[w]] = "FAILED"]) = Len(tries[k])
    BY <2>1, ExceptLen
  <2> QED
    BY <2>2, <2>3
<1>3. \A k \in Stage : Contents(k)' = Contents(k)
  BY <1>1, <1>2 DEF Contents
<1>4. InOrder' /\ LinkedInOrder'
  BY <1>1, <1>3 DEF InOrder, LinkedInOrder
<1>5. AloneOK(w)'
  <2>1. pc'[w] \in Careless
    BY <1>1 DEF Careless
  <2>2. \A k \in Stage : stage[k].link # None => stage'[k].link # None
    BY <1>1
  <2> QED
    BY <1>1, <2>1, <2>2, CarelessStep
<1> QED
  BY <1>4, <1>5

\* Writing an artifact: it is looked up, appended at the place of its stage, and
\* linked to the row it was made of.
LEMMA SerialWrite ==
    ASSUME NEW w \in Worker, Alone(w),
           Seal(w) \/ PutArtifact(w) \/ AppendLineage(w) \/ LinkArtifact(w)
    PROVE  InOrder' /\ LinkedInOrder' /\ AloneOK(w)'
<1> USE DEF Alone, IInv
<1> DEFINE k == cur[w]
<1>1. k \in Stage /\ NStages \in Nat /\ lineage \in Seq(Artifact) /\ Len(lineage) \in Nat
  BY NStagesAssumption DEF TypeOK
<1>2. CASE Seal(w)
  <2>1. UNCHANGED evidence /\ cur' = cur
    BY <1>2 DEF Seal
  <2>2. CASE pc'[w] = "except"
    BY <2>1, <2>2, CarelessStep, EvidenceKept DEF Careless, evidence
  <2>3. CASE pc'[w] # "except"
    <3>1. pc'[w] = "put" /\ item'[w].type = "replay" /\ Sealable
      BY <1>2, <2>3 DEF Seal, Goto, TypeOK
    <3>2. NStages <= Len(lineage)
      BY <1>1, <3>1, NStagesAssumption DEF Sealable, Stage
    <3> QED
      BY <2>1, <3>1, <3>2, EvidenceKept DEF AloneOK, evidence
  <2> QED
    BY <2>2, <2>3
<1>3. CASE PutArtifact(w)
  <2>1. /\ UNCHANGED evidence /\ cur' = cur /\ item' = item /\ pc[w] \in Recording
        /\ \/ pc'[w] = "link" /\ Recorded(item[w])
           \/ pc'[w] = "append" /\ ~Recorded(item[w])
    BY <1>3 DEF PutArtifact, Goto, TypeOK, Recording
  <2> QED
    BY <2>1, EvidenceKept DEF AloneOK, evidence
<1>4. CASE AppendLineage(w)
  <2>1. /\ lineage' = Append(lineage, item[w]) /\ pc'[w] = "link" /\ pc[w] = "append"
        /\ cur' = cur /\ item' = item /\ stage' = stage /\ tries' = tries
    BY <1>4 DEF AppendLineage, Goto, TypeOK, AloneOK
  <2>2. item[w] \in Artifact
    BY <2>1, HeldType DEF Recording
  <2>3. /\ Len(lineage') = Len(lineage) + 1 /\ lineage'[Len(lineage) + 1] = item[w]
        /\ \A i \in 1..Len(lineage) : lineage'[i] = lineage[i]
    BY <1>1, <2>1, <2>2
  <2>4. \A j : Contents(j)' = Contents(j)
    BY <2>1 DEF Contents
  <2>5. \/ /\ stage[k].status = "COMPLETED" /\ item[w] = Contents(k)
           /\ k = Len(lineage) + 1
        \/ item[w].type = "replay" /\ Len(lineage) + 1 \notin Stage
    <3>1. CASE item[w].type = "replay" /\ NStages <= Len(lineage)
      BY <1>1, <3>1 DEF Stage
    <3>2. CASE stage[k].status = "COMPLETED" /\ item[w] = Contents(k)
      <4>1. ~(k <= Len(lineage))
        <5> SUFFICES ASSUME k <= Len(lineage) PROVE FALSE
          OBVIOUS
        <5>1. lineage[k] = item[w] /\ k \in 1..Len(lineage)
          BY <1>1, <3>2 DEF InOrder, Stage
        <5> QED
          BY <2>1, <5>1 DEF AloneOK, Recorded
      <4>2. k - 1 <= Len(lineage)
        <5>1. CASE k = 1
          BY <1>1, <5>1
        <5>2. CASE k # 1
          <6>1. k - 1 \in 1..(cur[w] - 1) /\ k - 1 \in Stage
            BY <1>1, <5>2 DEF Stage
          <6>2. stage[k - 1].link # None
            BY <6>1 DEF AloneOK
          <6> QED
            BY <6>1, <6>2 DEF LinkedInOrder
        <5> QED
          BY <5>1, <5>2
      <4> QED
        BY <1>1, <3>2, <4>1, <4>2 DEF Stage
    <3> QED
      BY <2>1, <3>1, <3>2 DEF AloneOK, Recording
  <2>6. InOrder'
    <3>1. ASSUME NEW j \in Stage, j <= Len(lineage')
          PROVE  stage'[j].status = "COMPLETED" /\ lineage'[j] = Contents(j)'
      <4>1. CASE j <= Len(lineage)
        BY <1>1, <2>1, <2>3, <2>4, <4>1 DEF InOrder, Stage
      <4>2. CASE ~(j <= Len(lineage))
        <5>1. j = Len(lineage) + 1
          BY <1>1, <2>3, <3>1, <4>2 DEF Stage
        <5> QED
          BY <2>1, <2>3, <2>4, <2>5, <5>1
      <4> QED
        BY <4>1, <4>2
    <3>2. ASSUME NEW i \in 1..Len(lineage'), i \notin Stage
          PROVE  lineage'[i].type = "replay"
      <4>1. CASE i \in 1..Len(lineage)
        BY <2>3, <3>2, <4>1 DEF InOrder
      <4>2. CASE i = Len(lineage) + 1
        BY <1>1, <2>3, <2>5, <3>2, <4>2
      <4> QED
        BY <1>1, <2>3, <3>2, <4>1, <4>2
    <3> QED
      BY <3>1, <3>2 DEF InOrder
  <2>7. LinkedInOrder'
    BY <1>1, <2>1, <2>3 DEF LinkedInOrder, Stage
  <2>8. AloneOK(w)'
    <3>1. \/ stage'[cur'[w]].status = "COMPLETED" /\ item'[w] = Contents(cur[w])'
          \/ item'[w].type = "replay" /\ NStages <= Len(lineage')
      BY <1>1, <2>1, <2>3, <2>4 DEF AloneOK, Recording
    <3> QED
      BY <2>1, <3>1 DEF AloneOK
  <2> QED
    BY <2>6, <2>7, <2>8
<1>5. CASE LinkArtifact(w)
  <2>1. /\ item[w].type # "replay" /\ pc[w] = "link" /\ pc[w] \in Recording
        /\ stage[k] \in StageRow
    BY <1>5, RowType DEF LinkArtifact, Recording
  <2>2. stage[k].status = "COMPLETED" /\ item[w] = Contents(k)
    BY <2>1 DEF AloneOK
  <2>3. Recorded(item[w])
    BY <2>1 DEF ItemOK
  <2>4. k <= Len(lineage) /\ lineage[k] = item[w]
    BY <1>1, <2>2, <2>3, PlaceOfStage
  <2> DEFINE new == [stage[k] EXCEPT !.link = item[w]]
  <2>5. /\ new.status = stage[k].status /\ new.request = stage[k].request
        /\ new.response = stage[k].response /\ new.link = item[w]
    BY <2>1 DEF StageRow
  <2>6. /\ stage' = [stage EXCEPT ![k] = new] /\ tries' = tries /\ lineage' = lineage
        /\ Advance(w) \/ ToReport(w)
    BY <1>5, <2>2 DEF LinkArtifact
  <2> HIDE DEF new
  <2>7. /\ stage'[k] = new
        /\ \A j \in Stage \ {k} : stage'[j] = stage[j]
    BY <1>1, <2>6 DEF TypeOK
  <2>8. \A j \in Stage : /\ Contents(j)' = Contents(j)
                          /\ stage'[j].status = stage[j].status
    BY <2>5, <2>6, <2>7 DEF Contents
  <2>9. InOrder'
    BY <2>6, <2>8 DEF InOrder
  <2>10. item[w] # None
    BY <1>1, <2>2, ContentsType, NoneAssumption
  <2>11. LinkedInOrder'
    BY <2>4, <2>5, <2>6, <2>7 DEF LinkedInOrder
  <2>12. ASSUME NEW j \in 1..k PROVE stage'[j].link # None
    <3>1. CASE j = k
      BY <2>5, <2>7, <2>10, <3>1
    <3>2. CASE j # k
      <4>1. j \in 1..(cur[w] - 1) /\ j \in Stage \ {k}
        BY <1>1, <3>2 DEF Stage
      <4> QED
        BY <2>7, <4>1 DEF AloneOK
    <3> QED
      BY <3>1, <3>2
  <2>13. AloneOK(w)'
    <3>1. CASE ToReport(w)
      <4>1. pc'[w] = "report" /\ cur' = cur
        BY <3>1 DEF ToReport, Goto, TypeOK
      <4>2. (\A j \in 1..(k - 1) : stage'[j].link # None) /\ stage'[k].link # None
        BY <1>1, <2>12 DEF Stage
      <4> QED
        BY <4>1, <4>2 DEF AloneOK, Recording
    <3>2. CASE Advance(w) /\ k = NStages
      <4>1. pc'[w] = "seal" /\ cur' = cur
        BY <3>2 DEF Advance, Goto, TypeOK
      <4>2. /\ \A j \in 1..(k - 1) : stage'[j].link # None
            /\ \A j \in Stage : stage'[j].link # None
        BY <1>1, <2>12, <3>2 DEF Stage
      <4> QED
        BY <4>1, <4>2 DEF AloneOK, Recording
    <3>3. CASE Advance(w) /\ k # NStages
      <4>1. pc'[w] = "begin" /\ cur'[w] = k + 1
        BY <3>3 DEF Advance, Goto, TypeOK
      <4>2. \A j \in 1..(cur'[w] - 1) : stage'[j].link # None
        BY <1>1, <2>12, <4>1 DEF Stage
      <4> QED
        BY <4>1, <4>2 DEF AloneOK, Recording
    <3> QED
      BY <2>6, <3>1, <3>2, <3>3
  <2> QED
    BY <2>9, <2>11, <2>13
<1> QED
  BY <1>2, <1>3, <1>4, <1>5

\* Every step of the only worker keeps lineage, links and worker in order.
LEMMA SerialStep ==
    ASSUME \A v, w \in Worker : v = w, "store" \notin Faults,
           IInv, IInv', SerialInv, [Next]_vars
    PROVE  SerialInv'
<1>1. CASE UNCHANGED vars
  <2>1. UNCHANGED evidence /\ UNCHANGED local
    BY <1>1 DEF vars, evidence, local
  <2>2. ASSUME NEW w \in Worker PROVE AloneOK(w)'
    BY <2>1, EvidenceKept DEF SerialInv, AloneOK, evidence, local
  <2> QED
    BY <2>1, <2>2, EvidenceKept DEF SerialInv
<1>2. ASSUME NEW w \in Worker, Execute(w) \/ Recover(w) \/ Step(w) \/ Fault(w)
      PROVE  SerialInv'
  <2>1. Alone(w)
    BY DEF Alone, SerialInv, IInv
  <2>2. ~StoreFails(w)
    BY DEF StoreFails, Strike
  <2>3. InOrder' /\ LinkedInOrder' /\ AloneOK(w)'
    <3>1. CASE \/ Execute(w) \/ Recover(w) \/ RecordCapability(w) \/ MarkRecovering(w)
               \/ Return(w) \/ Finish(w) \/ SetPackage(w)
               \/ FailExecution(w) \/ Except(w) \/ ExceptWrite(w)
      BY <2>1, <3>1, SerialEntry
    <3>2. CASE Fault(w)
      BY <2>1, <2>2, <3>2, SerialEntry, SerialAttempt DEF Fault
    <3>3. CASE \/ Reuse(w) \/ ReadCompleted(w) \/ Report(w)
               \/ \E r \in Response : RepeatComplete(w, r)
      BY <2>1, <3>3, SerialMaterialize
    <3>4. CASE \/ ReadAttempt(w) \/ MarkStage(w) \/ Begin(w) \/ FailStage(w)
               \/ FailAttempt(w)
      BY <2>1, <3>4, SerialAttempt, SerialOpen, SerialFailAttempt
    <3>5. CASE \E r \in Response : Complete(w, r)
      BY <2>1, <3>5, SerialComplete
    <3>6. CASE Seal(w) \/ PutArtifact(w) \/ AppendLineage(w) \/ LinkArtifact(w)
      BY <2>1, <3>6, SerialWrite
    <3> QED
      BY <1>2, <3>1, <3>2, <3>3, <3>4, <3>5, <3>6, Zenon DEF Step
  <2> QED
    BY <2>3 DEF SerialInv
<1> QED
  BY <1>1, <1>2 DEF Next

\* Nothing is recorded at the start, and no worker is anywhere.
LEMMA SerialStart == Init => SerialInv
<1> SUFFICES ASSUME Init PROVE SerialInv
  OBVIOUS
<1>1. InOrder /\ LinkedInOrder
  BY DEF Init, InOrder, LinkedInOrder, Stage
<1>2. ASSUME NEW w \in Worker PROVE AloneOK(w)
  BY DEF Init, AloneOK, Recording
<1> QED
  BY <1>1, <1>2 DEF SerialInv

\* With one worker at a time and a store that does not fail, entry k of the
\* lineage is stage k, and whatever crashes, recovery reaches a seal that is
\* not refused (_run_stage, EcosystemReplayLedger.build and validate).
THEOREM SealNeverFails ==
    ASSUME \A v, w \in Worker : v = w, "store" \notin Faults
    PROVE  Spec => []SealNeverRefused
<1>1. IInv /\ IInv' /\ SerialInv /\ [Next]_vars => SerialInv'
  BY SerialStep
<1>2. IInv /\ SerialInv => SealNeverRefused
  <2> SUFFICES ASSUME IInv, SerialInv PROVE SealNeverRefused
    OBVIOUS
  <2>1. ASSUME NEW k \in Stage, k <= Len(lineage)
        PROVE  lineage[k].type = "stage" /\ lineage[k].stage = k
    BY <2>1, ContentsType DEF SerialInv, InOrder, IInv
  <2>2. ASSUME NEW w \in Worker, pc[w] = "seal" PROVE Sealable
    BY <2>2 DEF SerialInv, AloneOK, LinkedInOrder, InOrder, Sealable
  <2> QED
    BY <2>1, <2>2 DEF SealNeverRefused
<1> QED
  BY <1>1, <1>2, SerialStart, Inductive, PTL DEF Spec
-----------------------------------------------------------------------------
(* One worker at a time: the package tells one run.                         *)

\* A stage has been entered with the response that the row of the stage before
\* it has, and that row is COMPLETED.
OneRun ==
    \A k \in Stage \ {1} : stage[k].status # "ABSENT" =>
        stage[k - 1].status = "COMPLETED" /\ stage[k].request = stage[k - 1].response

\* What a worker carries is what the row of the stage it is at, or has just
\* passed, answers.
CarryOK(w) ==
    /\ pc[w] \in {"idle", "created", "recovering"} => cur[w] = 1
    /\ pc[w] = "begin" /\ cur[w] # 1 => carry[w] = stage[cur[w] - 1].response
    /\ pc[w] \in {"began", "mark", "call", "fail"} => stage[cur[w]].status # "ABSENT"
    /\ pc[w] \in {"reread", "report"} => carry[w] = stage[cur[w]].response
    /\ pc[w] \in Recording /\ item[w].type = "stage" =>
         carry[w] = stage[cur[w]].response

\* Row j says what it said.
SameRow(j) ==
    /\ stage'[j].status = stage[j].status
    /\ stage'[j].request = stage[j].request
    /\ stage'[j].response = stage[j].response

\* Rows that say what they said keep the run one.
LEMMA OneRunKept ==
    ASSUME OneRun, \A j \in Stage : SameRow(j)
    PROVE  OneRun'
<1>1. \A j \in Stage \ {1} : j \in Stage /\ j - 1 \in Stage
  BY NStagesAssumption DEF Stage
<1> QED
  BY <1>1 DEF OneRun, SameRow

\* So does rewriting a stage that is not COMPLETED: none after it is entered.
LEMMA OneRunOpen ==
    ASSUME OneRun, NEW k \in Stage, stage[k].status # "COMPLETED",
           \A j \in Stage \ {k} : stage'[j] = stage[j],
           k # 1 => /\ stage[k - 1].status = "COMPLETED"
                    /\ stage'[k].request = stage[k - 1].response
    PROVE  OneRun'
<1>1. \A j \in Stage \ {1} : j \in Stage /\ j - 1 \in Stage /\ j - 1 # j
  BY NStagesAssumption DEF Stage
<1>2. ASSUME NEW j \in Stage \ {1}, stage'[j].status # "ABSENT"
      PROVE  stage'[j - 1].status = "COMPLETED" /\ stage'[j].request = stage'[j - 1].response
  <2>1. CASE j = k
    BY <1>1, <2>1
  <2>2. CASE j # k
    <3>1. stage[j].status # "ABSENT" /\ stage'[j] = stage[j]
      BY <1>2, <2>2
    <3>2. stage[j - 1].status = "COMPLETED"
      BY <3>1 DEF OneRun
    <3>3. stage'[j - 1] = stage[j - 1]
      BY <1>1, <3>2
    <3> QED
      BY <3>1, <3>3 DEF OneRun
  <2> QED
    BY <2>1, <2>2
<1> QED
  BY <1>2 DEF OneRun

\* Every step of the only worker keeps the run one.
LEMMA OneRunStep ==
    ASSUME NEW w \in Worker, Alone(w), OneRun, CarryOK(w), ~StoreFails(w),
           Execute(w) \/ Recover(w) \/ Step(w) \/ Fault(w)
    PROVE  OneRun' /\ CarryOK(w)'
<1> USE DEF Alone, IInv
<1> DEFINE k == cur[w]
<1>1. /\ k \in Stage /\ stage[k] \in StageRow /\ NStages \in Nat
      /\ pc \in [Worker -> Control] /\ cur \in [Worker -> Stage]
      /\ carry \in [Worker -> Reply] /\ item \in [Worker -> Artifact \cup {None}]
      /\ stage \in [Stage -> StageRow]
  BY RowType, NStagesAssumption DEF TypeOK
<1>2. ASSUME stage' = stage PROVE OneRun' /\ \A j \in Stage : SameRow(j)
  BY <1>2, OneRunKept DEF SameRow
<1>3. CASE \/ Execute(w) \/ Recover(w) \/ MarkRecovering(w) \/ RecordCapability(w)
           \/ Seal(w) \/ SetPackage(w) \/ Finish(w) \/ Return(w) \/ FailAttempt(w)
           \/ FailExecution(w) \/ Except(w) \/ ExceptWrite(w)
           \/ LeaseTimeout(w) \/ Crash(w)
  <2>1. stage' = stage
    BY <1>3 DEF Execute, Recover, MarkRecovering, RecordCapability, Seal, SetPackage, Finish,
         Return, FailAttempt, FailExecution, Except, ExceptWrite, LeaseTimeout, Crash, evidence
  <2>2. \/ pc'[w] \in {"created", "recovering"} /\ pc[w] = "idle" /\ cur' = cur
        \/ pc'[w] = "idle" /\ cur'[w] = 1
        \/ pc'[w] \in Careless \ {"idle", "created", "recovering", "begin"}
        \/ pc'[w] = "begin" /\ cur' = cur /\ pc[w] \in {"created", "recovering"}
        \/ pc'[w] = "put" /\ item'[w].type = "replay"
    BY <1>1, <1>3 DEF Execute, Recover, MarkRecovering, RecordCapability, Seal, SetPackage,
         Finish, Return, FailAttempt, FailExecution, Except, ExceptWrite, LeaseTimeout, Crash,
         Leave, Goto, Careless
  <2> QED
    BY <1>2, <2>1, <2>2 DEF CarryOK, Careless, Recording
<1>4. CASE ReadAttempt(w) \/ MarkStage(w) \/ OwnerFails(w)
  <2>1. /\ stage' = stage /\ cur' = cur
        /\ pc'[w] \in {"mark", "call", "fail"} /\ pc[w] \in {"began", "mark", "call"}
    BY <1>1, <1>4 DEF ReadAttempt, MarkStage, OwnerFails, Goto, evidence
  <2> QED
    BY <1>2, <2>1 DEF CarryOK, Recording
<1>5. CASE Begin(w)
  <2> DEFINE new == [stage[k] EXCEPT !.status = "RUNNING", !.request = carry[w],
                                     !.response = None]
  <2>1. new.request = carry[w] /\ new.status = "RUNNING"
    BY <1>1 DEF StageRow
  <2>2. /\ stage' = [stage EXCEPT ![k] = new] /\ pc[w] = "begin" /\ cur' = cur
        /\ pc'[w] = "began" /\ stage[k].status # "COMPLETED"
    BY <1>1, <1>5 DEF Begin, Goto
  <2> HIDE DEF new
  <2>3. stage'[k] = new /\ \A j \in Stage \ {k} : stage'[j] = stage[j]
    BY <1>1, <2>2
  <2>4. ASSUME k # 1
        PROVE  stage[k - 1].status = "COMPLETED" /\ carry[w] = stage[k - 1].response
    <3>1. k - 1 \in 1..(k - 1) /\ k - 1 \in Stage
      BY <1>1, <2>4 DEF Stage
    <3>2. stage[k - 1].link # None
      BY <3>1 DEF AloneOK
    <3> QED
      BY <2>2, <2>4, <3>1, <3>2 DEF LinkedInOrder, InOrder, CarryOK
  <2>5. OneRun'
    BY <1>1, <2>1, <2>2, <2>3, <2>4, OneRunOpen
  <2> QED
    BY <2>1, <2>2, <2>3, <2>5 DEF CarryOK, Recording
<1>6. CASE FailStage(w)
  <2>1. pc[w] = "fail" /\ pc'[w] = "failAttempt"
    BY <1>1, <1>6 DEF FailStage, Goto
  <2>2. CarryOK(w)'
    BY <2>1 DEF CarryOK, Recording
  <2>3. CASE stage' = stage
    BY <1>2, <2>2, <2>3
  <2>4. CASE stage' # stage
    <3> DEFINE new == [stage[k] EXCEPT !.status = "FAILED", !.response = None]
    <3>1. new.request = stage[k].request /\ stage' = [stage EXCEPT ![k] = new]
      BY <1>1, <1>6, <2>4 DEF FailStage, StageRow
    <3> HIDE DEF new
    <3>2. stage'[k] = new /\ \A j \in Stage \ {k} : stage'[j] = stage[j]
      BY <1>1, <3>1
    <3>3. stage[k].status \notin {"COMPLETED", "ABSENT"}
      BY <2>1 DEF AloneOK, CarryOK
    <3>4. OneRun'
      BY <1>1, <3>1, <3>2, <3>3, OneRunOpen DEF OneRun
    <3> QED
      BY <2>2, <3>4
  <2> QED
    BY <2>3, <2>4
<1>7. CASE \E r \in Response : Complete(w, r)
  <2>1. PICK r \in Response : Complete(w, r)
    BY <1>7
  <2>2. pc[w] = "call" /\ cur' = cur
    BY <2>1 DEF Complete
  <2>3. stage[k].status \notin {"COMPLETED", "ABSENT"}
    BY <2>2 DEF AloneOK, CarryOK
  <2>4. CASE att[w] # Len(tries[k])
    <3>1. stage' = stage /\ pc'[w] = "fail"
      BY <1>1, <2>1, <2>4 DEF Complete, Goto
    <3> QED
      BY <1>2, <2>2, <2>3, <3>1 DEF CarryOK, Recording
  <2>5. CASE att[w] = Len(tries[k])
    <3> DEFINE new == [stage[k] EXCEPT !.status = "COMPLETED", !.response = r]
    <3>1. new.request = stage[k].request /\ new.response = r
      BY <1>1 DEF StageRow
    <3>2. /\ stage' = [stage EXCEPT ![k] = new] /\ pc'[w] = "reread"
          /\ carry'[w] = r
      BY <1>1, <2>1, <2>3, <2>5 DEF Complete, Goto
    <3> HIDE DEF new
    <3>3. stage'[k] = new /\ \A j \in Stage \ {k} : stage'[j] = stage[j]
      BY <1>1, <3>2
    <3>4. OneRun'
      BY <1>1, <2>3, <3>1, <3>3, OneRunOpen DEF OneRun
    <3> QED
      BY <2>2, <3>1, <3>2, <3>3, <3>4 DEF CarryOK, Recording
  <2> QED
    BY <2>4, <2>5
<1>8. CASE Reuse(w) \/ ReadCompleted(w) \/ \E r \in Response : RepeatComplete(w, r)
  <2>1. /\ stage' = stage /\ carry'[w] = stage[k].response
        /\ Materialize(w, Advance(w)) \/ Materialize(w, ToReport(w))
    BY <1>1, <1>8 DEF Reuse, ReadCompleted, RepeatComplete, evidence, CarryOK
  <2>2. CASE stage[k].link = None
    <3>1. pc'[w] = "put" /\ cur' = cur
      BY <1>1, <2>1, <2>2 DEF Materialize, Goto
    <3> QED
      BY <1>2, <2>1, <3>1 DEF CarryOK, Recording
  <2>3. CASE stage[k].link # None /\ Advance(w)
    <3>1. \/ pc'[w] = "seal"
          \/ pc'[w] = "begin" /\ cur'[w] = k + 1
      BY <1>1, <2>3 DEF Advance, Goto
    <3>2. (k + 1) - 1 = k
      BY <1>1 DEF Stage
    <3> QED
      BY <1>2, <2>1, <3>1, <3>2 DEF CarryOK, Recording
  <2>4. CASE stage[k].link # None /\ ToReport(w)
    <3>1. pc'[w] = "report" /\ cur' = cur
      BY <1>1, <2>4 DEF ToReport, Goto
    <3> QED
      BY <1>2, <2>1, <3>1 DEF CarryOK, Recording
  <2> QED
    BY <2>1, <2>2, <2>3, <2>4 DEF Materialize
<1>9. CASE PutArtifact(w) \/ AppendLineage(w)
  <2>1. /\ stage' = stage /\ cur' = cur /\ item' = item /\ carry' = carry
        /\ pc[w] \in Recording /\ pc'[w] \in Recording
    BY <1>1, <1>9 DEF PutArtifact, AppendLineage, Goto, Recording, AloneOK, evidence
  <2> QED
    BY <1>2, <2>1 DEF CarryOK, Recording
<1>10. CASE LinkArtifact(w) \/ Report(w)
  <2>1. carry' = carry /\ carry[w] = stage[k].response /\ (Advance(w) \/ ToReport(w))
    <3>1. CASE Report(w)
      BY <3>1 DEF Report, CarryOK
    <3>2. CASE LinkArtifact(w)
      <4>1. pc[w] \in Recording /\ item[w].type = "stage" /\ carry' = carry
        BY <3>2 DEF LinkArtifact, Recording
      <4>2. stage[k].status = "COMPLETED"
        BY <4>1 DEF AloneOK
      <4> QED
        BY <3>2, <4>1, <4>2 DEF LinkArtifact, CarryOK
    <3> QED
      BY <1>10, <3>1, <3>2
  <2>2. \A j \in Stage : SameRow(j)
    <3>1. CASE stage' = stage
      BY <3>1 DEF SameRow
    <3>2. CASE stage' # stage
      <4> DEFINE new == [stage[k] EXCEPT !.link = item[w]]
      <4>1. /\ new.status = stage[k].status /\ new.request = stage[k].request
            /\ new.response = stage[k].response
        BY <1>1 DEF StageRow
      <4>2. stage' = [stage EXCEPT ![k] = new]
        BY <1>10, <3>2 DEF LinkArtifact, Report, evidence
      <4> HIDE DEF new
      <4> QED
        BY <1>1, <4>1, <4>2 DEF SameRow
    <3> QED
      BY <3>1, <3>2
  <2>3. OneRun' /\ stage'[k].response = stage[k].response
    BY <1>1, <2>2, OneRunKept DEF SameRow
  <2>4. CASE Advance(w)
    <3>1. \/ pc'[w] = "seal"
          \/ pc'[w] = "begin" /\ cur'[w] = k + 1 /\ cur'[w] - 1 = k
      BY <1>1, <2>4 DEF Advance, Goto, Stage
    <3> QED
      BY <2>1, <2>3, <3>1 DEF CarryOK, Recording
  <2>5. CASE ToReport(w)
    <3>1. pc'[w] = "report" /\ cur' = cur
      BY <1>1, <2>5 DEF ToReport, Goto
    <3> QED
      BY <2>1, <2>3, <3>1 DEF CarryOK, Recording
  <2> QED
    BY <2>1, <2>4, <2>5
<1> QED
  BY <1>3, <1>4, <1>5, <1>6, <1>7, <1>8, <1>9, <1>10, Zenon DEF Step, Fault

\* With one worker at a time and a store that does not fail, whatever crashes, a
\* sealed package tells one run: each stage was asked with the response of the
\* stage before it (_run_stage, begin_ecosystem_stage, complete_ecosystem_stage).
THEOREM SealedOneRun ==
    ASSUME \A v, w \in Worker : v = w, "store" \notin Faults
    PROVE  Spec => []SealedIsOneRun
<1> DEFINE CInv == OneRun /\ \A w \in Worker : CarryOK(w)
<1>1. Init => CInv
  BY DEF Init, OneRun, CarryOK, Recording
<1>2. IInv /\ IInv' /\ SerialInv /\ CInv /\ [Next]_vars => CInv'
  <2> SUFFICES ASSUME IInv, IInv', SerialInv, CInv, [Next]_vars PROVE CInv'
    OBVIOUS
  <2>1. CASE UNCHANGED vars
    BY <2>1, OneRunKept DEF vars, evidence, local, SameRow, CarryOK
  <2>2. ASSUME NEW w \in Worker, Execute(w) \/ Recover(w) \/ Step(w) \/ Fault(w)
        PROVE  CInv'
    <3>1. Alone(w) /\ ~StoreFails(w)
      BY DEF Alone, SerialInv, IInv, StoreFails, Strike
    <3> QED
      BY <2>2, <3>1, OneRunStep
  <2> QED
    BY <2>1, <2>2 DEF Next
<1>3. IInv /\ SerialInv /\ CInv => SealedIsOneRun
  <2> SUFFICES ASSUME IInv, SerialInv, CInv, package # None, NEW k \in Stage \ {1}
               PROVE  package[k].request = package[k - 1].response
    BY DEF SealedIsOneRun
  <2>1. k - 1 \in Stage
    BY NStagesAssumption DEF Stage
  <2>2. \A j \in {k, k - 1} : /\ package[j] = Contents(j)
                              /\ stage[j].status = "COMPLETED"
    BY <2>1 DEF IInv, SealedIsRecorded, SerialInv, InOrder
  <2> QED
    BY <2>1, <2>2 DEF OneRun, Contents
<1> HIDE DEF CInv
<1> QED
  BY <1>1, <1>2, <1>3, SerialStart, SerialStep, Inductive, PTL DEF Spec
=============================================================================
