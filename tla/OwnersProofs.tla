---------------------------- MODULE OwnersProofs ----------------------------
(***************************************************************************)
(* Machine-checked proofs about Owners, for every number of workers, calls and  *)
(* faults.                                                                  *)
(***************************************************************************)
EXTENDS Owners, FiniteSetTheorems, TLAPS

-----------------------------------------------------------------------------
(* The inductive invariant.                                                 *)

\* A worker goes by checkpoints of the stages that it has passed.
Right(w, s) == Checkpoint(s, mine[w][s])
PassedOK == \A w \in Worker : \A s \in Stage : s < at[w] => Right(w, s)

\* Whom a worker asks is an owner of the stage that it is at.
SinkOK ==
    \A w \in Worker :
        /\ pc[w] \in Asking /\ at[w] # Preflight => StageOf(sink[w]) = at[w]
        /\ at[w] = Preflight => sink[w] = "product"

\* What a row says and what it is linked to are checkpoints of the stage.
RowOK ==
    \A s \in Stage :
        /\ row[s].status = "COMPLETED" => row[s].result \in was[s]
        /\ \A r \in row[s].link : Checkpoint(s, r)

\* What a request or a record of sink k is made of are checkpoints.
Told(of, k) == \A s \in Basis(k) : Checkpoint(s, of[s])

ToldOK ==
    /\ \A k \in Sink : \A i \in DOMAIN log[k] : Told(log[k][i].of, k)
    /\ \A m \in late : Told(m.of, m.sink)

\* Runs of the product: what a worker or a checkpoint calls one is one, and KESHAV
\* is asked of one that ended in an error.
Ran(n) == n \in DOMAIN log["product"]
Failure(n) == Ran(n) /\ log["product"][n].fails

RunOK ==
    /\ \A r \in was[Raj] : Ran(r)
    /\ \A w \in Worker :
          /\ pc[w] = "answered" /\ at[w] = Raj => Ran(reply[w])
          /\ pc[w] \in Asking /\ at[w] = Keshav => Failure(mine[w][Raj])

KeshavOK ==
    /\ \A i \in DOMAIN log["keshav"] : Failure(log["keshav"][i].of[Raj])
    /\ \A m \in late : m.sink = "keshav" => Failure(m.of[Raj])

\* The workers that have begun an attempt which has still to leave its record at
\* sink k.
Pending(w, k) ==
    /\ at[w] = StageOf(k)
    /\ \/ pc[w] = "begun"
       \/ pc[w] \in Asking /\ (sink[w] = k \/ (k = "prana-core" /\ sink[w] = "karma-strict"))
Pend(k) == {w \in Worker : Pending(w, k)}
LateAt(k) == {m \in late : m.sink = k}

Counted ==
    \A k \in Sink :
        /\ IsFiniteSet(Pend(k)) /\ IsFiniteSet(LateAt(k))
        /\ Len(log[k]) + Cardinality(LateAt(k)) + Cardinality(Pend(k))
              <= row[StageOf(k)].attempts

IInv ==
    /\ PassedOK
    /\ SinkOK
    /\ RowOK
    /\ ToldOK
    /\ RunOK
    /\ KeshavOK
    /\ Counted

RowType == [status : Status, attempts : Nat, result : Nat, link : SUBSET Nat]
LateType == [sink : Sink, of : [Stage -> Nat], attempt : Nat, by : Worker]

-----------------------------------------------------------------------------
(* Stages, sinks and types.                                                 *)

\* A sink belongs to a stage behind the ones that its records are made of.
LEMMA SinkStage ==
    ASSUME NEW k \in Sink
    PROVE  /\ StageOf(k) \in Stage /\ StageOf(k) # Preflight
           /\ \A s \in Basis(k) : s \in Stage /\ s < StageOf(k)
           /\ StageOf(k) = Raj => k = "product"
           /\ StageOf(k) = Keshav => k = "keshav"
           /\ k = "keshav" => StageOf(k) = Keshav /\ Raj \in Basis(k)
<1>1. k \in {"product", "keshav", "ashmit", "bucket", "karma", "central", "karma-strict",
             "prana-core", "execution"}
  BY DEF Sink, Kind
<1>2. StageOf(k) \in 2..9
  BY <1>1 DEF StageOf, Raj, Keshav, Ashmit, Bucket, Karma, Prana, Insight, Central
<1>3. \A s \in Basis(k) : s \in 1..9 /\ s < StageOf(k)
  BY <1>1 DEF StageOf, Basis, Raj, Keshav, Ashmit, Bucket, Karma, Prana, Insight, Central
<1>4. /\ StageOf(k) = 2 => k = "product"
      /\ StageOf(k) = 3 => k = "keshav"
      /\ k = "keshav" => StageOf(k) = 3 /\ 2 \in Basis(k)
  BY <1>1 DEF StageOf, Basis, Raj, Keshav, Ashmit, Bucket, Karma, Prana, Insight, Central
<1> QED
  BY <1>2, <1>3, <1>4 DEF Stage, Preflight, Raj, Keshav, Central

LEMMA FirstSink ==
    ASSUME NEW s \in Stage, s # Preflight
    PROVE  FirstOf(s) \in Sink /\ StageOf(FirstOf(s)) = s
<1>1. s \in 2..9
  BY DEF Stage, Preflight, Central
<1>2. CASE s = Prana
  BY <1>2 DEF FirstOf, Sink, Kind, StageOf
<1>3. CASE s # Prana
  <2>1. \E k \in Sink : StageOf(k) = s
    <3>1. /\ "product" \in Sink /\ "keshav" \in Sink /\ "ashmit" \in Sink /\ "bucket" \in Sink
          /\ "karma" \in Sink /\ "execution" \in Sink /\ "central" \in Sink
      BY DEF Sink, Kind
    <3>2. /\ StageOf("product") = 2 /\ StageOf("keshav") = 3 /\ StageOf("ashmit") = 4
          /\ StageOf("bucket") = 5 /\ StageOf("karma") = 6 /\ StageOf("execution") = 8
          /\ StageOf("central") = 9
      BY DEF StageOf, Raj, Keshav, Ashmit, Bucket, Karma, Prana, Insight, Central
    <3> QED
      BY <1>1, <1>3, <3>1, <3>2 DEF Prana
  <2> QED
    BY <1>3, <2>1 DEF FirstOf
<1> QED
  BY <1>2, <1>3

LEMMA AskedType ==
    ASSUME TypeOK, NEW w \in Worker, NEW k
    PROVE  Asked(w, k) \in [Stage -> Nat]
BY DEF TypeOK, Asked

\* What a new record does to the logs.
LEMMA AddRecord ==
    ASSUME TypeOK, NEW k \in Sink, NEW of \in [Stage -> Nat], NEW fails \in BOOLEAN,
           Add(k, of, fails)
    PROVE  /\ log' \in [Sink -> Seq(Record)]
           /\ Len(log'[k]) = Len(log[k]) + 1
           /\ \A j \in Sink \ {k} : log'[j] = log[j]
           /\ \A j \in Sink : \A i \in DOMAIN log[j] :
                 i \in DOMAIN log'[j] /\ log'[j][i] = log[j][i]
           /\ \A i \in DOMAIN log'[k] :
                 \/ i \in DOMAIN log[k]
                 \/ i = Len(log[k]) + 1 /\ log'[k][i] = [of |-> of, fails |-> fails]
           /\ Len(log[k]) + 1 \in DOMAIN log'[k]
<1>1. [of |-> of, fails |-> fails] \in Record
  BY DEF Record
<1>2. log \in [Sink -> Seq(Record)] /\ log[k] \in Seq(Record)
  BY DEF TypeOK
<1>3. log' = [log EXCEPT ![k] = Append(log[k], [of |-> of, fails |-> fails])]
  BY DEF Add
<1>4. log'[k] = Append(log[k], [of |-> of, fails |-> fails])
      /\ \A j \in Sink \ {k} : log'[j] = log[j]
  BY <1>2, <1>3
<1>5. /\ Len(log'[k]) = Len(log[k]) + 1 /\ log'[k] \in Seq(Record)
      /\ \A i \in DOMAIN log[k] : i \in DOMAIN log'[k] /\ log'[k][i] = log[k][i]
      /\ \A i \in DOMAIN log'[k] :
            \/ i \in DOMAIN log[k]
            \/ i = Len(log[k]) + 1 /\ log'[k][i] = [of |-> of, fails |-> fails]
      /\ Len(log[k]) + 1 \in DOMAIN log'[k]
  BY <1>1, <1>2, <1>4
<1>6. log' \in [Sink -> Seq(Record)]
  BY <1>2, <1>3, <1>4, <1>5
<1> QED
  BY <1>4, <1>5, <1>6

\* The steps of a worker disturb no other.
Others(w) ==
    \A v \in Worker \ {w} :
        /\ pc'[v] = pc[v] /\ at'[v] = at[v] /\ sink'[v] = sink[v]
        /\ mine'[v] = mine[v] /\ reply'[v] = reply[v]

LocalType ==
    /\ pc \in [Worker -> Control]
    /\ at \in [Worker -> Stage]
    /\ sink \in [Worker -> Sink]
    /\ attempt \in [Worker -> Nat]
    /\ mine \in [Worker -> [Stage -> Nat]]
    /\ reply \in [Worker -> Nat]

LEMMA LeaveLocal ==
    ASSUME TypeOK, NEW w \in Worker, Leave(w)
    PROVE  /\ LocalType' /\ Others(w)
           /\ pc'[w] = "idle" /\ at'[w] = Preflight /\ sink'[w] = "product"
<1>1. Preflight \in Stage /\ "product" \in Sink /\ Blank \in [Stage -> Nat] /\ "idle" \in Control
  BY DEF Stage, Preflight, Central, Sink, Blank, Control
<1> QED
  BY <1>1 DEF TypeOK, LocalType, Leave, Others, Goto

LEMMA PassLocal ==
    ASSUME TypeOK, NEW w \in Worker, NEW r \in Nat, Pass(w, r), row' \in [Stage -> RowType]
    PROVE  /\ LocalType' /\ Others(w) /\ sealed' \in BOOLEAN
           /\ \/ pc'[w] = "idle" /\ at'[w] = Preflight /\ sink'[w] = "product"
              \/ /\ pc'[w] = "ready" /\ at'[w] = at[w] + 1
                 /\ \A s \in Stage : \/ mine'[w][s] = [mine[w] EXCEPT ![at[w]] = r][s]
                                     \/ mine'[w][s] \in row'[s].link
<1>1. CASE at[w] = Central
  <2>1. Leave(w) /\ sealed' = TRUE
    BY <1>1 DEF Pass
  <2> QED
    BY <2>1, LeaveLocal
<1>2. CASE at[w] # Central
  <2> DEFINE m == [mine[w] EXCEPT ![at[w]] = r]
             new == IF at[w] = Insight THEN Package(m) ELSE m
  <2>0. at[w] \in Stage
    BY DEF TypeOK
  <2>1. at[w] + 1 \in Stage /\ at[w] \in Stage
    BY <1>2, <2>0 DEF Stage, Preflight, Central
  <2>2. /\ pc' = [pc EXCEPT ![w] = "ready"] /\ at' = [at EXCEPT ![w] = at[w] + 1]
        /\ mine' = [mine EXCEPT ![w] = new]
        /\ reply' = [reply EXCEPT ![w] = 0] /\ attempt' = [attempt EXCEPT ![w] = 0]
        /\ sink' = [sink EXCEPT ![w] = "product"] /\ sealed' = sealed
    BY <1>2 DEF Pass, Goto, TypeOK
  <2>3. m \in [Stage -> Nat]
    BY DEF TypeOK
  <2> HIDE DEF m
  <2>4. \A s \in Stage : row'[s].link \subseteq Nat
    BY DEF RowType
  <2>5. Package(m) \in [Stage -> Nat]
    BY <2>3, <2>4 DEF Package
  <2>6. \A s \in Stage : Package(m)[s] = m[s] \/ Package(m)[s] \in row'[s].link
    BY DEF Package
  <2>7. new \in [Stage -> Nat] /\ \A s \in Stage : new[s] = m[s] \/ new[s] \in row'[s].link
    BY <2>3, <2>5, <2>6
  <2> HIDE DEF new
  <2>8. mine'[w] = new
    BY <2>2 DEF TypeOK
  <2>9. LocalType' /\ Others(w) /\ sealed' \in BOOLEAN /\ pc'[w] = "ready" /\ at'[w] = at[w] + 1
    BY <2>1, <2>2, <2>7 DEF TypeOK, LocalType, Others, Control, Sink
  <2> QED
    BY <2>7, <2>8, <2>9 DEF m
<1> QED
  BY <1>1, <1>2

LEMMA GotoLocal ==
    ASSUME TypeOK, NEW w \in Worker, NEW l \in Control, Goto(w, l),
           UNCHANGED <<at, attempt, mine>>,
           \/ sink' = sink
           \/ \E k \in Sink : sink' = [sink EXCEPT ![w] = k],
           \/ reply' = reply
           \/ \E r \in Nat : reply' = [reply EXCEPT ![w] = r]
    PROVE  /\ LocalType' /\ Others(w)
           /\ pc'[w] = l /\ at'[w] = at[w] /\ mine'[w] = mine[w]
BY DEF TypeOK, LocalType, Goto, Others

-----------------------------------------------------------------------------
(* Parts of the invariant that a step of one worker keeps.                  *)

Inv == TypeOK /\ IInv

\* A COMPLETED row says what it said, unless the stage has been turned back.
Settled ==
    /\ redone \subseteq redone'
    /\ \A s \in Stage : was[s] \subseteq was'[s]
    /\ \A s \in Stage \ redone' : row[s].status = "COMPLETED" =>
           row'[s].status = "COMPLETED" /\ row'[s].result = row[s].result

\* Checkpoints stay checkpoints.
LEMMA Kept ==
    ASSUME Settled, NEW s \in Stage, NEW r, Checkpoint(s, r)
    PROVE  Checkpoint(s, r)'
BY DEF Settled, Checkpoint

LEMMA KeepPassed ==
    ASSUME PassedOK, NEW w \in Worker, Others(w), Settled,
           at'[w] = Preflight \/ (at'[w] = at[w] /\ mine'[w] = mine[w])
    PROVE  PassedOK'
<1> SUFFICES ASSUME NEW v \in Worker, NEW s \in Stage, s < at'[v]
             PROVE  Right(v, s)'
  BY DEF PassedOK
<1>1. ~(s < Preflight)
  BY DEF Stage, Preflight, Central
<1>2. s < at[v] /\ mine'[v][s] = mine[v][s]
  BY <1>1 DEF Others
<1>3. Right(v, s)
  BY <1>2 DEF PassedOK
<1> QED
  BY <1>2, <1>3 DEF Settled, Right, Checkpoint

LEMMA KeepTold ==
    ASSUME TypeOK, ToldOK, log' = log, late' \subseteq late, Settled
    PROVE  ToldOK'
<1>1. \A k \in Sink : \A of : Told(of, k) => Told(of, k)'
  BY SinkStage, Kept DEF Told
<1>2. \A m \in late : m.sink \in Sink
  BY DEF TypeOK
<1> QED
  BY <1>1, <1>2 DEF ToldOK

\* The row of at most one stage changes, and what it says is a checkpoint.
LEMMA KeepRows ==
    ASSUME TypeOK, RowOK, Settled, NEW s \in Stage,
           \A t \in Stage \ {s} : row'[t] = row[t],
           row'[s].status = "COMPLETED" => row'[s].result \in was'[s],
           \A r \in row'[s].link :
              r \in row[s].link \/ (row'[s].status = "COMPLETED" /\ r = row'[s].result)
    PROVE  RowOK'
<1> SUFFICES ASSUME NEW t \in Stage
             PROVE  /\ row'[t].status = "COMPLETED" => row'[t].result \in was'[t]
                    /\ \A r \in row'[t].link : Checkpoint(t, r)'
  BY DEF RowOK
<1>1. row[t].status = "COMPLETED" => row[t].result \in was'[t]
  BY DEF RowOK, Settled
<1>2. \A r \in row[t].link : Checkpoint(t, r)'
  BY Kept DEF RowOK
<1>3. CASE t # s
  BY <1>1, <1>2, <1>3
<1>4. CASE t = s
  BY <1>2, <1>4 DEF Checkpoint
<1> QED
  BY <1>3, <1>4

\* Fewer workers and requests have a record to leave.
LEMMA KeepCounted ==
    ASSUME TypeOK, Counted, NEW w \in Worker, Others(w), late' \subseteq late, log' = log,
           \A k \in Sink : Pending(w, k)' => Pending(w, k),
           \A s \in Stage : row'[s].attempts = row[s].attempts
    PROVE  Counted'
<1> SUFFICES ASSUME NEW k \in Sink
             PROVE  /\ IsFiniteSet(Pend(k)') /\ IsFiniteSet(LateAt(k)')
                    /\ Len(log'[k]) + Cardinality(LateAt(k)') + Cardinality(Pend(k)')
                          <= row'[StageOf(k)].attempts
  BY DEF Counted
<1>1. Pend(k)' \subseteq Pend(k) /\ LateAt(k)' \subseteq LateAt(k)
  BY DEF Pend, Pending, LateAt, Others
<1>2. IsFiniteSet(Pend(k)) /\ IsFiniteSet(LateAt(k))
  BY DEF Counted
<1>3. /\ IsFiniteSet(Pend(k)') /\ Cardinality(Pend(k)') <= Cardinality(Pend(k))
      /\ IsFiniteSet(LateAt(k)') /\ Cardinality(LateAt(k)') <= Cardinality(LateAt(k))
  BY <1>1, <1>2, FS_Subset
<1>4. /\ Cardinality(Pend(k)') \in Nat /\ Cardinality(Pend(k)) \in Nat
      /\ Cardinality(LateAt(k)') \in Nat /\ Cardinality(LateAt(k)) \in Nat
  BY <1>2, <1>3, FS_CardinalityType
<1>5. Len(log[k]) \in Nat /\ row[StageOf(k)].attempts \in Nat
      /\ row'[StageOf(k)].attempts = row[StageOf(k)].attempts
  BY SinkStage DEF TypeOK
<1>6. Len(log[k]) + Cardinality(LateAt(k)) + Cardinality(Pend(k)) <= row[StageOf(k)].attempts
  BY DEF Counted
<1> QED
  BY <1>3, <1>4, <1>5, <1>6

\* Steps after which the rows and the records are what they were.
LEMMA AsideInv ==
    ASSUME Inv, NEW w \in Worker, Others(w), UNCHANGED <<row, redone, was, log>>,
           late' \subseteq late,
           \/ pc'[w] = "idle" /\ at'[w] = Preflight /\ sink'[w] = "product"
           \/ /\ at'[w] = at[w] /\ sink'[w] = sink[w] /\ mine'[w] = mine[w]
              /\ pc'[w] # "begun"
              /\ pc'[w] \in Asking => pc[w] \in Asking
              /\ pc'[w] = "answered" /\ at[w] = Raj => pc[w] = "answered" /\ reply'[w] = reply[w]
    PROVE  IInv'
<1>1. "idle" \notin Asking /\ Preflight # Raj /\ Preflight # Keshav
  BY DEF Asking, Preflight, Raj, Keshav
<1>2. Settled
  BY DEF Settled
<1>3. PassedOK' /\ ToldOK'
  BY <1>2, KeepPassed, KeepTold DEF Inv, IInv
<1>4. SinkOK'
  BY <1>1 DEF Inv, IInv, SinkOK, Others
<1>5. RowOK'
  BY DEF Inv, IInv, RowOK, Checkpoint
<1>6. RunOK'
  <2>1. \A n : Ran(n)' = Ran(n) /\ Failure(n)' = Failure(n)
    BY DEF Ran, Failure
  <2>2. ASSUME NEW v \in Worker
        PROVE  /\ pc'[v] = "answered" /\ at'[v] = Raj => Ran(reply'[v])
               /\ pc'[v] \in Asking /\ at'[v] = Keshav => Failure(mine'[v][Raj])
    <3>1. CASE v # w
      BY <3>1 DEF Others, Inv, IInv, RunOK
    <3>2. CASE v = w
      BY <1>1, <3>2 DEF Inv, IInv, RunOK
    <3> QED
      BY <3>1, <3>2
  <2> QED
    BY <2>1, <2>2 DEF Inv, IInv, RunOK
<1>7. KeshavOK'
  BY DEF Inv, IInv, KeshavOK, Failure, Ran
<1>8. Counted'
  <2>1. \A k \in Sink : Pending(w, k)' => Pending(w, k)
    BY <1>1 DEF Pending
  <2> QED
    BY <2>1, KeepCounted DEF Inv, IInv
<1> QED
  BY <1>3, <1>4, <1>5, <1>6, <1>7, <1>8 DEF IInv

\* What a worker asks for is made of checkpoints, and KESHAV is asked of a failure.
LEMMA AskedTold ==
    ASSUME Inv, NEW w \in Worker, pc[w] \in Asking, at[w] # Preflight
    PROVE  /\ sink[w] \in Sink /\ StageOf(sink[w]) = at[w]
           /\ Told(Asked(w, sink[w]), sink[w])
           /\ sink[w] = "keshav" => Failure(Asked(w, sink[w])[Raj])
<1>1. sink[w] \in Sink /\ StageOf(sink[w]) = at[w]
  BY DEF Inv, IInv, SinkOK, TypeOK
<1>2. Told(Asked(w, sink[w]), sink[w])
  <2> SUFFICES ASSUME NEW s \in Basis(sink[w])
               PROVE  Checkpoint(s, Asked(w, sink[w])[s])
    BY DEF Told
  <2>1. s \in Stage /\ s < at[w]
    BY <1>1, SinkStage
  <2>2. Checkpoint(s, mine[w][s])
    BY <2>1 DEF Inv, IInv, PassedOK, Right
  <2>3. Asked(w, sink[w])[s] = mine[w][s]
    BY <2>1 DEF Asked
  <2> QED
    BY <2>2, <2>3
<1>3. ASSUME sink[w] = "keshav" PROVE Failure(Asked(w, sink[w])[Raj])
  <2>1. at[w] = Keshav /\ Raj \in Basis(sink[w]) /\ Raj \in Stage
    BY <1>1, <1>3, SinkStage
  <2>2. Failure(mine[w][Raj])
    BY <2>1 DEF Inv, IInv, RunOK
  <2> QED
    BY <1>3, <2>1, <2>2 DEF Asked
<1> QED
  BY <1>1, <1>2, <1>3

\* A worker passes a stage with the result that its row has by then.
LEMMA PassInv ==
    ASSUME Inv, NEW w \in Worker, NEW r \in Nat, Pass(w, r), UNCHANGED <<redone, log, late>>,
           row' \in [Stage -> RowType],
           row'[at[w]].status = "COMPLETED", row'[at[w]].result = r,
           row'[at[w]].attempts = row[at[w]].attempts,
           \A x \in row'[at[w]].link : x \in row[at[w]].link \/ x = r,
           \A s \in Stage \ {at[w]} : row'[s] = row[s],
           row[at[w]].status = "COMPLETED" => row[at[w]].result = r,
           was' = [was EXCEPT ![at[w]] = @ \cup {r}],
           at[w] = Raj => Ran(r)
    PROVE  /\ LocalType' /\ sealed' \in BOOLEAN /\ was' \in [Stage -> SUBSET Nat]
           /\ IInv'
<1>1. /\ LocalType' /\ Others(w) /\ sealed' \in BOOLEAN
      /\ \/ pc'[w] = "idle" /\ at'[w] = Preflight /\ sink'[w] = "product"
         \/ /\ pc'[w] = "ready" /\ at'[w] = at[w] + 1
            /\ \A s \in Stage : \/ mine'[w][s] = [mine[w] EXCEPT ![at[w]] = r][s]
                                \/ mine'[w][s] \in row'[s].link
  BY PassLocal DEF Inv
<1>2. /\ pc'[w] \notin Asking /\ pc'[w] # "begun" /\ pc'[w] # "answered" /\ at[w] \in Stage
      /\ mine[w] \in [Stage -> Nat]
  BY <1>1 DEF Asking, Inv, TypeOK
<1>3. /\ was' \in [Stage -> SUBSET Nat] /\ r \in was'[at[w]]
      /\ \A s \in Stage : was[s] \subseteq was'[s]
      /\ \A s \in Stage \ {at[w]} : was'[s] = was[s]
      /\ was'[at[w]] = was[at[w]] \cup {r}
  BY <1>2 DEF Inv, TypeOK
<1>4. Settled
  <2>1. \A s \in Stage : row[s].status = "COMPLETED" =>
           row'[s].status = "COMPLETED" /\ row'[s].result = row[s].result
    OBVIOUS
  <2> QED
    BY <1>3, <2>1 DEF Settled
<1>5. RowOK'
  BY <1>2, <1>3, <1>4, KeepRows DEF Inv, IInv
<1>6. PassedOK'
  <2> SUFFICES ASSUME NEW v \in Worker, NEW s \in Stage, s < at'[v]
               PROVE  Right(v, s)'
    BY DEF PassedOK
  <2>1. CASE v # w
    <3>1. s < at[v] /\ mine'[v][s] = mine[v][s]
      BY <1>1, <2>1 DEF Others
    <3>2. Right(v, s)
      BY <3>1 DEF Inv, IInv, PassedOK
    <3> QED
      BY <1>4, <3>1, <3>2 DEF Right, Checkpoint, Settled
  <2>2. CASE v = w /\ mine'[w][s] \in row'[s].link
    BY <1>5, <2>2 DEF RowOK, Right
  <2>3. CASE v = w /\ mine'[w][s] \notin row'[s].link
    <3>1. at'[w] = at[w] + 1 /\ mine'[w][s] = [mine[w] EXCEPT ![at[w]] = r][s]
      <4>1. at'[w] # Preflight
        BY <2>3 DEF Preflight, Stage, Central
      <4> QED
        BY <1>1, <2>3, <4>1
    <3>2. CASE s = at[w]
      <4>1. mine'[w][s] = r
        BY <1>2, <3>1, <3>2
      <4> QED
        BY <1>3, <2>3, <3>2, <4>1 DEF Right, Checkpoint
    <3>3. CASE s # at[w]
      <4>1. mine'[w][s] = mine[w][s] /\ s < at[w]
        BY <1>2, <2>3, <3>1, <3>3 DEF Preflight, Stage, Central
      <4>2. Right(w, s)
        BY <4>1 DEF Inv, IInv, PassedOK
      <4> QED
        BY <1>4, <2>3, <4>1, <4>2 DEF Right, Checkpoint, Settled
    <3> QED
      BY <3>2, <3>3
  <2> QED
    BY <2>1, <2>2, <2>3
<1>7. SinkOK'
  <2>1. at[w] + 1 # Preflight
    BY <1>2 DEF Stage, Preflight, Central
  <2> QED
    BY <1>1, <1>2, <2>1 DEF Inv, IInv, SinkOK, Others
<1>8. ToldOK'
  BY <1>4, KeepTold DEF Inv, IInv
<1>9. RunOK'
  <2>1. \A n : Ran(n)' = Ran(n) /\ Failure(n)' = Failure(n)
    BY DEF Ran, Failure
  <2>2. \A x \in was'[Raj] : Ran(x)
    <3>1. Raj \in Stage
      BY DEF Stage, Raj, Preflight, Central
    <3> QED
      BY <1>3, <3>1 DEF Inv, IInv, RunOK
  <2> QED
    BY <1>1, <1>2, <2>1, <2>2 DEF Inv, IInv, RunOK, Others
<1>10. KeshavOK'
  BY DEF Inv, IInv, KeshavOK, Failure, Ran
<1>11. Counted'
  <2>1. \A k \in Sink : Pending(w, k)' => Pending(w, k)
    BY <1>2 DEF Pending
  <2>2. \A s \in Stage : row'[s].attempts = row[s].attempts
    OBVIOUS
  <2> QED
    BY <1>1, <2>1, <2>2, KeepCounted DEF Inv, IInv
<1> QED
  BY <1>1, <1>3, <1>5, <1>6, <1>7, <1>8, <1>9, <1>10, <1>11 DEF IInv

\* The owner that a worker asks has made its record, and the worker turns to the
\* answer, to the next request of its stage, or to the end of its attempt.
LEMMA RecordInv ==
    ASSUME Inv, NEW w \in Worker, Others(w), pc[w] \in Asking, at[w] # Preflight,
           NEW fails \in BOOLEAN, Add(sink[w], Asked(w, sink[w]), fails),
           UNCHANGED <<row, redone, was, late>>,
           at'[w] = at[w], mine'[w] = mine[w],
           \/ /\ pc'[w] \in {"answered", "refused"}
              /\ pc'[w] = "answered" => reply'[w] = Len(log[sink[w]]) + 1
           \/ pc'[w] \in Asking /\ sink[w] = "karma-strict" /\ sink'[w] = "prana-core"
    PROVE  log' \in [Sink -> Seq(Record)] /\ IInv'
<1> DEFINE K == sink[w]
           of == Asked(w, K)
           R(n) == n \in DOMAIN log'["product"]
           F(n) == R(n) /\ log'["product"][n].fails
<1>1. /\ K \in Sink /\ StageOf(K) = at[w] /\ Told(of, K) /\ of \in [Stage -> Nat]
      /\ K = "keshav" => Failure(of[Raj])
  BY AskedTold, AskedType DEF Inv
<1>2. /\ log' \in [Sink -> Seq(Record)]
      /\ Len(log'[K]) = Len(log[K]) + 1
      /\ \A j \in Sink \ {K} : log'[j] = log[j]
      /\ \A j \in Sink : \A i \in DOMAIN log[j] :
            i \in DOMAIN log'[j] /\ log'[j][i] = log[j][i]
      /\ \A i \in DOMAIN log'[K] :
            \/ i \in DOMAIN log[K]
            \/ i = Len(log[K]) + 1 /\ log'[K][i] = [of |-> of, fails |-> fails]
      /\ Len(log[K]) + 1 \in DOMAIN log'[K]
  BY <1>1, AddRecord DEF Inv
<1> HIDE DEF K, of
<1>3. /\ "answered" \notin Asking /\ "refused" \notin Asking /\ "begun" \notin Asking
      /\ pc'[w] # "begun"
  BY DEF Asking
<1>4. PassedOK' /\ RowOK'
  <2>1. Settled
    BY DEF Settled
  <2> QED
    BY <2>1, KeepPassed DEF Inv, IInv, RowOK, Checkpoint
<1>5. SinkOK'
  <2>1. StageOf("karma-strict") = StageOf("prana-core")
    BY DEF StageOf
  <2> QED
    BY <1>1, <1>3, <2>1 DEF Inv, IInv, SinkOK, Others, K
<1>6. ToldOK'
  <2>1. \A j \in Sink : \A o : Told(o, j)' = Told(o, j)
    BY DEF Told, Checkpoint
  <2>2. \A m \in late : m.sink \in Sink
    BY DEF Inv, TypeOK
  <2>3. ASSUME NEW j \in Sink, NEW i \in DOMAIN log'[j]
        PROVE  Told(log'[j][i].of, j)
    <3>1. CASE i \in DOMAIN log[j]
      BY <1>2, <3>1 DEF Inv, IInv, ToldOK
    <3>2. CASE i \notin DOMAIN log[j]
      <4>1. j = K
        BY <1>2, <3>2
      <4>2. log'[j][i].of = of
        BY <1>2, <3>2, <4>1
      <4> QED
        BY <1>1, <4>1, <4>2
    <3> QED
      BY <3>1, <3>2
  <2> QED
    BY <2>1, <2>2, <2>3 DEF Inv, IInv, ToldOK
<1>7. \A n : (Ran(n) => R(n)) /\ (Failure(n) => F(n))
  <2>1. "product" \in Sink
    BY DEF Sink
  <2> QED
    BY <1>2, <2>1 DEF Ran, Failure
<1>8. RunOK'
  <2>1. ASSUME at[w] = Raj PROVE R(Len(log[K]) + 1)
    <3>1. K = "product"
      BY <1>1, <2>1, SinkStage
    <3> QED
      BY <1>2, <3>1
  <2>2. ASSUME NEW v \in Worker
        PROVE  /\ pc'[v] = "answered" /\ at'[v] = Raj => R(reply'[v])
               /\ pc'[v] \in Asking /\ at'[v] = Keshav => F(mine'[v][Raj])
    <3>1. CASE v # w
      BY <1>7, <3>1 DEF Others, Inv, IInv, RunOK
    <3>2. CASE v = w
      BY <1>3, <1>7, <2>1, <3>2 DEF Inv, IInv, RunOK, K
    <3> QED
      BY <3>1, <3>2
  <2> QED
    BY <1>7, <2>2 DEF Inv, IInv, RunOK, Ran, Failure
<1>9. KeshavOK'
  <2>1. ASSUME NEW i \in DOMAIN log'["keshav"]
        PROVE  F(log'["keshav"][i].of[Raj])
    <3>0. "keshav" \in Sink
      BY DEF Sink
    <3>1. CASE i \in DOMAIN log["keshav"]
      BY <1>2, <1>7, <3>0, <3>1 DEF Inv, IInv, KeshavOK
    <3>2. CASE i \notin DOMAIN log["keshav"]
      <4>1. "keshav" = K
        BY <1>2, <3>0, <3>2
      <4>2. log'["keshav"][i].of = of
        BY <1>2, <3>2, <4>1
      <4> QED
        BY <1>1, <1>7, <4>1, <4>2
    <3> QED
      BY <3>1, <3>2
  <2> QED
    BY <1>7, <2>1 DEF Inv, IInv, KeshavOK, Failure, Ran
<1>10. Counted'
  <2> SUFFICES ASSUME NEW k \in Sink
               PROVE  /\ IsFiniteSet(Pend(k)') /\ IsFiniteSet(LateAt(k)')
                      /\ Len(log'[k]) + Cardinality(LateAt(k)') + Cardinality(Pend(k)')
                            <= row'[StageOf(k)].attempts
    BY DEF Counted
  <2>1. /\ IsFiniteSet(Pend(k)) /\ IsFiniteSet(LateAt(k))
        /\ Len(log[k]) + Cardinality(LateAt(k)) + Cardinality(Pend(k)) <= row[StageOf(k)].attempts
    BY DEF Inv, IInv, Counted
  <2>2. LateAt(k)' = LateAt(k)
    BY DEF LateAt
  <2>3. /\ Len(log[k]) \in Nat /\ Len(log'[k]) \in Nat
        /\ row[StageOf(k)].attempts \in Nat /\ row' = row
    <3>1. StageOf(k) \in Stage /\ log[k] \in Seq(Record) /\ log'[k] \in Seq(Record)
      BY <1>2, SinkStage DEF Inv, TypeOK
    <3>2. row[StageOf(k)] \in RowType
      BY <3>1 DEF Inv, TypeOK, RowType
    <3> QED
      BY <3>1, <3>2 DEF RowType
  <2>4. CASE k = K
    <3>1. w \in Pend(k)
      BY <1>1, <2>4 DEF Pend, Pending, K
    <3>2. Pend(k)' \subseteq Pend(k) \ {w}
      BY <1>3, <2>4 DEF Pend, Pending, Others, K
    <3>3. IsFiniteSet(Pend(k) \ {w}) /\ Cardinality(Pend(k) \ {w}) = Cardinality(Pend(k)) - 1
      BY <2>1, <3>1, FS_RemoveElement
    <3>4. IsFiniteSet(Pend(k)') /\ Cardinality(Pend(k)') <= Cardinality(Pend(k)) - 1
      BY <3>2, <3>3, FS_Subset
    <3>5. Cardinality(Pend(k)') \in Nat /\ Cardinality(Pend(k)) \in Nat
          /\ Cardinality(LateAt(k)) \in Nat
      BY <2>1, <3>4, FS_CardinalityType
    <3>6. Len(log'[k]) = Len(log[k]) + 1
      BY <1>2, <2>4
    <3> QED
      BY <2>1, <2>2, <2>3, <3>4, <3>5, <3>6
  <2>5. CASE k # K
    <3>1. Pend(k)' \subseteq Pend(k)
      BY <1>3, <2>5 DEF Pend, Pending, Others, K
    <3>2. IsFiniteSet(Pend(k)') /\ Cardinality(Pend(k)') <= Cardinality(Pend(k))
      BY <2>1, <3>1, FS_Subset
    <3>3. Cardinality(Pend(k)') \in Nat /\ Cardinality(Pend(k)) \in Nat
          /\ Cardinality(LateAt(k)) \in Nat
      BY <2>1, <3>2, FS_CardinalityType
    <3>4. log'[k] = log[k]
      BY <1>2, <2>5
    <3> QED
      BY <2>1, <2>2, <2>3, <3>2, <3>3, <3>4
  <2> QED
    BY <2>4, <2>5
<1> QED
  BY <1>2, <1>4, <1>5, <1>6, <1>8, <1>9, <1>10 DEF IInv

\* The COMMIT of an attempt: the row has one more, and the worker a record to leave.
LEMMA CommitInv ==
    ASSUME Inv, NEW w \in Worker, pc[w] = "ready", row[at[w]].status # "COMPLETED",
           Commit(w, row[at[w]].attempts + 1), UNCHANGED <<history, log, late>>
    PROVE  row' \in [Stage -> RowType] /\ LocalType' /\ IInv'
<1> DEFINE S == at[w]
           n == row[S].attempts + 1
<1>1. /\ S \in Stage /\ n \in Nat /\ row[S].attempts \in Nat /\ row[S].status # "COMPLETED"
      /\ row \in [Stage -> RowType] /\ \A s \in Stage : row[s] \in RowType
  BY DEF Inv, TypeOK, RowType
<1>2. /\ row' = [row EXCEPT ![S].status = "RUNNING", ![S].attempts = n, ![S].result = 0]
      /\ Goto(w, "begun")
      /\ UNCHANGED <<redone, was, log, late, sealed, at, sink, attempt, mine, reply>>
  BY DEF Commit, history
<1> HIDE DEF n, S
<1>3. /\ row' \in [Stage -> RowType] /\ \A s \in Stage \ {S} : row'[s] = row[s]
      /\ row'[S].status # "COMPLETED" /\ row'[S].attempts = n /\ row'[S].link = row[S].link
  BY <1>1, <1>2 DEF RowType, Status
<1>4. LocalType' /\ Others(w) /\ pc'[w] = "begun" /\ at'[w] = at[w] /\ mine'[w] = mine[w]
  BY <1>2, GotoLocal DEF Inv, Control
<1>5. Settled
  BY <1>1, <1>2, <1>3 DEF Settled
<1>6. PassedOK' /\ ToldOK'
  BY <1>2, <1>4, <1>5, KeepPassed, KeepTold DEF Inv, IInv
<1>7. RowOK'
  BY <1>1, <1>3, <1>5, KeepRows DEF Inv, IInv
<1>8. SinkOK'
  <2>1. "begun" \notin Asking
    BY DEF Asking
  <2> QED
    BY <1>2, <1>4, <2>1 DEF Inv, IInv, SinkOK, Others
<1>9. RunOK' /\ KeshavOK'
  <2>1. "begun" \notin Asking
    BY DEF Asking
  <2>2. \A i : Ran(i)' = Ran(i) /\ Failure(i)' = Failure(i)
    BY <1>2 DEF Ran, Failure
  <2> QED
    BY <1>2, <1>4, <2>1, <2>2 DEF Inv, IInv, RunOK, KeshavOK, Others
<1>10. Counted'
  <2> SUFFICES ASSUME NEW k \in Sink
               PROVE  /\ IsFiniteSet(Pend(k)') /\ IsFiniteSet(LateAt(k)')
                      /\ Len(log'[k]) + Cardinality(LateAt(k)') + Cardinality(Pend(k)')
                            <= row'[StageOf(k)].attempts
    BY DEF Counted
  <2>1. /\ IsFiniteSet(Pend(k)) /\ IsFiniteSet(LateAt(k))
        /\ Len(log[k]) + Cardinality(LateAt(k)) + Cardinality(Pend(k)) <= row[StageOf(k)].attempts
    BY DEF Inv, IInv, Counted
  <2>2. LateAt(k)' = LateAt(k) /\ log' = log
    BY <1>2 DEF LateAt
  <2>3. StageOf(k) \in Stage /\ log[k] \in Seq(Record)
    BY SinkStage DEF Inv, TypeOK
  <2>4. Len(log[k]) \in Nat /\ row[StageOf(k)].attempts \in Nat
    BY <1>1, <2>3 DEF RowType
  <2>5. CASE StageOf(k) = S
    <3>1. w \notin Pend(k)
      <4>1. "ready" \notin Asking
        BY DEF Asking
      <4> QED
        BY <4>1 DEF Pend, Pending
    <3>2. Pend(k)' \subseteq Pend(k) \cup {w}
      BY <1>2, <1>4 DEF Pend, Pending, Others
    <3>3. /\ IsFiniteSet(Pend(k) \cup {w})
          /\ Cardinality(Pend(k) \cup {w}) = Cardinality(Pend(k)) + 1
      BY <2>1, <3>1, FS_AddElement
    <3>4. IsFiniteSet(Pend(k)') /\ Cardinality(Pend(k)') <= Cardinality(Pend(k)) + 1
      BY <3>2, <3>3, FS_Subset
    <3>5. Cardinality(Pend(k)') \in Nat /\ Cardinality(Pend(k)) \in Nat
          /\ Cardinality(LateAt(k)) \in Nat
      BY <2>1, <3>4, FS_CardinalityType
    <3>6. row'[StageOf(k)].attempts = row[StageOf(k)].attempts + 1
      BY <1>1, <1>3, <2>5 DEF n
    <3> QED
      BY <2>1, <2>2, <2>4, <3>4, <3>5, <3>6
  <2>6. CASE StageOf(k) # S
    <3>1. Pend(k)' \subseteq Pend(k)
      BY <1>2, <1>4, <2>6 DEF Pend, Pending, Others, S
    <3>2. IsFiniteSet(Pend(k)') /\ Cardinality(Pend(k)') <= Cardinality(Pend(k))
      BY <2>1, <3>1, FS_Subset
    <3>3. Cardinality(Pend(k)') \in Nat /\ Cardinality(Pend(k)) \in Nat
          /\ Cardinality(LateAt(k)) \in Nat
      BY <2>1, <3>2, FS_CardinalityType
    <3>4. row'[StageOf(k)] = row[StageOf(k)]
      BY <1>3, <2>3, <2>6
    <3> QED
      BY <2>1, <2>2, <2>4, <3>2, <3>3, <3>4
  <2> QED
    BY <2>5, <2>6
<1> QED
  BY <1>3, <1>4, <1>6, <1>7, <1>8, <1>9, <1>10 DEF IInv

\* The attempt is read again, and the worker turns to the owner that it asks.
LEMMA ReadInv ==
    ASSUME Inv, NEW w \in Worker, ReadAttempt(w)
    PROVE  Inv'
<1>1. /\ pc[w] = "begun" /\ at[w] \in Stage /\ row[at[w]].attempts \in Nat
      /\ attempt' = [attempt EXCEPT ![w] = row[at[w]].attempts]
      /\ sink' = IF at[w] = Preflight THEN sink ELSE [sink EXCEPT ![w] = FirstOf(at[w])]
      /\ UNCHANGED <<redone, was, row, log, dataset, late, sealed, at, mine, reply, calls, faults>>
  BY DEF ReadAttempt, history, Inv, TypeOK
<1>2. PICK l \in {"answered", "lookup", "asking"} :
         Goto(w, l) /\ (l = "answered" => Skips(w)) /\ (l # "answered" => ~Skips(w))
  BY DEF ReadAttempt
<1>3. at[w] # Preflight => FirstOf(at[w]) \in Sink /\ StageOf(FirstOf(at[w])) = at[w]
  BY <1>1, FirstSink
<1>4. sink' \in [Worker -> Sink] /\ (at[w] # Preflight => sink'[w] = FirstOf(at[w]))
      /\ \A v \in Worker \ {w} : sink'[v] = sink[v]
  BY <1>1, <1>3 DEF Inv, TypeOK
<1>5. pc' = [pc EXCEPT ![w] = l] /\ l \in Control
  BY <1>2 DEF Goto, Control
<1>6. /\ LocalType' /\ Others(w) /\ pc'[w] = l /\ at'[w] = at[w] /\ mine'[w] = mine[w]
  BY <1>1, <1>4, <1>5 DEF Inv, TypeOK, LocalType, Others
<1>7. TypeOK'
  BY <1>1, <1>6 DEF Inv, TypeOK, LocalType
<1>8. Settled
  BY <1>1 DEF Settled
<1>9. PassedOK' /\ ToldOK'
  BY <1>1, <1>6, <1>8, KeepPassed, KeepTold DEF Inv, IInv
<1>10. RowOK'
  BY <1>1 DEF Inv, IInv, RowOK, Checkpoint
<1>11. SinkOK'
  <2>1. at'[w] = Preflight => sink'[w] = "product"
    BY <1>1, <1>6 DEF Inv, IInv, SinkOK
  <2>2. at'[w] # Preflight => StageOf(sink'[w]) = at'[w]
    BY <1>3, <1>4, <1>6
  <2> QED
    BY <1>6, <2>1, <2>2 DEF Inv, IInv, SinkOK, Others
<1>12. RunOK' /\ KeshavOK'
  <2>1. \A i : Ran(i)' = Ran(i) /\ Failure(i)' = Failure(i)
    BY <1>1 DEF Ran, Failure
  <2>2. /\ ~(pc'[w] = "answered" /\ at'[w] = Raj)
        /\ pc'[w] \in Asking /\ at'[w] = Keshav => Failure(mine'[w][Raj])
    <3>1. at[w] = Keshav => Ran(mine[w][Raj])
      <4>1. Raj \in Stage /\ Raj < Keshav
        BY DEF Stage, Preflight, Central, Raj, Keshav
      <4> QED
        BY <4>1 DEF Inv, IInv, PassedOK, Right, Checkpoint, RunOK
    <3>2. Keshav # Raj /\ "answered" \notin Asking
      BY DEF Keshav, Raj, Asking
    <3> QED
      BY <1>2, <1>6, <3>1, <3>2 DEF Skips, Failure
  <2> QED
    BY <1>1, <1>6, <2>1, <2>2 DEF Inv, IInv, RunOK, KeshavOK, Others
<1>13. Counted'
  <2>1. \A k \in Sink : Pending(w, k)' => Pending(w, k)
    BY <1>1 DEF Pending
  <2> QED
    BY <1>1, <1>6, <2>1, KeepCounted DEF Inv, IInv
<1> QED
  BY <1>7, <1>9, <1>10, <1>11, <1>12, <1>13 DEF Inv, IInv

\* A request goes on its way without its sender.
LEMMA LateInv ==
    ASSUME Inv, NEW w \in Worker, Others(w), pc[w] \in Asking, at[w] # Preflight,
           pc'[w] = "refused", at'[w] = at[w], mine'[w] = mine[w],
           sink'[w] = sink[w],
           UNCHANGED <<row, redone, was, log>>,
           late' = late \cup {[sink |-> sink[w], of |-> Asked(w, sink[w]),
                               attempt |-> attempt[w], by |-> w]}
    PROVE  late' \subseteq LateType /\ IInv'
<1> DEFINE new == [sink |-> sink[w], of |-> Asked(w, sink[w]), attempt |-> attempt[w], by |-> w]
<1>1. /\ sink[w] \in Sink /\ StageOf(sink[w]) = at[w] /\ Told(new.of, sink[w])
      /\ new.sink = sink[w] /\ new.sink = "keshav" => Failure(new.of[Raj])
  BY AskedTold
<1>2. late' = late \cup {new}
  OBVIOUS
<1>3. new \in LateType
  BY <1>1, AskedType DEF Inv, TypeOK, LateType
<1> HIDE DEF new
<1>4. late' \subseteq LateType
  BY <1>2, <1>3 DEF Inv, TypeOK, LateType
<1>5. "refused" \notin Asking
  BY DEF Asking
<1>6. PassedOK' /\ SinkOK' /\ RowOK'
  <2>1. Settled
    BY DEF Settled
  <2> QED
    BY <1>5, <2>1, KeepPassed DEF Inv, IInv, SinkOK, RowOK, Checkpoint, Others
<1>7. ToldOK'
  BY <1>1, <1>2 DEF Inv, IInv, ToldOK, Told, Checkpoint
<1>8. RunOK'
  BY <1>5 DEF Inv, IInv, RunOK, Others, Ran, Failure
<1>9. KeshavOK'
  BY <1>1, <1>2 DEF Inv, IInv, KeshavOK, Failure, Ran
<1>10. Counted'
  <2> SUFFICES ASSUME NEW k \in Sink
               PROVE  /\ IsFiniteSet(Pend(k)') /\ IsFiniteSet(LateAt(k)')
                      /\ Len(log'[k]) + Cardinality(LateAt(k)') + Cardinality(Pend(k)')
                            <= row'[StageOf(k)].attempts
    BY DEF Counted
  <2>1. /\ IsFiniteSet(Pend(k)) /\ IsFiniteSet(LateAt(k))
        /\ Len(log[k]) + Cardinality(LateAt(k)) + Cardinality(Pend(k)) <= row[StageOf(k)].attempts
    BY DEF Inv, IInv, Counted
  <2>2. StageOf(k) \in Stage /\ log[k] \in Seq(Record)
    BY SinkStage DEF Inv, TypeOK
  <2>3. Len(log[k]) \in Nat /\ row[StageOf(k)].attempts \in Nat
    BY <2>2 DEF Inv, TypeOK
  <2>4. CASE k = sink[w]
    <3>1. w \in Pend(k)
      BY <1>1, <2>4 DEF Pend, Pending
    <3>2. Pend(k)' \subseteq Pend(k) \ {w}
      BY <1>5 DEF Pend, Pending, Others
    <3>3. IsFiniteSet(Pend(k) \ {w}) /\ Cardinality(Pend(k) \ {w}) = Cardinality(Pend(k)) - 1
      BY <2>1, <3>1, FS_RemoveElement
    <3>4. IsFiniteSet(Pend(k)') /\ Cardinality(Pend(k)') <= Cardinality(Pend(k)) - 1
      BY <3>2, <3>3, FS_Subset
    <3>5. LateAt(k)' \subseteq LateAt(k) \cup {new}
      BY <1>2 DEF LateAt
    <3>6. /\ IsFiniteSet(LateAt(k) \cup {new})
          /\ Cardinality(LateAt(k) \cup {new}) = Cardinality(LateAt(k))
             \/ Cardinality(LateAt(k) \cup {new}) = Cardinality(LateAt(k)) + 1
      BY <2>1, FS_AddElement
    <3>7. /\ IsFiniteSet(LateAt(k)')
          /\ Cardinality(LateAt(k)') <= Cardinality(LateAt(k) \cup {new})
      BY <3>5, <3>6, FS_Subset
    <3>8. /\ Cardinality(Pend(k)') \in Nat /\ Cardinality(Pend(k)) \in Nat
          /\ Cardinality(LateAt(k)) \in Nat /\ Cardinality(LateAt(k)') \in Nat
      BY <2>1, <3>4, <3>7, FS_CardinalityType
    <3>9. Cardinality(LateAt(k)') <= Cardinality(LateAt(k)) + 1
      BY <3>6, <3>7, <3>8
    <3> QED
      BY <2>1, <2>3, <3>4, <3>7, <3>8, <3>9
  <2>5. CASE k # sink[w]
    <3>1. Pend(k)' \subseteq Pend(k)
      BY <1>5 DEF Pend, Pending, Others
    <3>2. IsFiniteSet(Pend(k)') /\ Cardinality(Pend(k)') <= Cardinality(Pend(k))
      BY <2>1, <3>1, FS_Subset
    <3>3. LateAt(k)' = LateAt(k)
      BY <1>1, <1>2, <2>5 DEF LateAt
    <3>4. Cardinality(Pend(k)') \in Nat /\ Cardinality(Pend(k)) \in Nat
          /\ Cardinality(LateAt(k)) \in Nat
      BY <2>1, <3>2, FS_CardinalityType
    <3> QED
      BY <2>1, <2>3, <3>2, <3>3, <3>4
  <2> QED
    BY <2>4, <2>5
<1> QED
  BY <1>4, <1>6, <1>7, <1>8, <1>9, <1>10 DEF IInv

\* The row of the stage says FAILED, or a fault of the store has struck after it
\* was COMPLETED: it has no other link than before, and what was COMPLETED is so
\* still or has been turned back.
LEMMA FailedInv ==
    ASSUME Inv, NEW w \in Worker, Others(w), UNCHANGED <<log, late>>, Settled,
           \A s \in Stage \ {at[w]} : row'[s] = row[s],
           row'[at[w]].attempts = row[at[w]].attempts,
           row'[at[w]].link = row[at[w]].link,
           row'[at[w]].status = "COMPLETED" => row'[at[w]].result \in was'[at[w]],
           at[w] # Raj => was'[Raj] = was[Raj],
           at[w] = Raj => \A r \in was'[Raj] : r \in was[Raj] \/ Ran(r),
           \/ pc'[w] = "idle" /\ at'[w] = Preflight /\ sink'[w] = "product"
           \/ /\ pc'[w] = "refused" /\ at'[w] = at[w] /\ mine'[w] = mine[w]
              /\ sink'[w] = sink[w]
    PROVE  IInv'
<1>1. /\ pc'[w] # "answered" /\ pc'[w] \notin Asking /\ pc'[w] # "begun"
      /\ at[w] \in Stage
  BY DEF Asking, Inv, TypeOK
<1>2. PassedOK' /\ ToldOK'
  BY KeepPassed, KeepTold DEF Inv, IInv
<1>3. RowOK'
  BY <1>1, KeepRows DEF Inv, IInv
<1>4. SinkOK'
  BY <1>1 DEF Inv, IInv, SinkOK, Others
<1>5. RunOK' /\ KeshavOK'
  <2>1. \A n : Ran(n)' = Ran(n) /\ Failure(n)' = Failure(n)
    BY DEF Ran, Failure
  <2>2. \A r \in was'[Raj] : Ran(r)
    BY DEF Inv, IInv, RunOK
  <2> QED
    BY <1>1, <2>1, <2>2 DEF Inv, IInv, RunOK, KeshavOK, Others
<1>6. Counted'
  <2>1. \A k \in Sink : Pending(w, k)' => Pending(w, k)
    BY <1>1 DEF Pending
  <2>2. \A s \in Stage : row'[s].attempts = row[s].attempts
    OBVIOUS
  <2> QED
    BY <2>1, <2>2, KeepCounted DEF Inv, IInv
<1> QED
  BY <1>2, <1>3, <1>4, <1>5, <1>6 DEF IInv

\* An owner gets to a request without a sender.
LEMMA ServeInv ==
    ASSUME Inv, NEW m \in late, ServeLate(m)
    PROVE  TypeOK' /\ IInv'
<1>1. m \in LateType
  BY DEF Inv, TypeOK, LateType
<1>2. /\ m.sink \in Sink /\ m.of \in [Stage -> Nat] /\ Told(m.of, m.sink)
      /\ m.sink = "keshav" => Failure(m.of[Raj])
  BY <1>1 DEF Inv, IInv, ToldOK, KeshavOK, LateType
<1>3. /\ late' = late \ {m} /\ UNCHANGED <<redone, was, row, dataset, sealed, calls, faults>>
      /\ UNCHANGED <<pc, at, sink, attempt, mine, reply>>
  BY DEF ServeLate, local, history
<1>4. PassedOK' /\ SinkOK' /\ RowOK'
  BY <1>3 DEF Inv, IInv, PassedOK, SinkOK, RowOK, Right, Checkpoint
<1>5. CASE log' = log
  <2>1. ToldOK' /\ RunOK' /\ KeshavOK'
    BY <1>3, <1>5 DEF Inv, IInv, ToldOK, RunOK, KeshavOK, Told, Checkpoint, Ran, Failure
  <2>2. Counted'
    <3> SUFFICES ASSUME NEW k \in Sink
                 PROVE  /\ IsFiniteSet(Pend(k)') /\ IsFiniteSet(LateAt(k)')
                        /\ Len(log'[k]) + Cardinality(LateAt(k)') + Cardinality(Pend(k)')
                              <= row'[StageOf(k)].attempts
      BY DEF Counted
    <3>1. /\ IsFiniteSet(Pend(k)) /\ IsFiniteSet(LateAt(k))
          /\ Len(log[k]) + Cardinality(LateAt(k)) + Cardinality(Pend(k)) <= row[StageOf(k)].attempts
      BY DEF Inv, IInv, Counted
    <3>2. StageOf(k) \in Stage /\ log[k] \in Seq(Record)
      BY SinkStage DEF Inv, TypeOK
    <3>3. Len(log[k]) \in Nat /\ row[StageOf(k)].attempts \in Nat
      BY <3>2 DEF Inv, TypeOK
    <3>4. Pend(k)' = Pend(k)
      BY <1>3 DEF Pend, Pending
    <3>5. LateAt(k)' \subseteq LateAt(k)
      BY <1>3 DEF LateAt
    <3>6. IsFiniteSet(LateAt(k)') /\ Cardinality(LateAt(k)') <= Cardinality(LateAt(k))
      BY <3>1, <3>5, FS_Subset
    <3>7. Cardinality(Pend(k)) \in Nat /\ Cardinality(LateAt(k)) \in Nat
          /\ Cardinality(LateAt(k)') \in Nat
      BY <3>1, <3>6, FS_CardinalityType
    <3> QED
      BY <1>3, <1>5, <3>1, <3>3, <3>4, <3>6, <3>7
  <2>3. TypeOK'
    BY <1>3, <1>5 DEF Inv, TypeOK
  <2> QED
    BY <1>4, <2>1, <2>2, <2>3 DEF IInv
<1>6. CASE log' # log
  <2> DEFINE R(n) == n \in DOMAIN log'["product"]
             F(n) == R(n) /\ log'["product"][n].fails
             K == m.sink
  <2>1. PICK fails \in BOOLEAN : Add(K, m.of, fails)
    BY <1>6 DEF ServeLate, Outcome
  <2>2. /\ log' \in [Sink -> Seq(Record)]
        /\ Len(log'[K]) = Len(log[K]) + 1
        /\ \A j \in Sink \ {K} : log'[j] = log[j]
        /\ \A j \in Sink : \A i \in DOMAIN log[j] :
              i \in DOMAIN log'[j] /\ log'[j][i] = log[j][i]
        /\ \A i \in DOMAIN log'[K] :
              \/ i \in DOMAIN log[K]
              \/ i = Len(log[K]) + 1 /\ log'[K][i] = [of |-> m.of, fails |-> fails]
    BY <1>2, <2>1, AddRecord DEF Inv
  <2> HIDE DEF K
  <2>3. ToldOK'
    <3>1. ASSUME NEW j \in Sink, NEW i \in DOMAIN log'[j]
          PROVE  Told(log'[j][i].of, j)
      <4>1. CASE i \in DOMAIN log[j]
        BY <2>2, <4>1 DEF Inv, IInv, ToldOK
      <4>2. CASE i \notin DOMAIN log[j]
        <5>1. j = K
          BY <2>2, <4>2
        <5>2. log'[j][i].of = m.of
          BY <2>2, <4>2, <5>1
        <5> QED
          BY <1>2, <5>1, <5>2 DEF K
      <4> QED
        BY <4>1, <4>2
    <3> QED
      BY <1>3, <3>1 DEF Inv, IInv, ToldOK, Told, Checkpoint
  <2>4. \A n : (Ran(n) => R(n)) /\ (Failure(n) => F(n))
    <3>1. "product" \in Sink
      BY DEF Sink
    <3> QED
      BY <2>2, <3>1 DEF Ran, Failure
  <2>5. \A n : Ran(n)' = R(n) /\ Failure(n)' = F(n)
    BY DEF Ran, Failure
  <2> HIDE DEF R, F
  <2>6. RunOK'
    <3>1. \A r \in was[Raj] : R(r)
      BY <2>4 DEF Inv, IInv, RunOK
    <3>2. \A v \in Worker : /\ pc[v] = "answered" /\ at[v] = Raj => R(reply[v])
                            /\ pc[v] \in Asking /\ at[v] = Keshav => F(mine[v][Raj])
      BY <2>4 DEF Inv, IInv, RunOK
    <3> QED
      BY <1>3, <2>5, <3>1, <3>2 DEF RunOK
  <2>7. KeshavOK'
    <3>1. ASSUME NEW i \in DOMAIN log'["keshav"] PROVE F(log'["keshav"][i].of[Raj])
      <4>0. "keshav" \in Sink
        BY DEF Sink
      <4>1. CASE i \in DOMAIN log["keshav"]
        BY <2>2, <2>4, <4>0, <4>1 DEF Inv, IInv, KeshavOK
      <4>2. CASE i \notin DOMAIN log["keshav"]
        <5>1. "keshav" = K
          BY <2>2, <4>0, <4>2
        <5>2. log'["keshav"][i].of = m.of
          BY <2>2, <4>2, <5>1
        <5> QED
          BY <1>2, <2>4, <5>1, <5>2 DEF K
      <4> QED
        BY <4>1, <4>2
    <3>2. \A l \in late' : l.sink = "keshav" => F(l.of[Raj])
      BY <1>3, <2>4 DEF Inv, IInv, KeshavOK
    <3> QED
      BY <2>5, <3>1, <3>2 DEF KeshavOK
  <2>8. Counted'
    <3> SUFFICES ASSUME NEW k \in Sink
                 PROVE  /\ IsFiniteSet(Pend(k)') /\ IsFiniteSet(LateAt(k)')
                        /\ Len(log'[k]) + Cardinality(LateAt(k)') + Cardinality(Pend(k)')
                              <= row'[StageOf(k)].attempts
      BY DEF Counted
    <3>1. /\ IsFiniteSet(Pend(k)) /\ IsFiniteSet(LateAt(k))
          /\ Len(log[k]) + Cardinality(LateAt(k)) + Cardinality(Pend(k)) <= row[StageOf(k)].attempts
      BY DEF Inv, IInv, Counted
    <3>2. StageOf(k) \in Stage /\ log[k] \in Seq(Record)
      BY SinkStage DEF Inv, TypeOK
    <3>3. Len(log[k]) \in Nat /\ row[StageOf(k)].attempts \in Nat
      BY <3>2 DEF Inv, TypeOK
    <3>4. Pend(k)' = Pend(k)
      BY <1>3 DEF Pend, Pending
    <3>5. Cardinality(Pend(k)) \in Nat /\ Cardinality(LateAt(k)) \in Nat
      BY <3>1, FS_CardinalityType
    <3>6. CASE k = K
      <4>1. m \in LateAt(k) /\ LateAt(k)' = LateAt(k) \ {m}
        BY <1>3, <3>6 DEF LateAt, K
      <4>2. IsFiniteSet(LateAt(k)') /\ Cardinality(LateAt(k)') = Cardinality(LateAt(k)) - 1
        BY <3>1, <4>1, FS_RemoveElement
      <4>3. Cardinality(LateAt(k)') \in Nat /\ Len(log'[k]) = Len(log[k]) + 1
        BY <2>2, <3>6, <4>2, FS_CardinalityType
      <4> QED
        BY <1>3, <3>1, <3>3, <3>4, <3>5, <4>2, <4>3
    <3>7. CASE k # K
      <4>1. LateAt(k)' = LateAt(k) /\ log'[k] = log[k]
        BY <1>3, <2>2, <3>7 DEF LateAt, K
      <4> QED
        BY <1>3, <3>1, <3>3, <3>4, <4>1
    <3> QED
      BY <3>6, <3>7
  <2>9. TypeOK'
    BY <1>3, <2>2 DEF Inv, TypeOK
  <2> QED
    BY <1>4, <2>3, <2>6, <2>7, <2>8, <2>9 DEF IInv
<1> QED
  BY <1>5, <1>6

-----------------------------------------------------------------------------
(* The actions, one by one.                                                 *)

LEMMA InitInv ==
    ASSUME Init
    PROVE  Inv
<1>1. Preflight \in Stage /\ "product" \in Sink /\ Blank \in [Stage -> Nat]
  BY DEF Stage, Preflight, Central, Sink, Blank
<1>2. TypeOK
  <2>1. /\ [status |-> "NONE", attempts |-> 0, result |-> 0, link |-> {}] \in RowType
        /\ <<>> \in Seq(Record) /\ "idle" \in Control
    BY DEF RowType, Status, Control
  <2>2. row \in [Stage -> RowType]
    BY <2>1 DEF Init
  <2>3. log \in [Sink -> Seq(Record)]
    BY <2>1 DEF Init
  <2>4. /\ pc \in [Worker -> Control] /\ at \in [Worker -> Stage] /\ sink \in [Worker -> Sink]
        /\ attempt \in [Worker -> Nat] /\ mine \in [Worker -> [Stage -> Nat]]
        /\ reply \in [Worker -> Nat]
    BY <1>1, <2>1 DEF Init
  <2> QED
    BY <2>2, <2>3, <2>4 DEF Init, TypeOK, RowType
<1>3. /\ \A w \in Worker : pc[w] = "idle" /\ at[w] = Preflight /\ sink[w] = "product"
      /\ \A s \in Stage : /\ row[s].status # "COMPLETED" /\ row[s].attempts = 0
                          /\ row[s].link = {} /\ was[s] = {}
      /\ \A k \in Sink : log[k] = <<>>
      /\ late = {}
  BY DEF Init
<1>4. Raj \in Stage /\ Preflight # Raj /\ Preflight # Keshav /\ "keshav" \in Sink /\ "idle" \notin Asking
      /\ \A s \in Stage : ~(s < Preflight)
  BY DEF Stage, Preflight, Central, Raj, Keshav, Sink, Asking
<1>5. PassedOK /\ SinkOK /\ RowOK /\ ToldOK /\ RunOK /\ KeshavOK
  BY <1>3, <1>4 DEF PassedOK, SinkOK, RowOK, ToldOK, RunOK, KeshavOK
<1>6. Counted
  <2> SUFFICES ASSUME NEW k \in Sink
               PROVE  /\ IsFiniteSet(Pend(k)) /\ IsFiniteSet(LateAt(k))
                      /\ Len(log[k]) + Cardinality(LateAt(k)) + Cardinality(Pend(k))
                            <= row[StageOf(k)].attempts
    BY DEF Counted
  <2>1. Pend(k) = {} /\ LateAt(k) = {}
    BY <1>3, <1>4 DEF Pend, Pending, LateAt
  <2>2. IsFiniteSet({}) /\ Cardinality({}) = 0
    BY FS_EmptySet
  <2>3. row[StageOf(k)].attempts = 0 /\ Len(log[k]) = 0
    BY <1>3, SinkStage
  <2> QED
    BY <2>1, <2>2, <2>3
<1> QED
  BY <1>2, <1>5, <1>6 DEF Inv, IInv

LEMMA StrikeType ==
    ASSUME TypeOK, NEW kind, Strike(kind)
    PROVE  faults' \in Nat
BY DEF TypeOK, Strike

LEMMA CallInv ==
    ASSUME Inv, NEW w \in Worker, Call(w)
    PROVE  Inv'
<1>1. Goto(w, "ready") /\ UNCHANGED <<redone, was, row, log, dataset, late, sealed, at, sink,
                                       attempt, mine, reply, faults>> /\ calls' = calls + 1
  BY DEF Call, history
<1>2. LocalType' /\ Others(w) /\ pc'[w] = "ready"
  BY <1>1, GotoLocal DEF Inv, Control
<1>3. IInv'
  BY <1>1, <1>2, AsideInv DEF Asking
<1> QED
  BY <1>1, <1>2, <1>3 DEF Inv, TypeOK, LocalType

\* A worker goes by the row of a stage that is COMPLETED.
LEMMA ReuseInv ==
    ASSUME Inv, NEW w \in Worker, Reuse(w), UNCHANGED <<redone, was, log, late>>
    PROVE  row' \in [Stage -> RowType] /\ LocalType' /\ sealed' \in BOOLEAN /\ IInv'
<1> DEFINE S == at[w]
           r == row[S].result
<1>1. /\ S \in Stage /\ row \in [Stage -> RowType] /\ row[S] \in RowType
      /\ row[S].status = "COMPLETED" /\ r \in Nat /\ Pass(w, r)
      /\ row' = [row EXCEPT ![S] = Linked(row[S])]
  BY DEF Reuse, Inv, TypeOK, RowType
<1>2. /\ Linked(row[S]) \in RowType
      /\ Linked(row[S]).status = row[S].status /\ Linked(row[S]).result = row[S].result
      /\ Linked(row[S]).attempts = row[S].attempts
      /\ \A x \in Linked(row[S]).link : x \in row[S].link \/ x = r
  BY <1>1 DEF Linked, RowType
<1>3. r \in was[S] /\ (S = Raj => Ran(r))
  BY <1>1 DEF Inv, IInv, RowOK, RunOK
<1>4. was' = [was EXCEPT ![S] = @ \cup {r}]
  <2>1. was \in [Stage -> SUBSET Nat]
    BY DEF Inv, TypeOK
  <2> QED
    BY <1>1, <1>3, <2>1
<1>5. row' \in [Stage -> RowType] /\ row'[S] = Linked(row[S])
      /\ \A s \in Stage \ {S} : row'[s] = row[s]
  BY <1>1, <1>2
<1> HIDE DEF r
<1>6. LocalType' /\ sealed' \in BOOLEAN /\ IInv'
  BY <1>1, <1>2, <1>3, <1>4, <1>5, PassInv DEF r
<1> QED
  BY <1>5, <1>6

LEMMA ChanceType ==
    ASSUME TypeOK, NEW w \in Worker, Chance(w)
    PROVE  faults' \in Nat
BY StrikeType DEF Chance, TypeOK

LEMMA BeginInv ==
    ASSUME Inv, NEW w \in Worker, Begin(w)
    PROVE  Inv'
<1>1. pc[w] = "ready" /\ UNCHANGED <<redone, was, log, dataset, late, calls>>
  BY DEF Begin, history
<1>2. CASE Reuse(w) /\ UNCHANGED faults
  <2>1. row' \in [Stage -> RowType] /\ LocalType' /\ sealed' \in BOOLEAN /\ IInv'
    BY <1>1, <1>2, ReuseInv
  <2> QED
    BY <1>1, <1>2, <2>1 DEF Inv, TypeOK, LocalType, RowType
<1>3. CASE /\ row[at[w]].status # "COMPLETED" /\ Chance(w)
           /\ Commit(w, row[at[w]].attempts + 1)
  <2>1. row' \in [Stage -> RowType] /\ LocalType' /\ IInv'
    BY <1>1, <1>3, CommitInv DEF history
  <2>2. faults' \in Nat /\ sealed' = sealed
    BY <1>3, ChanceType DEF Inv, Commit
  <2> QED
    BY <1>1, <2>1, <2>2 DEF Inv, TypeOK, LocalType, RowType
<1> QED
  BY <1>2, <1>3 DEF Begin

LEMMA CompleteInv ==
    ASSUME Inv, NEW w \in Worker, Complete(w)
    PROVE  Inv'
<1> DEFINE S == at[w]
<1>1. /\ pc[w] = "answered" /\ UNCHANGED <<redone, log, dataset, late, calls, faults>>
      /\ S \in Stage /\ reply[w] \in Nat
      /\ S = Raj => Ran(reply[w])
      /\ row \in [Stage -> RowType] /\ row[S] \in RowType
  BY DEF Complete, Inv, IInv, TypeOK, RunOK, RowType
<1>2. CASE Reuse(w) /\ UNCHANGED was
  <2>1. row' \in [Stage -> RowType] /\ LocalType' /\ sealed' \in BOOLEAN /\ IInv'
    BY <1>1, <1>2, ReuseInv
  <2> QED
    BY <1>1, <1>2, <2>1 DEF Inv, TypeOK, LocalType, RowType
<1>3. CASE row[S].status # "COMPLETED" /\ row[S].attempts = attempt[w] /\ Write(w)
  <2>1. /\ row' = [row EXCEPT ![S] = Linked(Completed(w))] /\ Pass(w, reply[w])
        /\ was' = [was EXCEPT ![S] = @ \cup {reply[w]}]
    BY <1>3 DEF Write
  <2>2. /\ Completed(w) \in RowType /\ Completed(w).status = "COMPLETED"
        /\ Completed(w).result = reply[w] /\ Completed(w).attempts = row[S].attempts
        /\ Completed(w).link = row[S].link
    BY <1>1 DEF Completed, RowType, Status
  <2>3. /\ Linked(Completed(w)) \in RowType
        /\ Linked(Completed(w)).status = "COMPLETED"
        /\ Linked(Completed(w)).result = reply[w]
        /\ Linked(Completed(w)).attempts = row[S].attempts
        /\ \A x \in Linked(Completed(w)).link : x \in row[S].link \/ x = reply[w]
    BY <1>1, <2>2 DEF Linked, RowType
  <2>4. row' \in [Stage -> RowType] /\ row'[S] = Linked(Completed(w))
        /\ \A s \in Stage \ {S} : row'[s] = row[s]
    BY <1>1, <2>1, <2>3
  <2>5. LocalType' /\ sealed' \in BOOLEAN /\ was' \in [Stage -> SUBSET Nat] /\ IInv'
    BY <1>1, <1>3, <2>1, <2>3, <2>4, PassInv
  <2> QED
    BY <1>1, <2>4, <2>5 DEF Inv, TypeOK, LocalType, RowType
<1>4. CASE Refuse(w)
  <2>0. Goto(w, "refused") /\ UNCHANGED <<row, was, sealed, at, sink, attempt, mine, reply>>
    BY <1>4 DEF Refuse
  <2>1. LocalType' /\ Others(w) /\ pc'[w] = "refused"
    BY <2>0, GotoLocal DEF Inv, Control
  <2>2. IInv'
    BY <1>1, <2>0, <2>1, AsideInv DEF Asking
  <2> QED
    BY <1>1, <2>0, <2>1, <2>2 DEF Inv, TypeOK, LocalType
<1> QED
  BY <1>2, <1>3, <1>4 DEF Complete

LEMMA FailInv ==
    ASSUME Inv, NEW w \in Worker, Fail(w)
    PROVE  Inv'
<1> DEFINE S == at[w]
<1>1. /\ pc[w] = "refused" /\ Leave(w) /\ S \in Stage /\ row \in [Stage -> RowType]
      /\ row[S] \in RowType
      /\ row' = IF Hits(w) THEN [row EXCEPT ![S].status = "FAILED", ![S].result = 0] ELSE row
      /\ redone' = IF Hits(w) /\ row[S].status = "COMPLETED" THEN redone \cup {S} ELSE redone
      /\ UNCHANGED <<was, log, dataset, late, sealed, calls, faults>>
  BY DEF Fail, Inv, TypeOK, RowType
<1>2. LocalType' /\ Others(w) /\ pc'[w] = "idle" /\ at'[w] = Preflight
      /\ sink'[w] = "product"
  BY <1>1, LeaveLocal DEF Inv
<1>3. /\ row' \in [Stage -> RowType] /\ \A s \in Stage \ {S} : row'[s] = row[s]
      /\ row'[S].attempts = row[S].attempts /\ row'[S].link = row[S].link
      /\ row' = row \/ row'[S].status # "COMPLETED"
  BY <1>1 DEF RowType, Status
<1>4. redone' \subseteq Stage /\ Settled
  BY <1>1, <1>3 DEF Settled, Inv, TypeOK
<1>5. row'[S].status = "COMPLETED" => row'[S].result \in was'[S]
  BY <1>1, <1>3 DEF Inv, IInv, RowOK
<1>6. IInv'
  BY <1>1, <1>2, <1>3, <1>4, <1>5, FailedInv
<1> QED
  BY <1>1, <1>2, <1>3, <1>4, <1>6 DEF Inv, TypeOK, LocalType, RowType

LEMMA StoreFaultInv ==
    ASSUME Inv, NEW w \in Worker, StoreFault(w)
    PROVE  Inv'
<1> DEFINE S == at[w]
<1>1. /\ Strike("store") /\ pc[w] = "answered" /\ row[S].status # "COMPLETED"
      /\ row' = [row EXCEPT ![S] = Completed(w)]
      /\ was' = [was EXCEPT ![S] = @ \cup {reply[w]}]
      /\ Goto(w, "refused")
      /\ UNCHANGED <<redone, log, dataset, late, sealed, at, sink, attempt, mine, reply, calls>>
      /\ S \in Stage /\ row \in [Stage -> RowType] /\ row[S] \in RowType
      /\ reply[w] \in Nat /\ was \in [Stage -> SUBSET Nat]
  BY DEF StoreFault, Inv, TypeOK, RowType
<1>2. LocalType' /\ Others(w) /\ pc'[w] = "refused" /\ faults' \in Nat
  BY <1>1, GotoLocal, StrikeType DEF Inv, Control
<1>3. /\ Completed(w) \in RowType /\ Completed(w).status = "COMPLETED"
      /\ Completed(w).result = reply[w] /\ Completed(w).attempts = row[S].attempts
      /\ Completed(w).link = row[S].link
  BY <1>1 DEF Completed, RowType, Status
<1>4. row' \in [Stage -> RowType] /\ row'[S] = Completed(w)
      /\ \A s \in Stage \ {S} : row'[s] = row[s]
  BY <1>1, <1>3
<1>5. /\ was' \in [Stage -> SUBSET Nat] /\ was'[S] = was[S] \cup {reply[w]}
      /\ \A s \in Stage \ {S} : was'[s] = was[s]
  BY <1>1
<1>6. Settled
  BY <1>1, <1>4, <1>5 DEF Settled
<1>7. /\ S # Raj => was'[Raj] = was[Raj]
      /\ S = Raj => \A r \in was'[Raj] : r \in was[Raj] \/ Ran(r)
  <2>1. Raj \in Stage
    BY DEF Stage, Raj, Preflight, Central
  <2> QED
    BY <1>1, <1>5, <2>1 DEF Inv, IInv, RunOK
<1>8. IInv'
  BY <1>1, <1>2, <1>3, <1>4, <1>5, <1>6, <1>7, FailedInv
<1> QED
  BY <1>1, <1>2, <1>4, <1>5, <1>8 DEF Inv, TypeOK, LocalType, RowType

LEMMA ProbeInv ==
    ASSUME Inv, NEW w \in Worker, Probe(w)
    PROVE  Inv'
<1>1. /\ pc[w] = "asking" /\ at[w] = Preflight
      /\ UNCHANGED <<redone, was, row, log, dataset, late, sealed, at, sink, attempt, mine,
                     calls>>
      /\ \/ Answered(w, 0) /\ UNCHANGED faults
         \/ Goto(w, "refused") /\ Strike("unfit") /\ UNCHANGED reply
  BY DEF Probe, history
<1>2. PICK l \in {"answered", "refused"} :
         Goto(w, l) /\ (reply' = reply \/ reply' = [reply EXCEPT ![w] = 0])
  BY <1>1 DEF Answered
<1>3. LocalType' /\ Others(w) /\ pc'[w] = l
  BY <1>1, <1>2, GotoLocal DEF Inv, Control
<1>4. IInv'
  <2>1. at[w] # Raj /\ pc'[w] \notin Asking /\ pc'[w] # "begun" /\ at'[w] = at[w]
        /\ sink'[w] = sink[w] /\ mine'[w] = mine[w]
    BY <1>1, <1>3 DEF Preflight, Raj, Asking
  <2> QED
    BY <1>1, <1>3, <2>1, AsideInv
<1>5. faults' \in Nat
  BY <1>1, StrikeType DEF Inv, TypeOK
<1> QED
  BY <1>1, <1>3, <1>4, <1>5 DEF Inv, TypeOK, LocalType

\* The steps in which an owner records and the worker gets its answer.
LEMMA DoInv ==
    ASSUME Inv, NEW w \in Worker, NEW fails \in BOOLEAN, pc[w] = "asking", at[w] # Preflight,
           Do(w, fails),
           UNCHANGED <<redone, was, row, dataset, late, sealed, at, sink, attempt, mine, calls, faults>>
    PROVE  Inv'
<1>1. /\ Add(sink[w], Asked(w, sink[w]), fails)
      /\ Goto(w, "answered") /\ reply' = [reply EXCEPT ![w] = Len(log[sink[w]]) + 1]
  BY DEF Do, Answered
<1>2. Len(log[sink[w]]) + 1 \in Nat
  <2>1. log[sink[w]] \in Seq(Record)
    BY DEF Inv, TypeOK
  <2> QED
    BY <2>1
<1>3. LocalType' /\ Others(w) /\ pc'[w] = "answered"
  BY <1>1, <1>2, GotoLocal DEF Inv, Control
<1>4. reply'[w] = Len(log[sink[w]]) + 1
  BY <1>1 DEF Inv, TypeOK
<1>5. pc[w] \in Asking
  BY DEF Asking
<1>6. log' \in [Sink -> Seq(Record)] /\ IInv'
  BY <1>1, <1>3, <1>4, <1>5, RecordInv
<1> QED
  BY <1>3, <1>6 DEF Inv, TypeOK, LocalType

\* The steps in which a worker goes on without an answer or a record.
LEMMA TurnInv ==
    ASSUME Inv, NEW w \in Worker, NEW l \in Control \ {"answered", "begun"}, Goto(w, l),
           pc[w] \in Asking \/ l \notin Asking,
           UNCHANGED <<redone, was, row, log, late, sealed, at, sink, attempt, mine, reply, calls>>,
           dataset' \in BOOLEAN, faults' \in Nat
    PROVE  Inv'
<1>1. LocalType' /\ Others(w) /\ pc'[w] = l
  BY GotoLocal DEF Inv
<1>2. IInv'
  BY <1>1, AsideInv
<1> QED
  BY <1>1, <1>2 DEF Inv, TypeOK, LocalType

LEMMA OwnerInv ==
    ASSUME Inv, NEW w \in Worker,
           Run(w) \/ Diagnose(w) \/ Provenance(w) \/ Store(w) \/ AppendKarma(w)
             \/ Core(w) \/ Emit(w)
    PROVE  Inv'
<1>0. pc[w] = "asking" /\ "asking" \in Asking /\ "refused" \notin Asking
      /\ "refused" \in Control \ {"answered", "begun"}
  BY DEF Run, Diagnose, Provenance, Store, AppendKarma, Core, Emit, Asking, Control
<1>1. CASE Run(w)
  <2>1. PICK fails \in BOOLEAN : Do(w, fails)
    BY <1>1 DEF Run, Outcome
  <2>2. at[w] # Preflight
    BY <1>1 DEF Run, Raj, Preflight
  <2> QED
    BY <1>0, <1>1, <2>1, <2>2, DoInv DEF Run, history
<1>2. CASE Diagnose(w)
  <2>1. at[w] # Preflight
    BY <1>2 DEF Diagnose, Keshav, Preflight
  <2> QED
    BY <1>0, <1>2, <2>1, DoInv DEF Diagnose, history
<1>3. CASE Provenance(w)
  <2>1. at[w] # Preflight
    BY <1>3 DEF Provenance, Ashmit, Preflight
  <2> QED
    BY <1>0, <1>3, <2>1, DoInv DEF Provenance, history
<1>4. CASE Store(w)
  <2>1. at[w] # Preflight
    BY <1>4 DEF Store, Bucket, Central, Preflight
  <2> QED
    BY <1>0, <1>4, <2>1, DoInv DEF Store, history
<1>5. CASE AppendKarma(w)
  <2>1. at[w] # Preflight
    BY <1>5 DEF AppendKarma, Karma, Preflight
  <2>2. CASE Do(w, FALSE)
    BY <1>0, <1>5, <2>1, <2>2, DoInv DEF AppendKarma, history
  <2>3. CASE Goto(w, "refused") /\ UNCHANGED <<log, reply>>
    BY <1>0, <1>5, <2>3, TurnInv DEF AppendKarma, history, Inv, TypeOK
  <2> QED
    BY <1>5, <2>2, <2>3 DEF AppendKarma
<1>6. CASE Core(w)
  <2>1. at[w] # Preflight
    BY <1>6 DEF Core, Inv, IInv, SinkOK
  <2> QED
    BY <1>0, <1>6, <2>1, DoInv DEF Core, Do, Relay, history
<1>7. CASE Emit(w)
  <2>1. at[w] # Preflight
    BY <1>7 DEF Emit, Inv, IInv, SinkOK
  <2> QED
    BY <1>0, <1>7, <2>1, DoInv DEF Emit, history
<1> QED
  BY <1>1, <1>2, <1>3, <1>4, <1>5, <1>6, <1>7

LEMMA StrictInv ==
    ASSUME Inv, NEW w \in Worker, Strict(w)
    PROVE  Inv'
<1>1. /\ pc[w] = "asking" /\ sink[w] = "karma-strict"
      /\ Add(sink[w], Asked(w, sink[w]), FALSE) /\ Goto(w, "lookup")
      /\ sink' = [sink EXCEPT ![w] = "prana-core"]
      /\ UNCHANGED <<redone, was, row, dataset, late, sealed, at, attempt, mine, reply, calls, faults>>
  BY DEF Strict, Relay, history
<1>2. "prana-core" \in Sink /\ "lookup" \in Control /\ pc[w] \in Asking /\ "lookup" \in Asking
  BY <1>1 DEF Sink, Kind, Control, Asking
<1>3. at[w] # Preflight
  BY <1>1 DEF Inv, IInv, SinkOK
<1>4. LocalType' /\ Others(w) /\ pc'[w] = "lookup"
  BY <1>1, <1>2, GotoLocal DEF Inv
<1>5. sink'[w] = "prana-core"
  BY <1>1 DEF Inv, TypeOK
<1>6. log' \in [Sink -> Seq(Record)] /\ IInv'
  BY <1>1, <1>2, <1>3, <1>4, <1>5, RecordInv
<1> QED
  BY <1>1, <1>4, <1>6 DEF Inv, TypeOK, LocalType

LEMMA BridgeInv ==
    ASSUME Inv, NEW w \in Worker, Lookup(w) \/ Create(w)
    PROVE  Inv'
<1>1. PICK l \in {"asking", "create", "lookup"} : Goto(w, l)
  BY DEF Lookup, Create
<1>2. /\ l \in Control \ {"answered", "begun"} /\ pc[w] \in Asking
      /\ dataset' \in BOOLEAN /\ faults' \in Nat
  BY DEF Lookup, Create, Control, Asking, Inv, TypeOK
<1>3. UNCHANGED <<redone, was, row, log, late, sealed, at, sink, attempt, mine, reply, calls>>
  BY DEF Lookup, Create, history
<1> QED
  BY <1>1, <1>2, <1>3, TurnInv

LEMMA LostInv ==
    ASSUME Inv, NEW w \in Worker, Lost(w)
    PROVE  Inv'
<1>1. /\ Goto(w, "refused") /\ pc[w] \in {"asking", "answered"} /\ faults' \in Nat
      /\ UNCHANGED <<redone, was, row, log, dataset, sealed, at, sink, attempt, mine, reply, calls>>
  BY StrikeType DEF Lost, Inv, history
<1>2. "refused" \in Control \ {"answered", "begun"} /\ "refused" \notin Asking /\ "asking" \in Asking
  BY DEF Control, Asking
<1>3. CASE late' = late
  BY <1>1, <1>2, <1>3, TurnInv DEF Inv, TypeOK
<1>4. CASE /\ pc[w] = "asking" /\ at[w] # Preflight
           /\ late' = late \cup {[sink |-> sink[w], of |-> Asked(w, sink[w]),
                                  attempt |-> attempt[w], by |-> w]}
  <2>1. LocalType' /\ Others(w) /\ pc'[w] = "refused"
    BY <1>1, <1>2, GotoLocal DEF Inv
  <2>2. late' \subseteq LateType /\ IInv'
    BY <1>1, <1>2, <1>4, <2>1, LateInv
  <2> QED
    BY <1>1, <2>1, <2>2 DEF Inv, TypeOK, LocalType, LateType
<1> QED
  BY <1>3, <1>4 DEF Lost

LEMMA UnfitInv ==
    ASSUME Inv, NEW w \in Worker, Unfit(w)
    PROVE  Inv'
<1>1. /\ pc[w] = "asking" /\ at[w] # Preflight
      /\ Add(sink[w], Asked(w, sink[w]), FALSE) /\ Goto(w, "refused") /\ Strike("unfit")
      /\ UNCHANGED <<redone, was, row, dataset, late, sealed, at, sink, attempt, mine, reply, calls>>
  BY DEF Unfit, history
<1>2. "refused" \in Control /\ pc[w] \in Asking /\ faults' \in Nat
  BY <1>1, StrikeType DEF Control, Asking, Inv
<1>3. LocalType' /\ Others(w) /\ pc'[w] = "refused"
  BY <1>1, <1>2, GotoLocal DEF Inv
<1>4. log' \in [Sink -> Seq(Record)] /\ IInv'
  BY <1>1, <1>2, <1>3, RecordInv
<1> QED
  BY <1>1, <1>2, <1>3, <1>4 DEF Inv, TypeOK, LocalType

LEMMA CrashInv ==
    ASSUME Inv, NEW w \in Worker, Crash(w)
    PROVE  Inv'
<1>1. /\ Leave(w) /\ faults' \in Nat
      /\ UNCHANGED <<redone, was, row, log, dataset, late, sealed, calls>>
  BY StrikeType DEF Crash, Inv, history
<1>2. LocalType' /\ Others(w) /\ pc'[w] = "idle" /\ at'[w] = Preflight /\ sink'[w] = "product"
  BY <1>1, LeaveLocal DEF Inv
<1>3. IInv'
  BY <1>1, <1>2, AsideInv
<1> QED
  BY <1>1, <1>2, <1>3 DEF Inv, TypeOK, LocalType

LEMMA NextInv ==
    ASSUME Inv, [Next]_vars
    PROVE  Inv'
<1>1. ASSUME NEW w \in Worker, Call(w) \/ Step(w) PROVE Inv'
  BY <1>1, CallInv, BeginInv, ReadInv, ProbeInv, OwnerInv, BridgeInv, StrictInv, CompleteInv,
     FailInv DEF Step, Forward
<1>2. ASSUME NEW w \in Worker, Lost(w) \/ Unfit(w) \/ Crash(w) \/ StoreFault(w) PROVE Inv'
  BY <1>2, LostInv, UnfitInv, CrashInv, StoreFaultInv
<1>3. ASSUME NEW m \in late, ServeLate(m) PROVE Inv'
  BY <1>3, ServeInv DEF Inv
<1>4. CASE UNCHANGED vars
  <2>1. UNCHANGED <<row, log, dataset, late, sealed, redone, was, calls, faults>>
        /\ UNCHANGED <<pc, at, sink, attempt, mine, reply>>
    BY <1>4 DEF vars, local, history
  <2>2. TypeOK'
    BY <2>1 DEF Inv, TypeOK
  <2>3. PassedOK' /\ SinkOK' /\ RowOK' /\ ToldOK' /\ RunOK' /\ KeshavOK'
    BY <2>1 DEF Inv, IInv, PassedOK, SinkOK, RowOK, ToldOK, RunOK, KeshavOK, Right,
                Checkpoint, Told, Ran, Failure
  <2>4. Counted'
    BY <2>1 DEF Inv, IInv, Counted, Pend, Pending, LateAt
  <2> QED
    BY <2>2, <2>3, <2>4 DEF Inv, IInv
<1> QED
  BY <1>1, <1>2, <1>3, <1>4 DEF Next

-----------------------------------------------------------------------------
(* What holds of every behaviour.                                           *)

\* Rows, records, requests and workers of Owners are what their declarations say
\* in every state.
THEOREM TypeCorrect == Spec => []TypeOK
<1>1. Inv => TypeOK
  BY DEF Inv
<1> QED
  BY <1>1, InitInv, NextInv, PTL DEF Spec

\* Workers, rows and links, requests and records go by what a stage was COMPLETED
\* with (complete_ecosystem_stage), and each attempt that begins has one record to
\* leave: the invariant that the two theorems below follow from.
THEOREM Inductive == Spec => []IInv
<1>1. Inv => IInv
  BY DEF Inv
<1> QED
  BY <1>1, InitInv, NextInv, PTL DEF Spec

\* However _run_stage is recovered, repeated or run by several workers at once, of
\* one attempt even, every record at an owner is made of the checkpoints of the
\* execution.
THEOREM OneStoryHolds == Spec => []OneStory
<1>1. Inv => OneStory
  <2> SUFFICES ASSUME Inv PROVE OneStory
    OBVIOUS
  <2>1. \A k \in Sink : \A i \in DOMAIN log[k] : \A s \in Basis(k) :
           Checkpoint(s, log[k][i].of[s])
    BY DEF Inv, IInv, ToldOK, Told
  <2>2. \A i \in DOMAIN log["keshav"] : Failure(log["keshav"][i].of[Raj])
    BY DEF Inv, IInv, KeshavOK
  <2> QED
    BY <2>1, <2>2 DEF OneStory, Failure, Ran
<1> QED
  BY <1>1, InitInv, NextInv, PTL DEF Spec

\* The attempts of ecosystem_execution_stages account for every record and every
\* request that is still on its way.
THEOREM EffectsAreAccounted == Spec => []EffectsAccounted
<1>1. Inv => EffectsAccounted
  <2> SUFFICES ASSUME Inv, NEW k \in Sink
               PROVE  Len(log[k]) + Cardinality(LateAt(k)) <= row[StageOf(k)].attempts
    BY DEF EffectsAccounted, LateAt
  <2>1. /\ IsFiniteSet(Pend(k)) /\ IsFiniteSet(LateAt(k))
        /\ Len(log[k]) + Cardinality(LateAt(k)) + Cardinality(Pend(k)) <= row[StageOf(k)].attempts
    BY DEF Inv, IInv, Counted
  <2>2. Cardinality(Pend(k)) \in Nat /\ Cardinality(LateAt(k)) \in Nat
    BY <2>1, FS_CardinalityType
  <2>3. StageOf(k) \in Stage /\ log[k] \in Seq(Record)
    BY SinkStage DEF Inv, TypeOK
  <2>4. Len(log[k]) \in Nat /\ row[StageOf(k)].attempts \in Nat
    BY <2>3 DEF Inv, TypeOK
  <2> QED
    BY <2>1, <2>2, <2>4
<1> QED
  BY <1>1, InitInv, NextInv, PTL DEF Spec

=============================================================================
