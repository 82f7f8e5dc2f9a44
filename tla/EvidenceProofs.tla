---------------------------- MODULE EvidenceProofs ----------------------------
(***************************************************************************)
(* Machine-checked proofs about Evidence, for every number of dispatches,      *)
(* answers, traces, limits and faults.                                        *)
(***************************************************************************)
EXTENDS Evidence, SequenceTheorems, TLAPS

-----------------------------------------------------------------------------
(* The inductive invariant.                                                 *)

\* Where the snapshot of a dispatch is not in its lineage yet.
Early == {"new", "transport", "settled", "stored", "rooted"}

\* Where nothing is enqueued for it yet.
Unqueued == Early \cup {"recorded", "projected"}

\* A component is stored under its own type, whoever stored it.
OwnTypes == \A c \in DOMAIN artifacts : artifacts[c] = c.kind

\* What was put before the snapshot is made is stored.
Stored(d) == pc[d] = "stored" => Range(Recorded(d)) \subseteq DOMAIN artifacts

\* References to the components that the dispatch has, each under its own type.
Refs(d) ==
    [k \in {c.kind : c \in Range(Recorded(d))} |->
        CHOOSE c \in Range(Recorded(d)) : c.kind = k]

SnapshotOf(d) ==
    [dispatch |-> d, refs |-> Refs(d), request |-> Component(d, "request"),
     response |-> Component(d, "response")]

\* The snapshot is in the lineage only when it is made, and is what the dispatch
\* has to show.
Shown(d) ==
    /\ pc[d] \in Early => ~Available(d)
    /\ pc[d] = "rooted" \/ Available(d) => snapshot[d] = SnapshotOf(d)

\* Every dispatch has a place for its snapshot.
Snapshots == DOMAIN snapshot = Dispatch

\* Entry i of a lineage of d is of d, and so is each of the i - 1 before it that its
\* parent stands for.
Own(x, d, i) ==
    /\ x.of = d
    /\ Len(x.parent) = i - 1
    /\ \A k \in 1..(i - 1) : x.parent[k].of = d

Owned(L, d) == \A i \in DOMAIN L : Own(L[i], d, i)

Lineages ==
    /\ lineage \in [Dispatch -> Seq(Entry)]
    /\ \A d \in Dispatch : Chained(lineage[d]) /\ Owned(lineage[d], d)

\* What is enqueued, what has been tried, and what is to be receipted.
Rows(d) ==
    /\ pc[d] \in Unqueued => row[d] = Unsent
    /\ row[d].status = "OPEN" => row[d].attempts < MaxAttempts
    /\ row[d].status # "ABSENT" => d \in Enqueued

IInv ==
    /\ TypeOK
    /\ queue \in Seq(Dispatch)
    /\ OwnTypes
    /\ Snapshots
    /\ Lineages
    /\ \A d \in Dispatch : Stored(d) /\ Shown(d) /\ Rows(d)

-----------------------------------------------------------------------------
(* Components, and what is chained.                                         *)

LEMMA KindIs ==
    /\ Kind = {"receipt", "request", "response", "world"} /\ Len(Kinds) = 4
    /\ Kinds[1] = "receipt" /\ Kinds[2] = "request" /\ Kinds[3] = "response"
    /\ Kinds[4] = "world"
<1>1. DOMAIN Kinds = {1, 2, 3, 4} /\ Len(Kinds) = 4
  BY DEF Kinds
<1> QED
  BY <1>1 DEF Kind, Kinds, Range

LEMMA MinIs ==
    ASSUME NEW S \in SUBSET Nat, NEW m \in S, \A n \in S : m <= n
    PROVE  Min(S) = m
<1>1. Min(S) \in S /\ \A n \in S : Min(S) <= n
  BY DEF Min
<1>2. m \in Nat /\ Min(S) \in Nat
  BY <1>1
<1>3. m <= Min(S) /\ Min(S) <= m
  BY <1>1
<1> QED
  BY <1>2, <1>3

\* A component of type k is of kind k, but for an echo, which is the request.
LEMMA ComponentKind ==
    ASSUME NEW d \in Dispatch, NEW k \in Kind
    PROVE  /\ Component(d, k) \in Content \cup {Empty}
           /\ Component(d, k).kind \in Kind
           /\ Component(d, k).kind # k => k = "response" /\ answer[d] = "envelope"
           /\ Component(d, k).kind # k => Component(d, k) = Component(d, "request")
           /\ Component(d, "request").kind = "request"
           /\ Component(d, "receipt").of = d
<1>1. Kind = {"receipt", "request", "response", "world"}
  BY KindIs
<1> QED
  BY <1>1 DEF Component, Content, Empty

LEMMA RecordedIs ==
    ASSUME NEW d \in Dispatch
    PROVE  /\ Range(Recorded(d)) = {Component(d, k) : k \in Kind}
           /\ \A c \in Range(Recorded(d)) : c \in Content \cup {Empty} /\ c.kind \in Kind
<1>1. Range(Recorded(d)) = {Component(d, k) : k \in Kind}
  BY DEF Recorded, Range
<1> QED
  BY <1>1, ComponentKind

\* The reference to a component of type k is to the one that the dispatch has.
LEMMA RefsAre ==
    ASSUME NEW d \in Dispatch
    PROVE  /\ DOMAIN Refs(d) \subseteq Kind
           /\ \A k \in DOMAIN Refs(d) : Refs(d)[k] = Component(d, k)
<1>1. DOMAIN Refs(d) \subseteq Kind
  BY RecordedIs DEF Refs
<1>2. ASSUME NEW k \in DOMAIN Refs(d)
      PROVE  Refs(d)[k] = Component(d, k)
  <2>1. Refs(d)[k] \in Range(Recorded(d)) /\ Refs(d)[k].kind = k
    BY DEF Refs
  <2>2. PICK l \in Kind : Refs(d)[k] = Component(d, l)
    BY <2>1, RecordedIs
  <2>3. CASE l = k
    BY <2>2, <2>3
  <2>4. CASE l # k
    BY <2>1, <2>2, <2>4, ComponentKind
  <2> QED
    BY <2>3, <2>4
<1> QED
  BY <1>1, <1>2

\* The batch gives every component its own type.
LEMMA TypeOfIs ==
    ASSUME OwnTypes, NEW d \in Dispatch, NEW c \in Range(Recorded(d))
    PROVE  TypeOf(c, d) = c.kind
<1>1. CASE c \in DOMAIN artifacts
  BY <1>1 DEF TypeOf, OwnTypes
<1>2. CASE c \notin DOMAIN artifacts
  <2> DEFINE S == {i \in 1..Len(Kinds) : Component(d, Kinds[i]) = c}
  <2>1. PICK k \in Kind : c = Component(d, k)
    BY RecordedIs
  <2>2. c = Component(d, c.kind) /\ c.kind \in Kind
    BY <2>1, ComponentKind
  <2>3. \A l \in Kind : Component(d, l) = c /\ l # c.kind => l = "response" /\ c.kind = "request"
    <3>1. ASSUME NEW l \in Kind, Component(d, l) = c, l # c.kind
          PROVE  l = "response" /\ c.kind = "request"
      BY <3>1, ComponentKind
    <3> QED
      BY <3>1
  <2>4. PICK m \in 1..4 : Kinds[m] = c.kind
    BY <2>2, KindIs
  <2>5. m \in S /\ S \subseteq Nat
    BY <2>2, <2>4, KindIs
  <2>6. \A n \in S : m <= n
    <3>1. ASSUME NEW n \in S
          PROVE  m <= n
      <4>1. n \in 1..4 /\ Component(d, Kinds[n]) = c /\ Kinds[n] \in Kind
        BY KindIs
      <4>2. Kinds[n] = c.kind \/ (Kinds[n] = "response" /\ c.kind = "request")
        BY <2>3, <4>1
      <4> QED
        BY <2>4, <4>1, <4>2, KindIs
    <3> QED
      BY <3>1
  <2>7. Min(S) = m
    BY <2>5, <2>6, MinIs
  <2> QED
    BY <1>2, <2>4, <2>7 DEF TypeOf
<1> QED
  BY <1>1, <1>2

\* What the next entry is chained to.
LEMMA LinkedOwn ==
    ASSUME NEW d \in Dispatch, NEW x \in Entry, NEW i \in Nat, i > 0, Own(x, d, i)
    PROVE  /\ Linked(x) \in Seq(Link) /\ Len(Linked(x)) = i
           /\ \A k \in 1..i : Linked(x)[k].of = d
<1> DEFINE P == x.parent
           l == [of |-> x.of, type |-> x.type]
<1>1. P \in Seq(Link) /\ Len(P) = i - 1 /\ \A k \in 1..(i - 1) : P[k].of = d
  BY DEF Entry, Own
<1>2. l \in Link /\ l.of = d
  BY DEF Entry, Link, Own
<1>3. Linked(x) = Append(P, l)
  BY DEF Linked
<1> HIDE DEF P, l
<1>4. /\ Append(P, l) \in Seq(Link) /\ Len(Append(P, l)) = i /\ Append(P, l)[i] = l
      /\ \A k \in 1..(i - 1) : Append(P, l)[k] = P[k]
  BY <1>1, <1>2
<1>5. \A k \in 1..i : k = i \/ k \in 1..(i - 1)
  OBVIOUS
<1> QED
  BY <1>1, <1>2, <1>3, <1>4, <1>5

\* An entry is chained to all that the lineage has.
LEMMA ChainGrows ==
    ASSUME Lineages, NEW d \in Dispatch, NEW type \in Record, Chain(d, type)
    PROVE  /\ Lineages'
           /\ \A e \in Dispatch \ {d} : lineage'[e] = lineage[e]
           /\ Available(d) => Available(d)'
           /\ type # "snapshot" => (Available(d)' <=> Available(d))
           /\ type = "snapshot" => Available(d)'
<1> DEFINE L == lineage[d]
           n == Len(L)
           e == [of |-> d, type |-> type, parent |-> ChainHash(L)]
<1>1. L \in Seq(Entry) /\ n \in Nat /\ Chained(L) /\ Owned(L, d)
  BY DEF Lineages
<1>2. DOMAIN L = 1..n
  BY <1>1
<1>3. lineage' = [lineage EXCEPT ![d] = Append(L, e)]
  BY DEF Chain
<1>4. \A i \in 1..n : L[i] \in Entry /\ Own(L[i], d, i)
  BY <1>1, <1>2 DEF Owned
<1>5. ChainHash(L) = IF n = 0 THEN <<>> ELSE Linked(L[n])
  BY <1>1 DEF ChainHash, Last
<1>6. /\ ChainHash(L) \in Seq(Link) /\ Len(ChainHash(L)) = n
      /\ \A k \in 1..n : ChainHash(L)[k].of = d
  <2>1. CASE n = 0
    BY <1>5, <2>1
  <2>2. CASE n # 0
    BY <1>1, <1>4, <1>5, <2>2, LinkedOwn
  <2> QED
    BY <2>1, <2>2
<1>7. e \in Entry /\ e.of = d /\ e.type = type /\ e.parent = ChainHash(L)
  BY <1>6 DEF Entry
<1> HIDE DEF e
<1> DEFINE M == Append(L, e)
<1>8. /\ M \in Seq(Entry) /\ DOMAIN M = 1..(n + 1) /\ M[n + 1] = e
      /\ \A i \in 1..n : M[i] = L[i]
  BY <1>1, <1>7
<1>9. Chained(M)
  <2>1. ASSUME NEW i \in 1..n
        PROVE  M[i].parent = IF i = 1 THEN <<>> ELSE Linked(M[i - 1])
    <3>1. L[i].parent = IF i = 1 THEN <<>> ELSE Linked(L[i - 1])
      BY <1>1, <1>2 DEF Chained
    <3>2. i # 1 => i - 1 \in 1..n
      BY <1>1
    <3> QED
      BY <1>8, <3>1, <3>2
  <2>2. M[n + 1].parent = IF n + 1 = 1 THEN <<>> ELSE Linked(M[n])
    BY <1>1, <1>5, <1>7, <1>8
  <2>3. \A i \in 1..(n + 1) : i \in 1..n \/ (i = n + 1 /\ i - 1 = n)
    BY <1>1
  <2> QED
    BY <1>8, <2>1, <2>2, <2>3 DEF Chained
<1>13. Owned(M, d)
  <2>1. Own(e, d, n + 1)
    BY <1>1, <1>6, <1>7 DEF Own
  <2>2. \A i \in 1..(n + 1) : i \in 1..n \/ i = n + 1
    BY <1>1
  <2> QED
    BY <1>4, <1>8, <2>1, <2>2 DEF Owned
<1> HIDE DEF M
<1>10. /\ lineage' \in [Dispatch -> Seq(Entry)] /\ lineage'[d] = M
      /\ \A f \in Dispatch \ {d} : lineage'[f] = lineage[f]
  BY <1>3, <1>8 DEF Lineages, M
<1>11. Lineages'
  <2>1. ASSUME NEW f \in Dispatch
        PROVE  Chained(lineage'[f]) /\ Owned(lineage'[f], f)
    BY <1>9, <1>10, <1>13 DEF Lineages
  <2> QED
    BY <1>10, <2>1 DEF Lineages, Chained, Owned, Own
<1>12. Available(d)' <=> Available(d) \/ type = "snapshot"
  <2>1. \A i \in 1..(n + 1) : i \in 1..n \/ i = n + 1
    BY <1>1
  <2>2. n + 1 \in 1..(n + 1) /\ 1..n \subseteq 1..(n + 1)
    BY <1>1
  <2> QED
    BY <1>7, <1>8, <1>10, <1>2, <2>1, <2>2 DEF Available
<1> QED
  BY <1>10, <1>11, <1>12

-----------------------------------------------------------------------------
(* The steps that leave a dispatch alone.                                   *)

\* What a dispatch has to show depends on its answer only.
LEMMA SameAnswer ==
    ASSUME NEW d \in Dispatch, answer'[d] = answer[d]
    PROVE  /\ Range(Recorded(d))' = Range(Recorded(d))
           /\ SnapshotOf(d)' = SnapshotOf(d)
BY DEF Recorded, SnapshotOf, Refs, Component, Range

Unmoved(d) ==
    /\ pc'[d] = pc[d] /\ answer'[d] = answer[d] /\ snapshot'[d] = snapshot[d]
    /\ row'[d] = row[d] /\ (Available(d)' <=> Available(d))

Grows == DOMAIN artifacts \subseteq DOMAIN artifacts' /\ Enqueued \subseteq Enqueued'

LEMMA Alone ==
    ASSUME Grows, NEW d \in Dispatch, Unmoved(d), Stored(d), Shown(d), Rows(d)
    PROVE  (Stored(d) /\ Shown(d) /\ Rows(d))'
<1>1. Stored(d)'
  BY SameAnswer DEF Unmoved, Grows, Stored
<1>2. Shown(d)'
  BY SameAnswer DEF Unmoved, Shown
<1>3. Rows(d)'
  BY DEF Unmoved, Grows, Rows
<1> QED
  BY <1>1, <1>2, <1>3

\* A step of one dispatch.
LEMMA OneDispatch ==
    ASSUME IInv, TypeOK', queue' \in Seq(Dispatch), OwnTypes', Snapshots', Lineages', Grows,
           NEW d \in Dispatch, \A e \in Dispatch \ {d} : Unmoved(e),
           Stored(d)', Shown(d)', Rows(d)'
    PROVE  IInv'
<1> DEFINE Whole(e) == Stored(e) /\ Shown(e) /\ Rows(e)
<1>1. \A e \in Dispatch \ {d} : Whole(e)'
  BY Alone DEF IInv
<1>2. \A e \in Dispatch : Whole(e)'
  BY <1>1
<1> QED
  BY <1>2 DEF IInv

\* The tables of the recorder.
LEMMA SameTables ==
    ASSUME IInv, UNCHANGED <<artifacts, lineage, queue>>
    PROVE  /\ queue' \in Seq(Dispatch) /\ OwnTypes' /\ Lineages' /\ Grows
           /\ \A d \in Dispatch : Available(d)' <=> Available(d)
BY DEF IInv, OwnTypes, Lineages, Chained, Linked, Owned, Own, Grows, Enqueued, Available

LEMMA SameSnapshots ==
    ASSUME IInv, snapshot' = snapshot
    PROVE  Snapshots'
BY DEF IInv, Snapshots

-----------------------------------------------------------------------------
(* Recording.                                                               *)

LEMMA AcceptInv ==
    ASSUME IInv, NEW d \in Dispatch, Accept(d)
    PROVE  IInv'
<1>1. /\ pc[d] = "new" /\ pc' = [pc EXCEPT ![d] = "transport"]
      /\ status' = [status EXCEPT ![d] = "ACCEPTED"]
      /\ UNCHANGED <<answer, artifacts, snapshot, lineage, outbox, monitor, faults>>
  BY DEF Accept, Goto
<1>2. TypeOK'
  BY <1>1 DEF IInv, TypeOK, outbox, monitor, Enqueued, Control
<1>3. pc'[d] = "transport" /\ \A e \in Dispatch \ {d} : Unmoved(e)
  BY <1>1, SameTables DEF IInv, TypeOK, Unmoved, outbox
<1>4. Stored(d)' /\ Shown(d)' /\ Rows(d)'
  BY <1>1, <1>3, SameTables DEF IInv, Stored, Shown, Rows, Early, Unqueued, outbox, Enqueued
<1> QED
  BY <1>1, <1>2, <1>3, <1>4, SameTables, SameSnapshots, OneDispatch DEF outbox

LEMMA SettleInv ==
    ASSUME IInv, NEW d \in Dispatch, Settle(d)
    PROVE  IInv'
<1>1. PICK a \in Answers[d] :
         /\ pc[d] = "transport" /\ pc' = [pc EXCEPT ![d] = "settled"]
         /\ answer' = [answer EXCEPT ![d] = a]
         /\ status' = [status EXCEPT ![d] = IF a = None THEN "FAILED" ELSE "COMPLETED"]
         /\ UNCHANGED <<artifacts, snapshot, lineage, outbox, monitor, faults>>
  BY DEF Settle, Goto
<1>2. a \in AnswerKind
  BY <1>1, AnswerAssumption
<1>3. TypeOK'
  BY <1>1, <1>2 DEF IInv, TypeOK, outbox, monitor, Enqueued, Control, Terminal
<1>4. pc'[d] = "settled" /\ \A e \in Dispatch \ {d} : Unmoved(e)
  BY <1>1, SameTables DEF IInv, TypeOK, Unmoved, outbox
<1>5. Stored(d)' /\ Shown(d)' /\ Rows(d)'
  BY <1>1, <1>4, SameTables DEF IInv, Stored, Shown, Rows, Early, Unqueued, outbox, Enqueued
<1> QED
  BY <1>1, <1>3, <1>4, <1>5, SameTables, SameSnapshots, OneDispatch DEF outbox

LEMMA PutComponentsInv ==
    ASSUME IInv, NEW d \in Dispatch, PutComponents(d)
    PROVE  IInv'
<1> DEFINE R == Range(Recorded(d))
           T == [c \in DOMAIN artifacts \cup R |-> TypeOf(c, d)]
<1>1. /\ pc[d] = "settled" /\ pc' = [pc EXCEPT ![d] = "stored"] /\ artifacts' = T
      /\ UNCHANGED <<status, answer, snapshot, lineage, outbox, monitor, faults>>
  BY DEF PutComponents, Goto
<1>2. \A c \in DOMAIN artifacts \cup R : TypeOf(c, d) = c.kind
  <2>1. \A c \in DOMAIN artifacts : TypeOf(c, d) = c.kind
    BY DEF IInv, TypeOf, OwnTypes
  <2>2. \A c \in R : TypeOf(c, d) = c.kind
    BY TypeOfIs DEF IInv
  <2> QED
    BY <2>1, <2>2
<1>3. DOMAIN T = DOMAIN artifacts \cup R /\ \A c \in DOMAIN T : T[c] = c.kind
  BY <1>2
<1>4. DOMAIN T \subseteq Content \cup {Empty}
  BY <1>3, RecordedIs DEF IInv, TypeOK
<1>5. Range(T) \subseteq Kind
  <2>1. \A c \in Content \cup {Empty} : c.kind \in Kind
    BY KindIs DEF Content, Empty
  <2> HIDE DEF T
  <2> QED
    BY <1>3, <1>4, <2>1 DEF Range
<1> HIDE DEF T, R
<1>6. TypeOK'
  BY <1>1, <1>4, <1>5 DEF IInv, TypeOK, outbox, monitor, Enqueued, Control
<1>7. /\ OwnTypes' /\ Lineages' /\ queue' \in Seq(Dispatch) /\ Grows
      /\ \A e \in Dispatch : Available(e)' <=> Available(e)
  BY <1>1, <1>3 DEF IInv, OwnTypes, Lineages, Chained, Linked, Owned, Own, Grows, Enqueued, outbox, Available
<1>8. pc'[d] = "stored" /\ \A e \in Dispatch \ {d} : Unmoved(e)
  BY <1>1, <1>7 DEF IInv, TypeOK, Unmoved, outbox
<1>9. Stored(d)' /\ Shown(d)' /\ Rows(d)'
  <2>1. Range(Recorded(d))' = R
    BY <1>1, SameAnswer DEF R
  <2>2. Stored(d)'
    BY <1>1, <1>3, <2>1 DEF Stored
  <2> QED
    BY <1>1, <1>7, <1>8, <2>2 DEF IInv, Shown, Rows, Early, Unqueued, outbox, Enqueued
<1> QED
  BY <1>1, <1>6, <1>7, <1>8, <1>9, SameSnapshots, OneDispatch

\* The references are those of the components that were put before.
LEMMA PutSnapshotInv ==
    ASSUME IInv, NEW d \in Dispatch, PutSnapshot(d)
    PROVE  IInv'
<1> DEFINE R == Range(Recorded(d))
           refs == [k \in {artifacts[c] : c \in R} |-> CHOOSE c \in R : artifacts[c] = k]
           new == [dispatch |-> d, refs |-> refs, request |-> Component(d, "request"),
                   response |-> Component(d, "response")]
<1>1. /\ pc[d] = "stored" /\ pc' = [pc EXCEPT ![d] = "rooted"]
      /\ snapshot' = [snapshot EXCEPT ![d] = new]
      /\ UNCHANGED <<status, answer, artifacts, lineage, outbox, monitor, faults>>
  BY DEF PutSnapshot, Goto
<1>2. \A c \in R : artifacts[c] = c.kind
  BY <1>1 DEF IInv, Stored, OwnTypes
<1>3. refs = Refs(d)
  <2>1. {artifacts[c] : c \in R} = {c.kind : c \in R}
    BY <1>2
  <2>2. ASSUME NEW k
        PROVE  (CHOOSE c \in R : artifacts[c] = k) = (CHOOSE c \in R : c.kind = k)
    <3>1. \A c : (c \in R /\ artifacts[c] = k) <=> (c \in R /\ c.kind = k)
      BY <1>2
    <3> HIDE DEF R
    <3> QED
      BY <3>1
  <2> QED
    BY <2>1, <2>2 DEF Refs
<1>4. new = SnapshotOf(d)
  BY <1>3 DEF SnapshotOf
<1> HIDE DEF new
<1>5. TypeOK'
  BY <1>1 DEF IInv, TypeOK, outbox, monitor, Enqueued, Control
<1>6. pc'[d] = "rooted" /\ \A e \in Dispatch \ {d} : Unmoved(e)
  BY <1>1, SameTables DEF IInv, TypeOK, Unmoved, outbox
<1>7. Stored(d)' /\ Rows(d)'
  BY <1>1, <1>6, SameTables DEF IInv, Stored, Rows, Early, Unqueued, outbox, Enqueued
<1>8. Shown(d)'
  <2>1. ~Available(d)'
    BY <1>1, SameTables DEF IInv, Shown, Early, outbox
  <2>2. snapshot'[d] = SnapshotOf(d)'
    BY <1>1, <1>4, SameAnswer DEF IInv, Snapshots
  <2> QED
    BY <2>1, <2>2 DEF Shown
<1>9. Snapshots'
  BY <1>1 DEF IInv, Snapshots
<1> QED
  BY <1>1, <1>5, <1>6, <1>7, <1>8, <1>9, SameTables, OneDispatch DEF outbox

-----------------------------------------------------------------------------
(* Steps that move a coroutine only.                                        *)

LEMMA GoneInv ==
    ASSUME IInv, NEW d \in Dispatch, NEW l \in Control \ Unqueued, pc' = [pc EXCEPT ![d] = l],
           UNCHANGED <<status, answer, artifacts, snapshot, lineage, outbox, monitor>>
    PROVE  IInv'
<1>1. TypeOK' /\ pc'[d] = l
  BY DEF IInv, TypeOK, outbox, monitor, Enqueued
<1>2. \A e \in Dispatch \ {d} : Unmoved(e)
  BY SameTables DEF IInv, TypeOK, Unmoved, outbox
<1>3. Stored(d)' /\ Shown(d)' /\ Rows(d)'
  BY <1>1, SameTables, SameAnswer
  DEF IInv, Stored, Shown, Rows, Early, Unqueued, outbox, Enqueued
<1> QED
  BY <1>1, <1>2, <1>3, SameTables, SameSnapshots, OneDispatch DEF outbox

LEMMA GoesInv ==
    ASSUME IInv, NEW d \in Dispatch, Published(d) \/ RaiseDetached(d)
    PROVE  IInv'
BY GoneInv DEF Published, RaiseDetached, Goto, Control, Unqueued, Early

-----------------------------------------------------------------------------
(* What is appended to the lineage of a dispatch.                           *)

LEMMA ChainStep ==
    ASSUME IInv, NEW d \in Dispatch, NEW type \in Record, Chain(d, type),
           UNCHANGED <<artifacts, queue, snapshot, answer, row>>,
           \A e \in Dispatch \ {d} : pc'[e] = pc[e]
    PROVE  /\ queue' \in Seq(Dispatch) /\ OwnTypes' /\ Snapshots' /\ Lineages' /\ Grows
           /\ \A e \in Dispatch \ {d} : Unmoved(e)
           /\ type # "snapshot" => (Available(d)' <=> Available(d))
<1>1. /\ Lineages' /\ (type # "snapshot" => (Available(d)' <=> Available(d)))
      /\ \A e \in Dispatch \ {d} : lineage'[e] = lineage[e]
  BY ChainGrows DEF IInv
<1>2. queue' \in Seq(Dispatch) /\ OwnTypes' /\ Snapshots' /\ Grows
  BY DEF IInv, OwnTypes, Snapshots, Grows, Enqueued
<1>3. \A e \in Dispatch \ {d} : Unmoved(e)
  BY <1>1 DEF Unmoved, Available
<1> QED
  BY <1>1, <1>2, <1>3

LEMMA AppendSnapshotInv ==
    ASSUME IInv, NEW d \in Dispatch, AppendSnapshot(d)
    PROVE  IInv'
<1>1. /\ pc[d] = "rooted" /\ pc' = [pc EXCEPT ![d] = "recorded"] /\ Chain(d, "snapshot")
      /\ UNCHANGED <<status, answer, artifacts, snapshot, outbox, monitor, faults>>
  BY DEF AppendSnapshot, Goto
<1>2. TypeOK' /\ pc'[d] = "recorded" /\ \A e \in Dispatch \ {d} : pc'[e] = pc[e]
  <2>1. lineage' \in [Dispatch -> Seq(Entry)]
    BY <1>1, ChainGrows DEF IInv, Lineages, Record
  <2> QED
    BY <1>1, <2>1 DEF IInv, TypeOK, outbox, monitor, Enqueued, Control
<1>3. Stored(d)' /\ Shown(d)' /\ Rows(d)'
  BY <1>1, <1>2, SameAnswer
  DEF IInv, Stored, Shown, Rows, Early, Unqueued, outbox, Enqueued
<1>4. "snapshot" \in Record
  BY DEF Record
<1>5. /\ queue' \in Seq(Dispatch) /\ OwnTypes' /\ Snapshots' /\ Lineages' /\ Grows
      /\ \A e \in Dispatch \ {d} : Unmoved(e)
  BY <1>1, <1>2, <1>4, ChainStep DEF outbox
<1> QED
  BY <1>2, <1>3, <1>5, OneDispatch

\* A record other than the snapshot, by the coroutine or by a sweep.
LEMMA ChainInv ==
    ASSUME IInv, NEW d \in Dispatch, NEW type \in Record \ {"snapshot"}, Chain(d, type),
           UNCHANGED <<status, answer, artifacts, snapshot, queue, row, monitor>>,
           owed' \subseteq owed, NEW l \in Control, pc' = [pc EXCEPT ![d] = l],
           \/ l = pc[d]
           \/ l \in Control \ Unqueued
           \/ l = "projected" /\ pc[d] = "recorded",
           l # "stored" \/ l = pc[d]
    PROVE  IInv'
<1>1. pc'[d] = l /\ \A e \in Dispatch \ {d} : pc'[e] = pc[e]
  BY DEF IInv, TypeOK
<1>2. /\ queue' \in Seq(Dispatch) /\ OwnTypes' /\ Snapshots' /\ Lineages' /\ Grows
      /\ \A e \in Dispatch \ {d} : Unmoved(e)
      /\ Available(d)' <=> Available(d)
  BY <1>1, ChainStep
<1>3. TypeOK'
  BY <1>2 DEF IInv, TypeOK, monitor, Enqueued, Lineages
<1>4. Stored(d)'
  BY <1>1, SameAnswer DEF IInv, Stored
<1>5. Shown(d)'
  BY <1>1, <1>2, SameAnswer DEF IInv, Shown, Early, Unqueued
<1>6. Rows(d)'
  BY <1>1 DEF IInv, Rows, Early, Unqueued, Enqueued
<1> QED
  BY <1>2, <1>3, <1>4, <1>5, <1>6, OneDispatch

LEMMA ChainedInv ==
    ASSUME IInv, NEW d \in Dispatch, Project(d) \/ Converge(d) \/ PersistReceipt(d)
    PROVE  IInv'
<1>1. {"package", "receipt", "convergence"} \subseteq Record \ {"snapshot"}
  BY DEF Record
<1>2. CASE PersistReceipt(d)
  <2>1. pc' = [pc EXCEPT ![d] = pc[d]] /\ pc[d] \in Control
    BY <1>2 DEF PersistReceipt, recorder, IInv, TypeOK
  <2> QED
    BY <1>1, <1>2, <2>1, ChainInv DEF PersistReceipt, recorder
<1>3. CASE Converge(d)
  BY <1>1, <1>3, ChainInv DEF Converge, Goto, outbox, Control, Unqueued, Early
<1>4. CASE Project(d) /\ Chain(d, "package") /\ Goto(d, "projected")
  BY <1>1, <1>4, ChainInv DEF Project, Goto, outbox, Control
<1>5. CASE Project(d) /\ lineage' = lineage /\ Goto(d, "converge")
  BY <1>5, GoneInv DEF Project, Goto, outbox, Unqueued, Early, Control
<1> QED
  BY <1>2, <1>3, <1>4, <1>5 DEF Project

-----------------------------------------------------------------------------
(* The outbox.                                                              *)

LEMMA EnqueueInv ==
    ASSUME IInv, NEW d \in Dispatch, Enqueue(d)
    PROVE  IInv'
<1>1. /\ pc[d] = "projected" /\ pc' = [pc EXCEPT ![d] = "queued"]
      /\ queue' = Append(queue, d) /\ row' = [row EXCEPT ![d].status = "OPEN"]
      /\ UNCHANGED <<status, answer, artifacts, snapshot, lineage, owed, monitor, faults>>
  BY DEF Enqueue, Goto
<1>2. row[d] = Unsent
  BY <1>1 DEF IInv, Rows, Unqueued
<1>3. row'[d] = [status |-> "OPEN", attempts |-> 0] /\ \A e \in Dispatch \ {d} : row'[e] = row[e]
  BY <1>1, <1>2 DEF IInv, TypeOK, Unsent
<1>4. queue' \in Seq(Dispatch) /\ Enqueued' = Enqueued \cup {d}
  <2>1. queue \in Seq(Dispatch)
    BY DEF IInv
  <2>2. /\ Append(queue, d) \in Seq(Dispatch)
        /\ DOMAIN Append(queue, d) = 1..(Len(queue) + 1) /\ DOMAIN queue = 1..Len(queue)
        /\ \A i \in 1..Len(queue) : Append(queue, d)[i] = queue[i]
        /\ Append(queue, d)[Len(queue) + 1] = d /\ Len(queue) \in Nat
    BY <2>1
  <2>3. \A i \in 1..(Len(queue) + 1) : i \in 1..Len(queue) \/ i = Len(queue) + 1
    BY <2>2
  <2>4. Len(queue) + 1 \in 1..(Len(queue) + 1) /\ 1..Len(queue) \subseteq 1..(Len(queue) + 1)
    BY <2>2
  <2> DEFINE q == Append(queue, d)
  <2>5. {q[i] : i \in DOMAIN q} = {queue[i] : i \in DOMAIN queue} \cup {d}
    BY <2>2, <2>3, <2>4
  <2> QED
    BY <1>1, <2>2, <2>5 DEF Enqueued, Range
<1>5. TypeOK'
  <2>1. [status |-> "OPEN", attempts |-> 0]
          \in [status : {"ABSENT", "OPEN", "ACCEPTED", "FAILED"}, attempts : 0..MaxAttempts]
    BY LimitAssumption
  <2>2. row' \in [Dispatch -> [status : {"ABSENT", "OPEN", "ACCEPTED", "FAILED"},
                               attempts : 0..MaxAttempts]]
    BY <1>1, <1>3, <2>1 DEF IInv, TypeOK
  <2> QED
    BY <1>1, <1>4, <2>2 DEF IInv, TypeOK, monitor, Control
<1>6. /\ OwnTypes' /\ Snapshots' /\ Lineages' /\ Grows
      /\ \A e \in Dispatch : Available(e)' <=> Available(e)
  BY <1>1, <1>4 DEF IInv, OwnTypes, Snapshots, Lineages, Chained, Linked, Owned, Own, Grows, Available
<1>7. pc'[d] = "queued" /\ \A e \in Dispatch \ {d} : Unmoved(e)
  BY <1>1, <1>3, <1>6 DEF IInv, TypeOK, Unmoved
<1>8. Stored(d)' /\ Shown(d)' /\ Rows(d)'
  <2>1. Rows(d)'
    BY <1>3, <1>4, <1>7, LimitAssumption DEF Rows, Early, Unqueued
  <2> QED
    BY <1>1, <1>6, <1>7, <2>1, SameAnswer DEF IInv, Stored, Shown, Early
<1> QED
  BY <1>4, <1>5, <1>6, <1>7, <1>8, OneDispatch

LEMMA DeliverInv ==
    ASSUME IInv, NEW d \in Dispatch, Deliver(d)
    PROVE  IInv'
<1> DEFINE n == row[d].attempts + 1
<1>1. /\ row[d].status = "OPEN" /\ owed' = owed \cup {d}
      /\ UNCHANGED <<status, answer, pc, artifacts, snapshot, lineage, queue, monitor>>
  BY DEF Deliver, recorder
<1>2. PICK s \in {"OPEN", "ACCEPTED", "FAILED"} :
         /\ row' = [row EXCEPT ![d] = [status |-> s, attempts |-> n]]
         /\ s = "OPEN" => n < MaxAttempts
  BY DEF Deliver
<1>3. n \in 0..MaxAttempts /\ d \in Enqueued /\ pc[d] \notin Unqueued
  <2>1. row[d].attempts \in 0..MaxAttempts
    BY DEF IInv, TypeOK
  <2>2. row[d].attempts < MaxAttempts /\ d \in Enqueued
    BY <1>1 DEF IInv, Rows
  <2>3. pc[d] \notin Unqueued
    BY <1>1 DEF IInv, Rows, Unsent
  <2> QED
    BY <2>1, <2>2, <2>3, LimitAssumption
<1> HIDE DEF n
<1> DEFINE r == [status |-> s, attempts |-> n]
<1>4. r \in [status : {"ABSENT", "OPEN", "ACCEPTED", "FAILED"}, attempts : 0..MaxAttempts]
      /\ r.status = s /\ r.attempts = n
  BY <1>3
<1> HIDE DEF r
<1>5. /\ row' \in [Dispatch -> [status : {"ABSENT", "OPEN", "ACCEPTED", "FAILED"},
                                attempts : 0..MaxAttempts]]
      /\ row'[d] = r /\ \A e \in Dispatch \ {d} : row'[e] = row[e]
  BY <1>2, <1>4 DEF IInv, TypeOK, r
<1>6. TypeOK'
  BY <1>1, <1>3, <1>5 DEF IInv, TypeOK, monitor, Enqueued
<1>7. \A e \in Dispatch \ {d} : Unmoved(e)
  BY <1>1, <1>5, SameTables DEF Unmoved
<1>8. Stored(d)' /\ Shown(d)' /\ Rows(d)'
  <2>1. Rows(d)'
    BY <1>1, <1>2, <1>3, <1>4, <1>5 DEF Rows, Enqueued
  <2> QED
    BY <1>1, <2>1, SameTables, SameAnswer DEF IInv, Stored, Shown
<1> QED
  BY <1>1, <1>6, <1>7, <1>8, SameTables, SameSnapshots, OneDispatch

-----------------------------------------------------------------------------
(* The maintenance cycle, the crash, and the whole.                         *)

\* Steps that touch neither a recording nor an outbox, but may kill coroutines.
LEMMA QuietInv ==
    ASSUME IInv, UNCHANGED <<status, answer, artifacts, snapshot, lineage, queue, row>>,
           owed' \subseteq owed, TypeOK',
           \A d \in Dispatch : pc'[d] = pc[d] \/ pc'[d] \notin Unqueued
    PROVE  IInv'
<1>1. /\ queue' \in Seq(Dispatch) /\ OwnTypes' /\ Lineages' /\ Snapshots'
      /\ \A d \in Dispatch : Available(d)' <=> Available(d)
  BY SameTables, SameSnapshots
<1>2. ASSUME NEW d \in Dispatch
      PROVE  (Stored(d) /\ Shown(d) /\ Rows(d))'
  <2>1. Stored(d)'
    BY SameAnswer DEF IInv, Stored, Unqueued, Early
  <2>2. Shown(d)'
    BY <1>1, SameAnswer DEF IInv, Shown, Unqueued, Early
  <2>3. Rows(d)'
    BY DEF IInv, Rows, Enqueued
  <2> QED
    BY <2>1, <2>2, <2>3
<1> QED
  BY <1>1, <1>2 DEF IInv

LEMMA JudgeType ==
    ASSUME NEW d \in Dispatch
    PROVE  Judge(d) \in Verdict
BY DEF Judge, Verdict

LEMMA MaintainInv ==
    ASSUME IInv, Maintain \/ Crash
    PROVE  IInv'
<1>1. /\ UNCHANGED <<status, answer, artifacts, snapshot, lineage, queue, row>>
      /\ owed' \subseteq owed
  BY DEF Maintain, Reconcile, Scan, Crash, recorder, outbox
<1>2. pc' \in [Dispatch -> Control] /\ \A d \in Dispatch : pc'[d] = pc[d] \/ pc'[d] \notin Unqueued
  BY DEF IInv, TypeOK, Maintain, Reconcile, Scan, Crash, recorder, Control, Unqueued, Early
<1>3. DOMAIN report' \subseteq Dispatch /\ Range(report') \subseteq Verdict
  <2>1. CASE report' = report
    BY <2>1 DEF IInv, TypeOK
  <2>2. CASE report' = [d \in ToScan |-> Judge(d)]
    <3>1. ToScan \subseteq Dispatch
      BY DEF ToScan
    <3> HIDE DEF ToScan
    <3>2. \A d \in ToScan : report'[d] \in Verdict
      BY <2>2, <3>1, JudgeType
    <3>3. DOMAIN report' = ToScan
      BY <2>2
    <3> QED
      BY <3>1, <3>2, <3>3 DEF Range
  <2> QED
    BY <2>1, <2>2 DEF Maintain, Reconcile, Scan, Crash
<1>4. TypeOK'
  BY <1>1, <1>2, <1>3 DEF IInv, TypeOK, Enqueued
<1> QED
  BY <1>1, <1>2, <1>4, QuietInv

LEMMA InitInv ==
    ASSUME Init
    PROVE  IInv
<1>1. DOMAIN <<>> = {} /\ Range(<<>>) = {} /\ <<>> \in Seq(Entry) /\ <<>> \in Seq(Dispatch)
  BY DEF Range
<1>2. Unsent \in [status : {"ABSENT", "OPEN", "ACCEPTED", "FAILED"}, attempts : 0..MaxAttempts]
      /\ Unsent.status = "ABSENT"
  BY LimitAssumption DEF Unsent
<1>3. TypeOK
  BY <1>1, <1>2 DEF Init, TypeOK, AnswerKind, Control, Enqueued
<1>4. Lineages
  BY <1>1 DEF Init, Lineages, Chained, Owned
<1>5. OwnTypes /\ Snapshots /\ queue \in Seq(Dispatch)
  BY <1>1 DEF Init, OwnTypes, Snapshots
<1>6. \A d \in Dispatch : ~Available(d) /\ pc[d] = "new"
  BY <1>1 DEF Init, Available
<1>7. \A d \in Dispatch : Stored(d) /\ Shown(d) /\ Rows(d)
  BY <1>2, <1>6 DEF Init, Stored, Shown, Rows
<1> QED
  BY <1>3, <1>4, <1>5, <1>7 DEF IInv

LEMMA NextInv ==
    ASSUME IInv, [Next]_vars
    PROVE  IInv'
<1>1. CASE UNCHANGED vars
  <2>1. UNCHANGED <<status, answer, pc, artifacts, snapshot, lineage, queue, row, owed, report>>
    BY <1>1 DEF vars, recorder, outbox, monitor
  <2>2. TypeOK'
    BY <2>1 DEF IInv, TypeOK, Enqueued
  <2> QED
    BY <2>1, <2>2, QuietInv
<1>2. ASSUME NEW d \in Dispatch, Accept(d) \/ Step(d) \/ Handover(d) \/ RaiseDetached(d)
      PROVE  IInv'
  BY <1>2, AcceptInv, SettleInv, PutComponentsInv, PutSnapshotInv, AppendSnapshotInv, ChainedInv,
     EnqueueInv, DeliverInv, GoesInv DEF Step, Handover
<1> QED
  BY <1>1, <1>2, MaintainInv DEF Next

-----------------------------------------------------------------------------
(* Evidence that verifies.                                                  *)

\* A package whose snapshot stays goes on verifying while its lineage is chained.
LEMMA GoodStays ==
    ASSUME NEW d \in Dispatch, Good(d), snapshot'[d] = snapshot[d], Available(d)',
           Chained(lineage'[d])
    PROVE  Good(d)'
<1>1. Available(d) /\ Verified(Package(d))
  BY DEF Good
<1>2. Verified([hash |-> snapshot'[d], snapshot |-> snapshot'[d],
                components |-> snapshot'[d].refs, lineage |-> lineage'[d]])
  BY <1>1 DEF Verified, Package, Intact, Covered, Held
<1> QED
  BY <1>2 DEF Good, Package

\* What has been recorded is neither replaced nor taken from the lineage.
LEMMA SnapshotStays ==
    ASSUME IInv, [Next]_vars, NEW d \in Dispatch, Available(d)
    PROVE  snapshot'[d] = snapshot[d] /\ Available(d)'
<1>1. snapshot'[d] = snapshot[d]
  <2>1. CASE snapshot' = snapshot
    BY <2>1
  <2>2. ASSUME NEW e \in Dispatch, PutSnapshot(e)
        PROVE  snapshot'[d] = snapshot[d]
    <3>1. e # d
      BY <2>2 DEF IInv, Shown, Early, PutSnapshot
    <3> QED
      BY <2>2, <3>1 DEF IInv, Snapshots, PutSnapshot
  <2> QED
    BY <2>1, <2>2
    DEF Next, Accept, Step, Handover, RaiseDetached, Maintain, Crash, Settle, PutComponents,
        AppendSnapshot, Project, Enqueue, Published, Converge, Deliver, PersistReceipt, Reconcile,
        Scan, vars, recorder, outbox, monitor
<1>2. Available(d)'
  <2>1. CASE lineage' = lineage
    BY <2>1 DEF Available
  <2>2. ASSUME NEW e \in Dispatch, NEW type \in Record, Chain(e, type)
        PROVE  Available(d)'
    BY <2>2, ChainGrows DEF IInv, Available
  <2>3. {"snapshot", "package", "receipt", "convergence"} = Record
    BY DEF Record
  <2> QED
    BY <2>1, <2>2, <2>3
    DEF Next, Accept, Step, Handover, RaiseDetached, Maintain, Crash, Settle, PutComponents,
        PutSnapshot, AppendSnapshot, Project, Enqueue, Published, Converge, Deliver,
        PersistReceipt, Reconcile, Scan, vars, recorder, outbox, monitor
<1> QED
  BY <1>1, <1>2

\* A chained lineage shows that one of its entries is gone, unless it is the last.
LEMMA RemovedIsLast ==
    ASSUME NEW L \in Seq(Entry), Chained(L), NEW i \in DOMAIN L, Chained(RemoveAt(L, i))
    PROVE  i = Len(L)
<1> DEFINE n == Len(L)
           M == RemoveAt(L, i)
<1>1. n \in Nat /\ DOMAIN L = 1..n /\ i \in 1..n
  OBVIOUS
<1>2. SUFFICES ASSUME i < n
               PROVE  FALSE
  BY <1>1
<1>3. SubSeq(L, 1, i - 1) \in Seq(Entry) /\ Len(SubSeq(L, 1, i - 1)) = i - 1
      /\ \A k \in 1..(i - 1) : SubSeq(L, 1, i - 1)[k] = L[k]
  BY <1>1
<1>4. SubSeq(L, i + 1, n) \in Seq(Entry) /\ Len(SubSeq(L, i + 1, n)) = n - i
      /\ SubSeq(L, i + 1, n)[1] = L[i + 1]
  BY <1>1, <1>2
<1>5. DOMAIN M = 1..(n - 1) /\ M[i] = L[i + 1] /\ (i > 1 => M[i - 1] = L[i - 1])
  <2> DEFINE A == SubSeq(L, 1, i - 1)
             B == SubSeq(L, i + 1, n)
  <2>1. /\ A \in Seq(Entry) /\ Len(A) = i - 1 /\ \A k \in 1..(i - 1) : A[k] = L[k]
        /\ B \in Seq(Entry) /\ Len(B) = n - i /\ B[1] = L[i + 1] /\ M = A \o B
    BY <1>3, <1>4 DEF RemoveAt
  <2> HIDE DEF A, B, M
  <2>2. /\ A \o B \in Seq(Entry) /\ Len(A \o B) = Len(A) + Len(B)
        /\ \A k \in 1..(Len(A) + Len(B)) :
              (A \o B)[k] = IF k <= Len(A) THEN A[k] ELSE B[k - Len(A)]
    BY <2>1, ConcatProperties
  <2>3. DOMAIN (A \o B) = 1..(n - 1)
    <3> DEFINE Q == A \o B
    <3>1. Q \in Seq(Entry) /\ Len(Q) = n - 1
      BY <1>1, <2>1, <2>2
    <3> HIDE DEF Q
    <3>2. DOMAIN Q = 1..(n - 1)
      BY <3>1
    <3> QED
      BY <3>2 DEF Q
  <2>4. (A \o B)[i] = B[1]
    BY <1>1, <1>2, <2>1, <2>2
  <2>5. i > 1 => (A \o B)[i - 1] = A[i - 1] /\ i - 1 \in 1..(i - 1)
    BY <1>1, <1>2, <2>1, <2>2
  <2> QED
    BY <1>1, <2>1, <2>3, <2>4, <2>5
<1>6. i \in DOMAIN M /\ i + 1 \in DOMAIN L
  BY <1>1, <1>2, <1>5
<1> HIDE DEF M
<1>7. M[i].parent = IF i = 1 THEN <<>> ELSE Linked(M[i - 1])
  BY <1>6 DEF Chained, M
<1>8. L[i + 1].parent = Linked(L[i])
  <2> DEFINE j == i + 1
  <2>1. j \in DOMAIN L /\ j # 1 /\ j - 1 = i
    BY <1>1, <1>6
  <2> HIDE DEF j
  <2>2. L[j].parent = IF j = 1 THEN <<>> ELSE Linked(L[j - 1])
    BY <2>1 DEF Chained
  <2>3. L[j].parent = Linked(L[i])
    BY <2>1, <2>2
  <2> QED
    BY <2>3 DEF j
<1>9. L[i].parent = IF i = 1 THEN <<>> ELSE Linked(L[i - 1])
  BY DEF Chained
<1>10. L[i].parent = M[i].parent
  BY <1>1, <1>5, <1>7, <1>9
<1>11. L[i].parent \in Seq(Link) /\ [of |-> L[i].of, type |-> L[i].type] \in Link
  <2>1. L[i] \in Entry
    BY <1>1
  <2> QED
    BY <2>1 DEF Entry, Link
<1>12. Len(L[i + 1].parent) = Len(L[i].parent) + 1 /\ Len(L[i].parent) \in Nat
  BY <1>8, <1>11 DEF Linked
<1> QED
  BY <1>5, <1>10, <1>12

LEMMA CutIsPrefix ==
    ASSUME NEW L \in Seq(Entry), Len(L) > 0
    PROVE  IsPrefix(RemoveAt(L, Len(L)), L) /\ IsPrefix(L, L)
<1> DEFINE n == Len(L)
<1>1. n \in Nat /\ n > 0
  OBVIOUS
<1>2. SubSeq(L, 1, n - 1) \in Seq(Entry) /\ Len(SubSeq(L, 1, n - 1)) = n - 1
  <2> DEFINE m == n - 1
  <2>1. m \in Int /\ 1 \in Int /\ m >= 0 /\ \A i \in 1..m : L[i] \in Entry
    BY <1>1
  <2> HIDE DEF m
  <2>2. SubSeq(L, 1, m) \in Seq(Entry) /\ Len(SubSeq(L, 1, m)) = IF 1 <= m THEN m - 1 + 1 ELSE 0
    BY <2>1, SubSeqProperties
  <2>3. Len(SubSeq(L, 1, m)) = m
    BY <2>1, <2>2
  <2> QED
    BY <2>2, <2>3 DEF m
<1>3. RemoveAt(L, n) = SubSeq(L, 1, n - 1)
  <2>1. SubSeq(L, n + 1, n) = <<>>
    <3>1. n + 1 \in Int /\ n \in Int /\ n < n + 1
      BY <1>1
    <3> HIDE DEF n
    <3> QED
      BY <3>1, SubSeqEmpty
  <2>2. SubSeq(L, 1, n - 1) \o <<>> = SubSeq(L, 1, n - 1)
    BY <1>2, ConcatEmptySeq
  <2> QED
    BY <2>1, <2>2 DEF RemoveAt
<1>4. \A k \in 1..(n - 1) : SubSeq(L, 1, n - 1)[k] = L[k]
  BY <1>1
<1> DEFINE S == SubSeq(L, 1, n - 1)
<1>5. Len(S) = n - 1 /\ S \in Seq(Entry)
  BY <1>2
<1>6. SubSeq(S, 1, n - 1) = S
  BY <1>1, <1>5
<1> QED
  BY <1>1, <1>3, <1>5, <1>6 DEF IsPrefix

\* A chained lineage with another entry in one place is the lineage that it was, or
\* the one entry that another lineage begins with.
LEMMA ReplacedIsPrefix ==
    ASSUME NEW d \in Dispatch, NEW e \in Dispatch, NEW L \in Seq(Entry), NEW K \in Seq(Entry),
           Chained(L), Owned(L, d), Chained(K), Owned(K, e),
           d = e => L = K,
           NEW i \in DOMAIN L, NEW j \in DOMAIN K, Chained([L EXCEPT ![i] = K[j]])
    PROVE  [L EXCEPT ![i] = K[j]] = L \/ IsPrefix([L EXCEPT ![i] = K[j]], K)
<1> DEFINE M == [L EXCEPT ![i] = K[j]]
           n == Len(L)
<1>1. /\ n \in Nat /\ DOMAIN L = 1..n /\ i \in 1..n
      /\ Len(K) \in Nat /\ DOMAIN K = 1..Len(K) /\ j \in 1..Len(K)
      /\ L[i] \in Entry /\ K[j] \in Entry
  OBVIOUS
<1>2. Own(K[j], e, j) /\ Own(L[i], d, i)
  BY DEF Owned
<1>3. /\ M \in Seq(Entry) /\ DOMAIN M = 1..n /\ Len(M) = n /\ M[i] = K[j]
      /\ \A k \in 1..n : k # i => M[k] = L[k]
  BY <1>1
<1> HIDE DEF M
<1>4. M[i].parent = IF i = 1 THEN <<>> ELSE Linked(M[i - 1])
  BY <1>1, <1>3 DEF Chained, M
<1>5. ASSUME i # 1
      PROVE  /\ i - 1 \in 1..n /\ K[j].parent = Linked(L[i - 1])
             /\ Len(Linked(L[i - 1])) = i - 1 /\ Linked(L[i - 1])[i - 1].of = d
  <2> DEFINE h == i - 1
  <2>1. h \in 1..n /\ h # i /\ h \in Nat /\ h > 0
    BY <1>1, <1>5
  <2> HIDE DEF h
  <2>2. L[h] \in Entry /\ Own(L[h], d, h)
    BY <1>1, <2>1 DEF Owned
  <2>3. Len(Linked(L[h])) = h /\ \A k \in 1..h : Linked(L[h])[k].of = d
    BY <2>1, <2>2, LinkedOwn
  <2>4. Linked(L[h])[h].of = d
    BY <2>1, <2>3
  <2>5. M[h] = L[h]
    BY <1>3, <2>1
  <2> QED
    BY <1>3, <1>4, <1>5, <2>1, <2>3, <2>4, <2>5 DEF h
<1>6. j = i
  <2>1. Len(K[j].parent) = j - 1
    BY <1>2 DEF Own
  <2>2. Len(K[j].parent) = i - 1
    BY <1>1, <1>3, <1>4, <1>5
  <2> QED
    BY <1>1, <2>1, <2>2
<1>7. CASE d = e
  <2>1. L = K
    BY <1>7
  <2>2. M = L
    BY <1>6, <2>1 DEF M
  <2> QED
    BY <2>2 DEF M
<1>8. CASE d # e
  <2>1. i = 1
    <3> SUFFICES ASSUME i # 1
                 PROVE  FALSE
      OBVIOUS
    <3>1. \A k \in 1..(i - 1) : K[j].parent[k].of = e
      BY <1>2, <1>6 DEF Own
    <3>2. i - 1 \in 1..(i - 1)
      BY <1>1
    <3> QED
      BY <1>5, <1>8, <3>1, <3>2
  <2>2. n = 1
    <3> SUFFICES ASSUME n # 1
                 PROVE  FALSE
      OBVIOUS
    <3>1. 1 \in 1..n /\ 2 \in 1..n /\ 2 # 1 /\ 2 - 1 = 1
      BY <1>1
    <3>2. L[2].parent = Linked(L[1])
      BY <1>1, <3>1 DEF Chained
    <3>3. M[2].parent = Linked(M[1])
      BY <1>3, <3>1 DEF Chained, M
    <3>4. M[2] = L[2] /\ M[1] = K[1] /\ j = 1
      BY <1>3, <1>6, <2>1, <3>1
    <3>5. L[1] \in Entry /\ Own(L[1], d, 1) /\ K[1] \in Entry /\ Own(K[1], e, 1)
      BY <1>1, <1>2, <2>1, <3>4
    <3> DEFINE l == L[1]
               m == K[1]
               one == 1
    <3>6. one \in Nat /\ one > 0 /\ one \in 1..one
      OBVIOUS
    <3>7. l \in Entry /\ Own(l, d, one) /\ m \in Entry /\ Own(m, e, one)
      BY <3>5
    <3> HIDE DEF l, m, one
    <3>8. Linked(l)[one].of = d /\ Linked(m)[one].of = e
      BY <3>6, <3>7, LinkedOwn
    <3> QED
      BY <1>8, <3>2, <3>3, <3>4, <3>8 DEF l, m, one
  <2>3. Len(M) = 1 /\ M[1] = K[1] /\ 1 <= Len(K)
    BY <1>1, <1>3, <1>6, <2>1, <2>2
  <2>4. SubSeq(M, 1, 1) = SubSeq(K, 1, 1)
    <3>1. M \in Seq(Entry) /\ K \in Seq(Entry) /\ 1 <= Len(M) /\ 1 <= Len(K) /\ M[1] = K[1]
      BY <1>3, <2>3
    <3>2. \A S \in Seq(Entry) : 1 <= Len(S) => SubSeq(S, 1, 1) = [k \in 1..1 |-> S[1]]
      OBVIOUS
    <3> QED
      BY <3>1, <3>2
  <2>5. IsPrefix(M, K)
    BY <2>3, <2>4 DEF IsPrefix
  <2> QED
    BY <2>5 DEF M
<1> QED
  BY <1>7, <1>8

\* Of a package that verifies under the hash of d, the components are those of d.
LEMMA VerifiedIsRecorded ==
    ASSUME NEW d \in Dispatch, NEW p, Verified(p), p.hash = SnapshotOf(d),
           p.components = [k \in DOMAIN p.components |-> p.components[k]],
           DOMAIN p.components \subseteq DOMAIN Refs(d)
    PROVE  p.components = Recorded(d)
<1>1. p.snapshot.refs = Refs(d) /\ Intact(p) /\ Covered(p)
  BY DEF Verified, SnapshotOf
<1>2. DOMAIN p.components = Kind /\ DOMAIN Refs(d) = Kind
  BY <1>1, RefsAre DEF Covered
<1>3. \A k \in Kind : p.components[k] = Component(d, k)
  BY <1>1, <1>2, RefsAre DEF Intact
<1> QED
  BY <1>2, <1>3 DEF Recorded

LEMMA PackagesAreTrue ==
    ASSUME IInv
    PROVE  PackageIsTrue
<1> SUFFICES ASSUME NEW d \in Dispatch, Available(d), NEW p \in Damaged(d), Verified(p)
             PROVE  /\ p.components = Recorded(d)
                    /\ \E e \in Dispatch : IsPrefix(p.lineage, lineage[e])
  BY DEF PackageIsTrue
<1> DEFINE c == Refs(d)
           L == lineage[d]
<1>1. snapshot[d] = SnapshotOf(d) /\ snapshot[d].refs = c
  BY DEF IInv, Shown, SnapshotOf
<1>2. /\ L \in Seq(Entry) /\ Chained(L) /\ Owned(L, d) /\ Len(L) > 0
      /\ \A e \in Dispatch : /\ lineage[e] \in Seq(Entry)
                              /\ Chained(lineage[e]) /\ Owned(lineage[e], e)
  BY DEF IInv, Lineages, Available
<1>3. /\ Package(d).hash = SnapshotOf(d) /\ Package(d).components = c /\ Package(d).lineage = L
      /\ Package(d) = [hash |-> snapshot[d], snapshot |-> snapshot[d], components |-> c,
                       lineage |-> L]
  BY <1>1 DEF Package
<1>4. c = [k \in DOMAIN c |-> c[k]]
  BY DEF Refs
<1> HIDE DEF c, L
<1>5. /\ p.hash = SnapshotOf(d)
      /\ p.components = [k \in DOMAIN p.components |-> p.components[k]]
      /\ DOMAIN p.components \subseteq DOMAIN c
      /\ \/ p.lineage = L
         \/ \E i \in DOMAIN L : p.lineage = RemoveAt(L, i)
         \/ \E i \in DOMAIN L, e \in Dispatch : \E j \in DOMAIN lineage[e] :
               p.lineage = [L EXCEPT ![i] = lineage[e][j]]
         \/ \E e \in Dispatch : p.lineage = lineage[e]
  <2> DEFINE P == Package(d)
             Without == {[P EXCEPT !.components =
                            [k \in DOMAIN P.components \ {x} |-> P.components[k]]] :
                            x \in DOMAIN P.components}
             Other == {[P EXCEPT !.components[x] = y] :
                         x \in DOMAIN P.components, y \in [of : Dispatch, kind : Kind] \cup {Empty}}
             Foreign == {[P EXCEPT !.snapshot = snapshot[e]] :
                           e \in {f \in Dispatch : snapshot[f] # None}}
             Cut == {[P EXCEPT !.lineage = RemoveAt(P.lineage, i)] : i \in DOMAIN P.lineage}
             Entries == UNION {Range(lineage[e]) : e \in Dispatch}
             Swapped == {[P EXCEPT !.lineage[i] = y] : i \in DOMAIN P.lineage, y \in Entries}
             Alien == {[P EXCEPT !.lineage = lineage[e]] : e \in Dispatch}
  <2>1. CASE p \in Without
    <3>1. PICK x \in DOMAIN P.components :
               p = [P EXCEPT !.components = [k \in DOMAIN P.components \ {x} |-> P.components[k]]]
      BY <2>1
    <3>2. p.hash = SnapshotOf(d) /\ p.lineage = L
          /\ p.components = [k \in DOMAIN c \ {x} |-> c[k]]
      BY <1>3, <3>1
    <3> QED
      BY <3>2
  <2>2. CASE p \in Other
    <3>1. PICK x \in DOMAIN P.components, y \in [of : Dispatch, kind : Kind] \cup {Empty} :
               p = [P EXCEPT !.components[x] = y]
      BY <2>2
    <3>2. p.hash = SnapshotOf(d) /\ p.components = [c EXCEPT ![x] = y] /\ p.lineage = L
      BY <1>3, <3>1
    <3> QED
      BY <1>4, <3>2
  <2>3. CASE p \in Foreign
    <3>1. PICK e \in Dispatch : p = [P EXCEPT !.snapshot = snapshot[e]]
      BY <2>3
    <3>2. p.hash = SnapshotOf(d) /\ p.components = c /\ p.lineage = L
      BY <1>3, <3>1
    <3> QED
      BY <1>4, <3>2
  <2>4. CASE p \in Cut
    <3>1. PICK i \in DOMAIN P.lineage : p = [P EXCEPT !.lineage = RemoveAt(P.lineage, i)]
      BY <2>4
    <3>2. p.hash = SnapshotOf(d) /\ p.components = c /\ p.lineage = RemoveAt(L, i)
          /\ i \in DOMAIN L
      BY <1>3, <3>1
    <3> QED
      BY <1>4, <3>2
  <2>5. CASE p \in Swapped
    <3>1. PICK i \in DOMAIN P.lineage, y \in Entries : p = [P EXCEPT !.lineage[i] = y]
      BY <2>5
    <3>2. PICK e \in Dispatch : y \in Range(lineage[e])
      BY <3>1
    <3>3. PICK j \in DOMAIN lineage[e] : y = lineage[e][j]
      BY <3>2 DEF Range
    <3>4. p.hash = SnapshotOf(d) /\ p.components = c /\ p.lineage = [L EXCEPT ![i] = y]
          /\ i \in DOMAIN L
      BY <1>3, <3>1
    <3>5. \E a \in DOMAIN L, b \in Dispatch : \E f \in DOMAIN lineage[b] :
             p.lineage = [L EXCEPT ![a] = lineage[b][f]]
      BY <3>3, <3>4
    <3> QED
      BY <1>4, <3>4, <3>5
  <2>6. CASE p \in Alien
    <3>1. PICK e \in Dispatch : p = [P EXCEPT !.lineage = lineage[e]]
      BY <2>6
    <3>2. p.hash = SnapshotOf(d) /\ p.components = c /\ p.lineage = lineage[e]
      BY <1>3, <3>1
    <3> QED
      BY <1>4, <3>2
  <2>7. p \in Without \cup Other \cup Foreign \cup Cut \cup Swapped \cup Alien
    <3>1. Damaged(d) = Without \cup Other \cup Foreign \cup Cut \cup Swapped \cup Alien
      BY DEF Damaged
    <3> HIDE DEF Without, Other, Foreign, Cut, Swapped, Alien
    <3> QED
      BY <3>1
  <2> HIDE DEF Without, Other, Foreign, Cut, Swapped, Alien
  <2> QED
    BY <2>1, <2>2, <2>3, <2>4, <2>5, <2>6, <2>7
<1>6. p.components = Recorded(d)
  BY <1>5, VerifiedIsRecorded DEF c
<1>7. \E e \in Dispatch : IsPrefix(p.lineage, lineage[e])
  <2>1. Chained(p.lineage)
    BY DEF Verified
  <2>2. L = lineage[d] /\ IsPrefix(L, L)
    BY <1>2, CutIsPrefix DEF L
  <2>3. ASSUME NEW i \in DOMAIN L, p.lineage = RemoveAt(L, i)
        PROVE  IsPrefix(p.lineage, L)
    BY <1>2, <2>1, <2>3, RemovedIsLast, CutIsPrefix
  <2>4. ASSUME NEW i \in DOMAIN L, NEW e \in Dispatch, NEW j \in DOMAIN lineage[e],
               p.lineage = [L EXCEPT ![i] = lineage[e][j]]
        PROVE  p.lineage = L \/ IsPrefix(p.lineage, lineage[e])
    <3> DEFINE K == lineage[e]
    <3>1. K \in Seq(Entry) /\ Chained(K) /\ Owned(K, e) /\ (d = e => L = K)
      BY <1>2, <2>2
    <3>2. j \in DOMAIN K /\ p.lineage = [L EXCEPT ![i] = K[j]]
      BY <2>4
    <3> HIDE DEF K
    <3>3. p.lineage = L \/ IsPrefix(p.lineage, K)
      BY <1>2, <2>1, <3>1, <3>2, ReplacedIsPrefix
    <3> QED
      BY <3>3 DEF K
  <2>5. ASSUME NEW e \in Dispatch, p.lineage = lineage[e]
        PROVE  IsPrefix(p.lineage, lineage[e])
    <3> DEFINE K == lineage[e]
    <3>1. K \in Seq(Entry)
      BY <1>2
    <3> HIDE DEF K
    <3>2. IsPrefix(K, K)
      BY <3>1 DEF IsPrefix
    <3> QED
      BY <2>5, <3>2 DEF K
  <2> QED
    BY <1>5, <2>2, <2>3, <2>4, <2>5
<1> QED
  BY <1>6, <1>7

\* Bundles that validate are those that their handover bundle was made of.
LEMMA HandoversAreOfOne == HandoverOfOne
<1> SUFFICES ASSUME NEW d \in Dispatch, Good(d), NEW others, others = {e \in Dispatch : Good(e)},
                    NEW h \in Repacked(d) \cup UNION {Mixed(d, e) : e \in others}, Valid(h)
             PROVE  \E e \in others : h = Build(e, Package(e))
  BY DEF HandoverOfOne
<1>1. \A e : DOMAIN Build(e, Package(e)) = {"evidence", "lineage", "replay", "handover"}
             /\ \A name \in {"evidence", "lineage", "replay"} :
                   Build(e, Package(e)).handover.items[name] = Build(e, Package(e))[name]
             /\ Build(e, Package(e)) = [n \in {"evidence", "lineage", "replay", "handover"} |->
                                          Build(e, Package(e))[n]]
  BY DEF Build
<1>2. Wired(h)
  BY DEF Valid
<1>3. CASE h \in Repacked(d)
  <2>1. PICK p : h = [Build(d, Package(d)) EXCEPT !.replay.package = p]
    BY <1>3 DEF Repacked
  <2> DEFINE B == Build(d, Package(d))
  <2>2. /\ h.replay = [B.replay EXCEPT !.package = p] /\ h.handover = B.handover
    BY <2>1 DEF Build
  <2>3. h.handover.items["replay"] = h["replay"]
    BY <1>2 DEF Wired
  <2>4. [B.replay EXCEPT !.package = p] = B.replay
    BY <1>1, <2>2, <2>3
  <2>5. h = B
    BY <2>1, <2>4 DEF Build, ReplayBundle
  <2> QED
    BY <2>5
<1>4. ASSUME NEW e \in others, h \in Mixed(d, e)
      PROVE  \E f \in others : h = Build(f, Package(f))
  <2> DEFINE N == {"evidence", "lineage", "replay", "handover"}
             B(f) == Build(f, Package(f))
  <2>1. PICK from \in [N -> {d, e}] : h = [name \in N |-> B(from[name])[name]]
    <3>1. \A x \in {d, e} : DOMAIN B(x) = N
      BY <1>1
    <3> DEFINE H == [x \in {d, e} |-> B(x)]
    <3>2. h \in {[m \in DOMAIN H[d] |-> H[from[m]][m]] :
                   from \in [DOMAIN H[d] -> {d, e}]}
      BY <1>4 DEF Mixed
    <3>3. \A x \in {d, e} : H[x] = B(x)
      OBVIOUS
    <3> HIDE DEF H, B, N
    <3>4. h \in {[m \in N |-> H[from[m]][m]] : from \in [N -> {d, e}]}
      BY <3>1, <3>2, <3>3
    <3> QED
      BY <3>3, <3>4
  <2> DEFINE f == from["handover"]
  <2>2. f \in {d, e} /\ h.handover = B(f).handover
    BY <2>1
  <2>3. \A name \in {"evidence", "lineage", "replay"} : h[name] = B(f)[name]
    BY <1>1, <1>2, <2>2 DEF Wired
  <2>4. \A name \in N : h[name] = B(f)[name]
    BY <2>2, <2>3
  <2>5. h = B(f)
    BY <1>1, <2>1, <2>4
  <2> QED
    BY <2>2, <2>5
<1> QED
  BY <1>3, <1>4

-----------------------------------------------------------------------------
(* The theorems.                                                            *)

\* The inductive invariant of what record_dispatch, the depository and the outbox
\* keep of every dispatch.
THEOREM Inductive == Spec => []IInv
<1>1. Init => IInv
  BY InitInv
<1>2. IInv /\ [Next]_vars => IInv'
  BY NextInv
<1> QED
  BY <1>1, <1>2, PTL DEF Spec

\* The tables of the depository, the lineages, the deliveries and the verdicts of
\* the continuity monitor have their types.
THEOREM TypeCorrect == Spec => []TypeOK
<1>1. IInv => TypeOK
  BY DEF IInv
<1> QED
  BY <1>1, Inductive, PTL

\* Evidence that verifies goes on verifying, whoever appends to its lineage
\* (append_central_lineage), whatever is stored besides, and over crashes.
THEOREM VerifiedForEver == Spec => VerifiedStays
<1>1. ASSUME IInv, IInv', [Next]_vars
      PROVE  \A d \in Dispatch : Good(d) => Good(d)'
  <2> SUFFICES ASSUME NEW d \in Dispatch, Good(d) PROVE Good(d)'
    OBVIOUS
  <2>1. snapshot'[d] = snapshot[d] /\ Available(d)'
    BY <1>1, SnapshotStays DEF Good
  <2>2. Chained(lineage'[d])
    BY <1>1 DEF IInv, Lineages, Chained
  <2> QED
    BY <2>1, <2>2, GoodStays
<1>2. IInv /\ IInv' /\ [Next]_vars => [\A d \in Dispatch : Good(d) => Good(d)']_vars
  BY <1>1
<1> QED
  BY <1>2, Inductive, PTL DEF Spec, VerifiedStays

\* A package that verify_portable_artifacts accepts has each component of its
\* dispatch, and a beginning of the lineage of one dispatch.
THEOREM PackagesTrue == Spec => []PackageIsTrue
<1>1. IInv => PackageIsTrue
  BY PackagesAreTrue
<1> QED
  BY <1>1, Inductive, PTL

\* Bundles that validate together are of one dispatch and around the package
\* that it recorded (tantra_handover.py).
THEOREM HandoversOfOne == Spec => []HandoverOfOne
<1>1. HandoverOfOne
  BY HandoversAreOfOne
<1> QED
  BY <1>1, PTL

=============================================================================
