---------------------------- MODULE OutboxProofs ----------------------------
(***************************************************************************)
(* Machine-checked proofs about Outbox, for every number of deliveries,      *)
(* senders, instances, attempts and faults.                                  *)
(***************************************************************************)
EXTENDS Outbox, Integers, FiniteSetTheorems, TLAPS

-----------------------------------------------------------------------------
(* Types.                                                                   *)

\* A typed row, and what a typed sender holds of it.
LEMMA RowType ==
    ASSUME TypeOK, NEW d \in Delivery
    PROVE  /\ table[d] \in Row
           /\ table[d].status \in Status /\ table[d].attempts \in Nat
           /\ table[d].token \in Token \cup {None}
           /\ \A s \in Sender : /\ held[s][d].attempts \in Nat
                                /\ held[s][d].token \in Token \cup {None}
BY DEF TypeOK, Row

\* A sender that leaves drops its locals.
LEMMA LeaveType ==
    ASSUME TypeOK, NEW s \in Sender, Leave(s)
    PROVE  /\ pc' \in [Sender -> Control]
           /\ batch' \in [Sender -> SUBSET Delivery]
           /\ held' \in [Sender -> [Delivery -> [attempts : Nat, token : Token \cup {None}]]]
           /\ cur' \in [Sender -> Delivery \cup {None}]
           /\ answer' \in [Sender -> Answer \cup {None}]
BY DEF TypeOK, Leave, Goto, Control, NotHeld

\* Rewriting some rows keeps the table typed.
LEMMA TableUpdate ==
    ASSUME TypeOK, NEW d \in Delivery, NEW r \in Row
    PROVE  [table EXCEPT ![d] = r] \in [Delivery -> Row]
BY DEF TypeOK

\* A row whose columns are rewritten is a row.
LEMMA RowExcept ==
    ASSUME NEW r \in Row, NEW st \in Status, NEW n \in Nat,
           NEW t \in Token \cup {None}, NEW l \in BOOLEAN
    PROVE  [r EXCEPT !.status = st, !.attempts = n, !.token = t, !.live = l]
             \in Row
BY DEF Row

\* So is one whose lease is given up.
LEMMA RowGivenUp ==
    ASSUME NEW r \in Row, NEW st \in Status, NEW b \in BOOLEAN
    PROVE  [r EXCEPT !.status = st, !.token = None, !.live = FALSE, !.due = b]
             \in Row
BY DEF Row

\* The verdict on a claimed row is one of its statuses, and of a receipt's.
LEMMA VerdictType ==
    ASSUME NEW s
    PROVE  Verdict(s) \in {"ACCEPTED", "RETRY", "FAILED"}
BY DEF Verdict

\* The outbox starts typed.
LEMMA InitType == Init => TypeOK
BY DEF Init, TypeOK, Row, Status, Control, NotHeld

\* A claim keeps the types.
LEMMA ClaimType ==
    ASSUME TypeOK, NEW s \in Sender, NEW D \in SUBSET Delivery, Claim(s, D)
    PROVE  /\ table' \in [Delivery -> Row] /\ batch' \in [Sender -> SUBSET Delivery]
           /\ pc' \in [Sender -> Control]
           /\ UNCHANGED <<held, cur, answer>>
<1>1. [owner |-> Home[s], attempt |-> 0] \in Token
  BY HomeAssumption DEF Token
<1>2. ASSUME NEW d \in Delivery
      PROVE  [table[d] EXCEPT !.status = "IN_PROGRESS",
                              !.attempts = table[d].attempts + 1,
                              !.token = [owner |-> Home[s],
                                         attempt |-> table[d].attempts + 1],
                              !.live = TRUE] \in Row
  <2>1. [owner |-> Home[s], attempt |-> table[d].attempts + 1] \in Token
    BY RowType, HomeAssumption DEF Token
  <2>2. "IN_PROGRESS" \in Status /\ table[d].attempts + 1 \in Nat
    BY RowType DEF Status
  <2> QED
    BY <2>1, <2>2, RowType, RowExcept
<1>3. table' \in [Delivery -> Row]
  BY <1>2, RowType DEF Claim
<1> QED
  BY <1>3 DEF Claim, TypeOK, Goto, Control

\* A sender that is sending sends a delivery.
LEMMA SendsType ==
    ASSUME TypeOK, SenderOK, NEW s \in Sender, pc[s] \in Sending
    PROVE  cur[s] \in Delivery
BY DEF TypeOK, SenderOK, InOrder

\* Every step keeps the types.
LEMMA NextType == TypeOK /\ SenderOK /\ [Next]_vars => TypeOK'
<1> SUFFICES ASSUME TypeOK, SenderOK, [Next]_vars PROVE TypeOK'
  OBVIOUS
<1> USE DEF local
<1>1. ASSUME NEW s \in Sender, NEW d \in Delivery, Enqueue(s, d)
      PROVE  TypeOK'
  <2> DEFINE new == [table[d] EXCEPT !.status =
                       IF configured[Home[s]] THEN "PENDING"
                                              ELSE "WAITING_CONFIGURATION"]
  <2>1. new \in Row
    BY RowType DEF Row, Status, Ready
  <2>2. table' = [table EXCEPT ![d] = new]
    BY <1>1 DEF Enqueue
  <2>3. table' \in [Delivery -> Row]
    <3> HIDE DEF new
    <3> QED BY <2>1, <2>2, TableUpdate
  <2> QED
    BY <1>1, <2>3 DEF Enqueue, TypeOK, Goto, Control
<1>2. ASSUME NEW s \in Sender, ReceiptNotAttempted(s)
      PROVE  TypeOK'
  <2>1. PICK d \in batch[s] :
          receipts' = Append(receipts, [delivery |-> d, attempt |-> 0,
                                        status |-> "NOT_ATTEMPTED"])
    BY <1>2 DEF ReceiptNotAttempted
  <2>2. [delivery |-> d, attempt |-> 0, status |-> "NOT_ATTEMPTED"] \in Receipt
    BY DEF TypeOK, Receipt
  <2>3. receipts' \in Seq(Receipt)
    BY <2>1, <2>2 DEF TypeOK
  <2> QED
    BY <1>2, <2>3, LeaveType DEF ReceiptNotAttempted, TypeOK
<1>3. ASSUME NEW s \in Sender, ClaimPublished(s)
      PROVE  TypeOK'
  <2>1. batch[s] \in SUBSET Delivery
    BY DEF TypeOK
  <2> QED
    BY <1>3, <2>1, ClaimType, LeaveType DEF ClaimPublished, TypeOK
<1>4. ASSUME NEW s \in Sender, Sweep(s)
      PROVE  TypeOK'
  <2>1. PICK D \in SUBSET Due : Claim(s, D)
    BY <1>4 DEF Sweep
  <2>2. D \in SUBSET Delivery
    BY DEF Due
  <2> QED
    BY <1>4, <2>1, <2>2, ClaimType DEF Sweep, TypeOK
<1>5. ASSUME NEW s \in Sender, ReadClaim(s)
      PROVE  TypeOK'
  <2>1. PICK d \in batch[s] :
          held' = [held EXCEPT ![s][d] = [attempts |-> table[d].attempts,
                                          token |-> table[d].token]]
    BY <1>5 DEF ReadClaim
  <2>2. d \in Delivery
    BY DEF TypeOK
  <2>3. [attempts |-> table[d].attempts, token |-> table[d].token]
          \in [attempts : Nat, token : Token \cup {None}]
    BY <2>2, RowType
  <2>4. held' \in [Sender -> [Delivery -> [attempts : Nat, token : Token \cup {None}]]]
    BY <2>1, <2>2, <2>3 DEF TypeOK
  <2>5. pc' \in [Sender -> Control]
    BY <1>5 DEF ReadClaim, TypeOK, Goto, Control
  <2> QED
    BY <1>5, <2>4, <2>5 DEF ReadClaim, TypeOK
<1>6. ASSUME NEW s \in Sender, Post(s)
      PROVE  TypeOK'
  BY <1>6 DEF Post, TypeOK, Goto, Control
<1>7. ASSUME NEW s \in Sender, GatewayTakes(s)
      PROVE  TypeOK'
  <2>1. cur[s] \in Delivery
    BY <1>7, SendsType DEF GatewayTakes, Sending
  <2> QED
    BY <1>7, <2>1 DEF GatewayTakes, TypeOK, Goto, Control
<1>8. ASSUME NEW s \in Sender, NEW a \in Answer, Respond(s, a)
      PROVE  TypeOK'
  BY <1>8 DEF Respond, TypeOK, Goto, Control
<1>9. ASSUME NEW s \in Sender, Record(s)
      PROVE  TypeOK'
  <2>1. cur[s] \in Delivery
    BY <1>9, SendsType DEF Record, Sending
  <2>2. CASE Fenced(s)
    <3> DEFINE new == [table[cur[s]] EXCEPT !.status = Verdict(s), !.token = None,
                                            !.live = FALSE,
                                            !.due = Verdict(s) # "RETRY"]
    <3>1. new \in Row
      <4>1. Verdict(s) \in Status /\ (Verdict(s) # "RETRY") \in BOOLEAN
        BY VerdictType DEF Status, Settled, Ready
      <4> QED
        BY <2>1, <4>1, RowType, RowGivenUp
    <3>2. table' = [table EXCEPT ![cur[s]] = new]
      BY <1>9, <2>2, Zenon DEF Record
    <3>3. table' \in [Delivery -> Row]
      <4> HIDE DEF new
      <4> QED BY <2>1, <3>1, <3>2, TableUpdate
    <3> QED
      BY <1>9, <2>2, <3>3 DEF Record, TypeOK, Goto, Control
  <2>3. CASE ~Fenced(s)
    BY <1>9, <2>3, LeaveType DEF Record, TypeOK
  <2> QED
    BY <2>2, <2>3
<1>10. ASSUME NEW s \in Sender, PersistReceipt(s)
      PROVE  TypeOK'
  <2>1. cur[s] \in Delivery
    BY <1>10, SendsType DEF PersistReceipt, Sending
  <2>2. [delivery |-> cur[s], attempt |-> held[s][cur[s]].attempts,
         status |-> Verdict(s)] \in Receipt
    <3>1. held[s][cur[s]].attempts \in Nat
      BY <2>1, RowType
    <3> QED
      BY <2>1, <3>1, VerdictType DEF Receipt
  <2>3. receipts' \in Seq(Receipt)
    BY <1>10, <2>2 DEF PersistReceipt, TypeOK
  <2>4. CASE batch[s] = {cur[s]}
    BY <1>10, <2>3, <2>4, LeaveType DEF PersistReceipt, TypeOK
  <2>5. CASE batch[s] # {cur[s]}
    <3>1. NotHeld \in [attempts : Nat, token : Token \cup {None}]
      BY DEF NotHeld
    <3> DEFINE mine == [held[s] EXCEPT ![cur[s]] = NotHeld]
    <3>2. mine \in [Delivery -> [attempts : Nat, token : Token \cup {None}]]
      BY <2>1, <3>1 DEF TypeOK
    <3>3. held' = [held EXCEPT ![s] = mine]
      BY <1>10, <2>5 DEF PersistReceipt
    <3>4. held' \in [Sender -> [Delivery -> [attempts : Nat, token : Token \cup {None}]]]
      <4> HIDE DEF mine
      <4> QED BY <3>2, <3>3 DEF TypeOK
    <3>5. batch' \in [Sender -> SUBSET Delivery]
      <4>1. batch' = [batch EXCEPT ![s] = batch[s] \ {cur[s]}]
        BY <1>10, <2>5 DEF PersistReceipt
      <4>2. batch[s] \ {cur[s]} \in SUBSET Delivery
        BY DEF TypeOK
      <4> QED
        BY <4>1, <4>2 DEF TypeOK
    <3>6. /\ pc' \in [Sender -> Control] /\ cur' \in [Sender -> Delivery \cup {None}]
          /\ answer' \in [Sender -> Answer \cup {None}]
      BY <1>10, <2>5 DEF PersistReceipt, TypeOK, Goto, Control
    <3> QED
      BY <1>10, <2>3, <3>4, <3>5, <3>6 DEF PersistReceipt, TypeOK
  <2> QED
    BY <2>4, <2>5
<1>11. ASSUME NEW d \in Delivery, LeaseLapses(d) \/ LeaseOverrun(d)
      PROVE  TypeOK'
  <2> DEFINE new == [table[d] EXCEPT !.live = FALSE]
  <2>1. new \in Row
    BY RowType DEF Row
  <2>2. table' = [table EXCEPT ![d] = new]
    BY <1>11 DEF LeaseLapses, LeaseOverrun, Lapse
  <2>3. table' \in [Delivery -> Row]
    <3> HIDE DEF new
    <3> QED BY <2>1, <2>2, TableUpdate
  <2> QED
    BY <1>11, <2>3 DEF LeaseLapses, LeaseOverrun, Lapse, TypeOK
<1>12. ASSUME NEW d \in Delivery, BackoffEnds(d)
      PROVE  TypeOK'
  <2> DEFINE new == [table[d] EXCEPT !.due = TRUE]
  <2>1. new \in Row
    BY RowType DEF Row
  <2>2. table' = [table EXCEPT ![d] = new]
    BY <1>12 DEF BackoffEnds
  <2>3. table' \in [Delivery -> Row]
    <3> HIDE DEF new
    <3> QED BY <2>1, <2>2, TableUpdate
  <2> QED
    BY <1>12, <2>3 DEF BackoffEnds, TypeOK
<1>13. ASSUME NEW i \in Instance, Configure(i)
      PROVE  TypeOK'
  BY <1>13 DEF Configure, TypeOK
<1>14. ASSUME NEW s \in Sender, Crash(s)
      PROVE  TypeOK'
  BY <1>14, LeaveType DEF Crash, TypeOK
<1>15. CASE UNCHANGED vars
  BY <1>15 DEF vars, TypeOK
<1> QED
  BY <1>1, <1>2, <1>3, <1>4, <1>5, <1>6, <1>7, <1>8, <1>9, <1>10, <1>11,
     <1>12, <1>13, <1>14, <1>15 DEF Next, Step

-----------------------------------------------------------------------------
(* What a step may do to a row.                                             *)

Opened(d) ==
    /\ table[d].status = "ABSENT"
    /\ table'[d].status \in {"PENDING", "WAITING_CONFIGURATION"}
    /\ table'[d].attempts = table[d].attempts
    /\ table'[d].token = table[d].token

Claimed(d) ==
    /\ table[d].status \in Ready \cup {"IN_PROGRESS"}
    /\ table'[d].status = "IN_PROGRESS"
    /\ table'[d].attempts = table[d].attempts + 1
    /\ table'[d].token # None
    /\ table'[d].token.attempt = table[d].attempts + 1

Closed(d) ==
    /\ table[d].status = "IN_PROGRESS"
    /\ table'[d].status \in {"ACCEPTED", "RETRY", "FAILED"}
    /\ table'[d].attempts = table[d].attempts
    /\ table'[d].token = None

Timed(d) ==
    /\ table[d].status \notin Settled
    /\ table'[d].status = table[d].status
    /\ table'[d].attempts = table[d].attempts
    /\ table'[d].token = table[d].token

Moves(d) ==
    table'[d] = table[d] \/ Opened(d) \/ Claimed(d) \/ Closed(d) \/ Timed(d)

\* A claim claims, and moves no other row.
LEMMA ClaimMoves ==
    ASSUME TypeOK, NEW s \in Sender, NEW D \in SUBSET Delivery,
           \A d \in D : Claimable(d), Claim(s, D), NEW d \in Delivery
    PROVE  IF d \in D THEN Claimed(d) ELSE table'[d] = table[d]
<1>1. CASE d \in D
  <2> DEFINE t == [owner |-> Home[s], attempt |-> table[d].attempts + 1]
  <2>1. table'[d] = [table[d] EXCEPT !.status = "IN_PROGRESS",
                                     !.attempts = table[d].attempts + 1,
                                     !.token = t, !.live = TRUE]
    BY <1>1 DEF Claim
  <2>2. t \in Token
    BY RowType, HomeAssumption DEF Token
  <2>3. t # None /\ t.attempt = table[d].attempts + 1
    BY <2>2, NoneAssumption
  <2>4. /\ table'[d].status = "IN_PROGRESS"
        /\ table'[d].attempts = table[d].attempts + 1
        /\ table'[d].token = t
    <3> HIDE DEF t
    <3> QED BY <2>1, RowType DEF Row
  <2>5. table[d].status \in Ready \cup {"IN_PROGRESS"}
    BY <1>1 DEF Claimable
  <2> QED
    BY <1>1, <2>3, <2>4, <2>5 DEF Claimed
<1>2. CASE d \notin D
  BY <1>2 DEF Claim
<1> QED
  BY <1>1, <1>2

\* Every step moves every row in one of these ways.
LEMMA NextMoves ==
    ASSUME TypeOK, SenderOK, [Next]_vars, NEW d \in Delivery
    PROVE  Moves(d)
<1> USE DEF local
<1>1. ASSUME NEW s \in Sender, NEW e \in Delivery, Enqueue(s, e)
      PROVE  Moves(d)
  <2>1. CASE d = e
    BY <1>1, <2>1, RowType DEF Enqueue, Moves, Opened, TypeOK, Row
  <2>2. CASE d # e
    BY <1>1, <2>2 DEF Enqueue, Moves, TypeOK
  <2> QED
    BY <2>1, <2>2
<1>2. ASSUME NEW s \in Sender, ClaimPublished(s)
      PROVE  Moves(d)
  <2>1. CASE \E e \in batch[s] : Claimable(e)
    <3>1. batch[s] \in SUBSET Delivery /\ \A e \in batch[s] : Claimable(e)
      BY <1>2, <2>1 DEF ClaimPublished, SenderOK, InOrder, TypeOK
    <3> QED
      BY <1>2, <2>1, <3>1, ClaimMoves DEF ClaimPublished, Moves
  <2>2. CASE ~ \E e \in batch[s] : Claimable(e)
    BY <1>2, <2>2 DEF ClaimPublished, Moves
  <2> QED
    BY <2>1, <2>2
<1>3. ASSUME NEW s \in Sender, Sweep(s)
      PROVE  Moves(d)
  <2>1. PICK D \in SUBSET Due : Claim(s, D)
    BY <1>3 DEF Sweep
  <2>2. D \in SUBSET Delivery /\ \A e \in D : Claimable(e)
    BY DEF Due
  <2> QED
    BY <2>1, <2>2, ClaimMoves DEF Moves
<1>4. ASSUME NEW s \in Sender, Record(s)
      PROVE  Moves(d)
  <2>1. CASE Fenced(s) /\ d = cur[s]
    <3>1. table'[d] = [table[d] EXCEPT !.status = Verdict(s), !.token = None,
                                       !.live = FALSE,
                                       !.due = Verdict(s) # "RETRY"]
      BY <1>4, <2>1, Zenon DEF Record, TypeOK
    <3>2. /\ table'[d].status = Verdict(s)
          /\ table'[d].attempts = table[d].attempts
          /\ table'[d].token = None
      BY <3>1, RowType DEF Row
    <3> QED
      BY <2>1, <3>2, VerdictType DEF Fenced, Moves, Closed
  <2>2. CASE ~(Fenced(s) /\ d = cur[s])
    BY <1>4, <2>2 DEF Record, Moves, TypeOK
  <2> QED
    BY <2>1, <2>2
<1>5. ASSUME NEW e \in Delivery, LeaseLapses(e) \/ LeaseOverrun(e)
      PROVE  Moves(d)
  <2>1. CASE d = e
    BY <1>5, <2>1, RowType DEF LeaseLapses, LeaseOverrun, Lapse, Moves, Timed,
       TypeOK, Row, Settled
  <2>2. CASE d # e
    BY <1>5, <2>2 DEF LeaseLapses, LeaseOverrun, Lapse, Moves, TypeOK
  <2> QED
    BY <2>1, <2>2
<1>6. ASSUME NEW e \in Delivery, BackoffEnds(e)
      PROVE  Moves(d)
  <2>1. CASE d = e
    BY <1>6, <2>1, RowType DEF BackoffEnds, Moves, Timed, TypeOK, Row, Settled
  <2>2. CASE d # e
    BY <1>6, <2>2 DEF BackoffEnds, Moves, TypeOK
  <2> QED
    BY <2>1, <2>2
<1>7. ASSUME UNCHANGED table
      PROVE  Moves(d)
  BY <1>7 DEF Moves
<1> QED
  BY <1>1, <1>2, <1>3, <1>4, <1>5, <1>6, <1>7 DEF Next, Step, vars,
     ReceiptNotAttempted, ReadClaim, Post, GatewayTakes, Respond,
     PersistReceipt, Configure, Crash

-----------------------------------------------------------------------------
(* Settled for good.                                                        *)

\* No move leaves a settled row different.
LEMMA NextSettled == TypeOK /\ SenderOK /\ [Next]_vars =>
    \A d \in Delivery : table[d].status \in Settled => table'[d] = table[d]
BY NextMoves DEF Moves, Opened, Claimed, Closed, Timed, Settled, Ready

\* A row that exists stays; an attempt that is over stays over.
LEMMA MovesKeep ==
    ASSUME TypeOK, LeaseOK, NEW d \in Delivery, Moves(d)
    PROVE  /\ table[d].status # "ABSENT" => table'[d].status # "ABSENT"
           /\ \A n \in Nat : Over(d, n) => Over(d, n)'
<1>1. table[d].attempts \in Nat
  BY RowType
<1> QED
  BY <1>1 DEF Moves, Opened, Claimed, Closed, Timed, Ready, Over, LeaseOK

-----------------------------------------------------------------------------
(* What a step may do to a sender.                                          *)

Acts(s) ==
    \/ \E d \in Delivery : Enqueue(s, d)
    \/ Sweep(s) \/ Step(s) \/ Crash(s)

Same(t) ==
    /\ pc'[t] = pc[t] /\ batch'[t] = batch[t] /\ held'[t] = held[t]
    /\ cur'[t] = cur[t] /\ answer'[t] = answer[t]

\* A sender that leaves is idle and holds nothing; the others stay as they are.
LEMMA LeaveAlone ==
    ASSUME TypeOK, NEW s \in Sender, Leave(s)
    PROVE  /\ pc'[s] = "idle" /\ batch'[s] = {}
           /\ held'[s] = [d \in Delivery |-> NotHeld]
           /\ \A t \in Sender \ {s} : Same(t)
BY DEF TypeOK, Leave, Goto, Same

\* A sender's step leaves the other senders as they are.
LEMMA Others ==
    ASSUME TypeOK, NEW s \in Sender, Acts(s), NEW t \in Sender \ {s}
    PROVE  Same(t)
<1> USE DEF Same, Goto, local, TypeOK
<1>1. ASSUME NEW d \in Delivery, Enqueue(s, d) PROVE Same(t)
  BY <1>1 DEF Enqueue
<1>2. CASE Sweep(s)
  BY <1>2 DEF Sweep, Claim
<1>3. CASE ReceiptNotAttempted(s)
  BY <1>3, LeaveAlone DEF ReceiptNotAttempted
<1>4. CASE ClaimPublished(s)
  BY <1>4, LeaveAlone DEF ClaimPublished, Claim
<1>5. CASE ReadClaim(s)
  BY <1>5 DEF ReadClaim
<1>6. CASE Post(s)
  BY <1>6 DEF Post
<1>7. CASE GatewayTakes(s)
  BY <1>7 DEF GatewayTakes
<1>8. ASSUME NEW a \in Answer, Respond(s, a) PROVE Same(t)
  BY <1>8 DEF Respond
<1>9. CASE Record(s)
  BY <1>9, LeaveAlone DEF Record
<1>10. CASE PersistReceipt(s)
  BY <1>10, LeaveAlone DEF PersistReceipt
<1>11. CASE Crash(s)
  BY <1>11, LeaveAlone DEF Crash
<1> QED
  BY <1>1, <1>2, <1>3, <1>4, <1>5, <1>6, <1>7, <1>8, <1>9, <1>10, <1>11
     DEF Acts, Step

\* A step is a sender's, or leaves every sender as it is.
LEMMA NextActs ==
    ASSUME [Next]_vars
    PROVE  \/ \E s \in Sender : Acts(s)
           \/ UNCHANGED <<receipts, taken, local>>
BY DEF Next, Acts, vars, LeaseLapses, LeaseOverrun, Lapse, BackoffEnds,
   Configure

\* What the gateway has taken it has taken.
LEMMA TakenGrows == [Next]_vars => taken \subseteq taken'
<1> SUFFICES ASSUME [Next]_vars PROVE taken \subseteq taken'
  OBVIOUS
<1>1. CASE \E s \in Sender : GatewayTakes(s)
  BY <1>1 DEF GatewayTakes
<1>2. CASE ~ \E s \in Sender : GatewayTakes(s)
  BY <1>2 DEF Next, Step, vars, Enqueue, Sweep, ReceiptNotAttempted,
     ClaimPublished, ReadClaim, Post, Respond, Record, PersistReceipt, Crash,
     LeaseLapses, LeaseOverrun, Lapse, BackoffEnds, Configure
<1> QED
  BY <1>1, <1>2

\* A sender that does nothing stays in order, whatever the others do.
LEMMA InOrderStays ==
    ASSUME TypeOK, SenderOK, LeaseOK, [Next]_vars, NEW t \in Sender, Same(t)
    PROVE  InOrder(t)'
<1>1. taken \subseteq taken'
  BY TakenGrows
<1>2. \A d \in batch'[t] : table'[d].status # "ABSENT"
  <2>1. ASSUME NEW d \in batch[t] PROVE table'[d].status # "ABSENT"
    <3>1. d \in Delivery /\ table[d].status # "ABSENT"
      BY DEF TypeOK, SenderOK, InOrder
    <3> QED
      BY <3>1, NextMoves, MovesKeep
  <2> QED
    BY <2>1 DEF Same
<1> QED
  BY <1>1, <1>2 DEF SenderOK, InOrder, Same

\* A claim leaves the sender in order.
LEMMA ClaimInOrder ==
    ASSUME TypeOK, NEW s \in Sender, NEW D \in SUBSET Delivery,
           \A d \in D : Claimable(d), Claim(s, D)
    PROVE  InOrder(s)'
<1>1. pc'[s] = "claimed" /\ batch'[s] = D
  BY DEF Claim, Goto, TypeOK
<1>2. \A d \in D : table'[d].status # "ABSENT"
  BY ClaimMoves DEF Claimed
<1> QED
  BY <1>1, <1>2 DEF InOrder, Sending

\* Every step of a sender leaves it in order.
LEMMA ActsInOrder ==
    ASSUME TypeOK, SenderOK, LeaseOK, [Next]_vars, NEW s \in Sender, Acts(s)
    PROVE  InOrder(s)'
<1> USE DEF InOrder, Sending
<1>1. InOrder(s) /\ pc[s] \in Control /\ batch[s] \in SUBSET Delivery
  BY DEF SenderOK, TypeOK
<1>2. \A d \in Delivery : table[d].status # "ABSENT" => table'[d].status # "ABSENT"
  BY NextMoves, MovesKeep
<1>3. ASSUME Leave(s) PROVE InOrder(s)'
  BY <1>3, LeaveAlone
<1>4. ASSUME NEW d \in Delivery, Enqueue(s, d) PROVE InOrder(s)'
  <2>1. batch'[s] = {d} /\ pc'[s] \in {"unsent", "enqueued"}
    BY <1>4 DEF Enqueue, Goto, TypeOK
  <2>2. table'[d].status # "ABSENT"
    BY <1>4, RowType DEF Enqueue, TypeOK, Row
  <2> QED
    BY <2>1, <2>2
<1>5. CASE Sweep(s)
  <2>1. PICK D \in SUBSET Due : Claim(s, D)
    BY <1>5 DEF Sweep
  <2> QED
    BY <2>1, ClaimInOrder DEF Due
<1>6. CASE ReceiptNotAttempted(s)
  BY <1>3, <1>6 DEF ReceiptNotAttempted
<1>7. CASE ClaimPublished(s)
  <2>1. CASE \E d \in batch[s] : Claimable(d)
    <3>1. \A d \in batch[s] : Claimable(d)
      BY <1>1, <1>7, <2>1 DEF ClaimPublished
    <3> QED
      BY <1>1, <1>7, <2>1, <3>1, ClaimInOrder DEF ClaimPublished
  <2>2. CASE ~ \E d \in batch[s] : Claimable(d)
    BY <1>3, <1>7, <2>2 DEF ClaimPublished
  <2> QED
    BY <2>1, <2>2
<1>8. CASE ReadClaim(s)
  <2>1. pc'[s] \in {"claimed", "ready"} /\ batch'[s] = batch[s]
    BY <1>8 DEF ReadClaim, Goto, TypeOK
  <2> QED
    BY <1>1, <1>2, <2>1
<1>9. CASE Post(s)
  <2>1. pc'[s] = "posted" /\ batch'[s] = batch[s] /\ cur'[s] \in batch[s]
    BY <1>9 DEF Post, Goto, TypeOK
  <2> QED
    BY <1>1, <1>2, <2>1
<1>10. CASE GatewayTakes(s)
  <2>1. /\ pc'[s] = "taken" /\ batch'[s] = batch[s] /\ cur'[s] = cur[s]
        /\ cur[s] \in batch[s] /\ cur[s] \in taken'
    BY <1>1, <1>10 DEF GatewayTakes, Goto, TypeOK
  <2> QED
    BY <1>1, <1>2, <2>1
<1>11. ASSUME NEW a \in Answer, Respond(s, a) PROVE InOrder(s)'
  <2>1. /\ pc'[s] = "answered" /\ batch'[s] = batch[s] /\ cur'[s] = cur[s]
        /\ answer'[s] = a /\ taken' = taken /\ cur[s] \in batch[s]
        /\ a = "accepted" => cur[s] \in taken
    BY <1>1, <1>11 DEF Respond, Goto, TypeOK
  <2> QED
    BY <1>1, <1>2, <2>1
<1>12. CASE Record(s)
  <2>1. CASE Fenced(s)
    <3>1. /\ pc'[s] = "recorded" /\ batch'[s] = batch[s] /\ cur'[s] = cur[s]
          /\ answer'[s] = answer[s] /\ taken' = taken
      BY <1>12, <2>1 DEF Record, Goto, TypeOK
    <3>2. pc[s] = "answered"
      BY <1>12 DEF Record
    <3> QED
      BY <1>1, <1>2, <3>1, <3>2
  <2>2. CASE ~Fenced(s)
    BY <1>3, <1>12, <2>2 DEF Record
  <2> QED
    BY <2>1, <2>2
<1>13. CASE PersistReceipt(s)
  <2>1. CASE batch[s] = {cur[s]}
    BY <1>3, <1>13, <2>1 DEF PersistReceipt
  <2>2. CASE batch[s] # {cur[s]}
    <3>1. pc'[s] = "ready" /\ batch'[s] = batch[s] \ {cur[s]}
      BY <1>13, <2>2 DEF PersistReceipt, Goto, TypeOK
    <3> QED
      BY <1>1, <1>2, <3>1
  <2> QED
    BY <2>1, <2>2
<1>14. CASE Crash(s)
  BY <1>3, <1>14 DEF Crash
<1> QED
  BY <1>4, <1>5, <1>6, <1>7, <1>8, <1>9, <1>10, <1>11, <1>12, <1>13, <1>14
     DEF Acts, Step

\* Every step leaves every sender in order.
LEMMA NextSender ==
    TypeOK /\ SenderOK /\ LeaseOK /\ [Next]_vars => SenderOK'
<1> SUFFICES ASSUME TypeOK, SenderOK, LeaseOK, [Next]_vars, NEW t \in Sender
             PROVE  InOrder(t)'
  BY DEF SenderOK
<1>1. CASE \E s \in Sender : Acts(s)
  BY <1>1, Others, ActsInOrder, InOrderStays
<1>2. CASE UNCHANGED <<receipts, taken, local>>
  BY <1>2, InOrderStays DEF Same, local
<1> QED
  BY <1>1, <1>2, NextActs

-----------------------------------------------------------------------------
(* Tokens and attempts.                                                     *)

\* The token of a moved row tells its attempt.
LEMMA MovesLease ==
    ASSUME TypeOK, LeaseOK, NEW d \in Delivery, Moves(d)
    PROVE  /\ table'[d].status = "IN_PROGRESS" => table'[d].token # None
           /\ table'[d].token # None =>
                 /\ table'[d].token.attempt = table'[d].attempts
                 /\ table'[d].attempts > 0
<1>1. table[d].attempts \in Nat
  BY RowType
<1> QED
  BY <1>1 DEF LeaseOK, Moves, Opened, Claimed, Closed, Timed

\* A sender holds what it held, nothing, or what it has just read.
LEMMA ActsHeld ==
    ASSUME TypeOK, SenderOK, NEW s \in Sender, Acts(s), NEW d \in Delivery
    PROVE  \/ held'[s][d] = held[s][d]
           \/ held'[s][d] = NotHeld
           \/ held'[s][d] = [attempts |-> table[d].attempts,
                              token |-> table[d].token]
<1> USE DEF local, TypeOK
<1>1. CASE ReadClaim(s)
  BY <1>1 DEF ReadClaim
<1>2. CASE PersistReceipt(s)
  <2>1. CASE batch[s] = {cur[s]}
    BY <1>2, <2>1, LeaveAlone DEF PersistReceipt
  <2>2. CASE batch[s] # {cur[s]}
    <3>1. held' = [held EXCEPT ![s][cur[s]] = NotHeld]
      BY <1>2, <2>2 DEF PersistReceipt
    <3> QED
      BY <3>1
  <2> QED
    BY <2>1, <2>2
<1>3. ASSUME Leave(s) PROVE held'[s][d] = NotHeld
  BY <1>3, LeaveAlone
<1>4. CASE ReceiptNotAttempted(s) \/ Crash(s)
  BY <1>3, <1>4 DEF ReceiptNotAttempted, Crash
<1>5. CASE Record(s) \/ ClaimPublished(s)
  BY <1>3, <1>5 DEF Record, ClaimPublished, Claim
<1>6. CASE UNCHANGED held
  BY <1>6
<1> QED
  BY <1>1, <1>2, <1>4, <1>5, <1>6 DEF Acts, Step, Enqueue, Sweep, Claim, Post,
     GatewayTakes, Respond

\* Tokens keep telling attempts.
LEMMA NextLease ==
    TypeOK /\ SenderOK /\ LeaseOK /\ [Next]_vars => LeaseOK'
<1> SUFFICES ASSUME TypeOK, SenderOK, LeaseOK, [Next]_vars PROVE LeaseOK'
  OBVIOUS
<1>1. ASSUME NEW d \in Delivery
      PROVE  /\ table'[d].status = "IN_PROGRESS" => table'[d].token # None
             /\ table'[d].token # None =>
                   /\ table'[d].token.attempt = table'[d].attempts
                   /\ table'[d].attempts > 0
  BY NextMoves, MovesLease
<1>2. ASSUME NEW t \in Sender, NEW d \in Delivery, held'[t][d].token # None
      PROVE  held'[t][d].attempts = held'[t][d].token.attempt
  <2>1. CASE held'[t][d] = held[t][d]
    BY <1>2, <2>1 DEF LeaseOK
  <2>2. CASE held'[t][d] = NotHeld
    BY <1>2, <2>2 DEF NotHeld
  <2>3. CASE held'[t][d] = [attempts |-> table[d].attempts,
                            token |-> table[d].token]
    BY <1>2, <2>3 DEF LeaseOK
  <2> QED
    BY <2>1, <2>2, <2>3, NextActs, ActsHeld, Others DEF Same, local
<1> QED
  BY <1>1, <1>2 DEF LeaseOK

-----------------------------------------------------------------------------
(* Outcomes and receipts.                                                   *)

\* Whoever has an outcome to note had it before, or has just recorded it.
LEMMA RecordedBy ==
    ASSUME TypeOK, SenderOK, [Next]_vars, NEW t \in Sender, pc'[t] = "recorded"
    PROVE  (pc[t] = "recorded" /\ Same(t)) \/ (Record(t) /\ Fenced(t))
<1> USE DEF local, TypeOK, Goto
<1>1. CASE Acts(t)
  <2>1. ASSUME Leave(t) PROVE FALSE
    BY <2>1, LeaveAlone
  <2>2. CASE Record(t)
    BY <2>1, <2>2 DEF Record
  <2>3. CASE PersistReceipt(t)
    BY <2>1, <2>3 DEF PersistReceipt
  <2>4. CASE ClaimPublished(t) \/ ReceiptNotAttempted(t) \/ Crash(t)
    BY <2>1, <2>4 DEF ClaimPublished, ReceiptNotAttempted, Crash, Claim
  <2>5. CASE ReadClaim(t)
    BY <2>5 DEF ReadClaim
  <2>6. CASE Sweep(t)
    BY <2>6 DEF Sweep, Claim
  <2>7. CASE \/ \E d \in Delivery : Enqueue(t, d)
             \/ Post(t) \/ GatewayTakes(t) \/ \E a \in Answer : Respond(t, a)
    BY <2>7 DEF Enqueue, Post, GatewayTakes, Respond
  <2> QED
    BY <1>1, <2>2, <2>3, <2>4, <2>5, <2>6, <2>7 DEF Acts, Step
<1>2. CASE ~Acts(t)
  BY <1>2, NextActs, Others DEF Same
<1> QED
  BY <1>1, <1>2

\* The attempt that a fenced sender records is the one its row is at.
LEMMA FencedAttempt ==
    ASSUME TypeOK, SenderOK, LeaseOK, NEW t \in Sender, Record(t), Fenced(t)
    PROVE  /\ cur[t] \in Delivery
           /\ table[cur[t]].status = "IN_PROGRESS"
           /\ Pending(t) = table[cur[t]].attempts /\ Pending(t) > 0
           /\ table'[cur[t]].attempts = table[cur[t]].attempts
           /\ table'[cur[t]].status = Verdict(t)
           /\ UNCHANGED <<receipts, held, cur, answer>>
<1>1. cur[t] \in Delivery
  BY SendsType DEF Record, Sending
<1> DEFINE d == cur[t]
<1>2. /\ table[d].status = "IN_PROGRESS" /\ table[d].token = held[t][d].token
  BY DEF Fenced
<1>3. Pending(t) = table[d].attempts /\ Pending(t) > 0
  BY <1>1, <1>2 DEF LeaseOK, Pending
<1>4. table'[d] = [table[d] EXCEPT !.status = Verdict(t), !.token = None,
                                   !.live = FALSE, !.due = Verdict(t) # "RETRY"]
  BY <1>1, Zenon DEF Record, TypeOK
<1>5. table'[d].attempts = table[d].attempts /\ table'[d].status = Verdict(t)
  BY <1>1, <1>4, RowType DEF Row
<1> QED
  BY <1>1, <1>2, <1>3, <1>5 DEF Record

\* The lineage grows by a receipt of nothing attempted, or of an outcome.
LEMMA NextReceipts ==
    ASSUME TypeOK, [Next]_vars
    PROVE  \/ receipts' = receipts
           \/ \E d \in Delivery :
                 receipts' = Append(receipts, [delivery |-> d, attempt |-> 0,
                                               status |-> "NOT_ATTEMPTED"])
           \/ \E s \in Sender : PersistReceipt(s)
<1>1. ASSUME NEW s \in Sender, ReceiptNotAttempted(s)
      PROVE  \E d \in Delivery :
                 receipts' = Append(receipts, [delivery |-> d, attempt |-> 0,
                                               status |-> "NOT_ATTEMPTED"])
  BY <1>1 DEF ReceiptNotAttempted, TypeOK
<1> QED
  BY <1>1 DEF Next, Step, vars, Enqueue, Sweep, ClaimPublished, ReadClaim, Post,
     GatewayTakes, Respond, Record, Crash, LeaseLapses, LeaseOverrun, Lapse,
     BackoffEnds, Configure

\* An entry of the longer lineage is an old one or the one appended.
LEMMA AppendEntry ==
    ASSUME NEW S, NEW q \in Seq(S), NEW x \in S, NEW i \in 1..Len(Append(q, x))
    PROVE  \/ i \in 1..Len(q) /\ Append(q, x)[i] = q[i]
           \/ i = Len(q) + 1 /\ Append(q, x)[i] = x
OBVIOUS

\* What a sender that notes its outcome appends, and that it is done then.
LEMMA Noting ==
    ASSUME TypeOK, SenderOK, NEW s \in Sender, PersistReceipt(s)
    PROVE  /\ pc[s] = "recorded" /\ cur[s] \in Delivery
           /\ receipts' = Append(receipts,
                             [delivery |-> cur[s], attempt |-> Pending(s),
                              status |-> Verdict(s)])
           /\ [delivery |-> cur[s], attempt |-> Pending(s),
               status |-> Verdict(s)] \in Receipt
           /\ pc'[s] # "recorded" /\ table' = table
<1>1. cur[s] \in Delivery
  BY SendsType DEF PersistReceipt, Sending
<1>2. Pending(s) \in Nat
  BY <1>1, RowType DEF Pending
<1>3. pc'[s] # "recorded"
  BY LeaveAlone DEF PersistReceipt, Goto, TypeOK
<1> QED
  BY <1>1, <1>2, <1>3, VerdictType DEF PersistReceipt, Pending, Receipt

\* Entries that were in the lineage are there still; a new one is an outcome
\* that a sender notes, or says that nothing was attempted.
LEMMA EntryFrom ==
    ASSUME TypeOK, SenderOK, [Next]_vars, NEW i \in 1..Len(receipts')
    PROVE  \/ i \in 1..Len(receipts) /\ receipts'[i] = receipts[i]
           \/ /\ i = Len(receipts) + 1 /\ receipts'[i].delivery \in Delivery
              /\ receipts'[i].attempt = 0
              /\ receipts'[i].status = "NOT_ATTEMPTED"
           \/ /\ i = Len(receipts) + 1
              /\ \E s \in Sender :
                    /\ PersistReceipt(s)
                    /\ receipts'[i].delivery = cur[s]
                    /\ receipts'[i].attempt = Pending(s)
                    /\ receipts'[i].status = Verdict(s)
<1>1. CASE receipts' = receipts
  BY <1>1
<1>2. ASSUME NEW d \in Delivery,
             receipts' = Append(receipts, [delivery |-> d, attempt |-> 0,
                                           status |-> "NOT_ATTEMPTED"])
      PROVE  \/ i \in 1..Len(receipts) /\ receipts'[i] = receipts[i]
             \/ /\ i = Len(receipts) + 1 /\ receipts'[i].delivery \in Delivery
                /\ receipts'[i].attempt = 0
                /\ receipts'[i].status = "NOT_ATTEMPTED"
  <2>1. [delivery |-> d, attempt |-> 0, status |-> "NOT_ATTEMPTED"] \in Receipt
    BY DEF Receipt
  <2> QED
    BY <1>2, <2>1, AppendEntry DEF TypeOK
<1>3. ASSUME NEW s \in Sender, PersistReceipt(s)
      PROVE  \/ i \in 1..Len(receipts) /\ receipts'[i] = receipts[i]
             \/ /\ i = Len(receipts) + 1
                /\ receipts'[i].delivery = cur[s]
                /\ receipts'[i].attempt = Pending(s)
                /\ receipts'[i].status = Verdict(s)
  <2> DEFINE x == [delivery |-> cur[s], attempt |-> Pending(s),
                   status |-> Verdict(s)]
  <2>1. x \in Receipt /\ receipts' = Append(receipts, x)
    BY <1>3, Noting
  <2>2. x.delivery = cur[s] /\ x.attempt = Pending(s) /\ x.status = Verdict(s)
    OBVIOUS
  <2> HIDE DEF x
  <2>3. \/ i \in 1..Len(receipts) /\ receipts'[i] = receipts[i]
        \/ i = Len(receipts) + 1 /\ receipts'[i] = x
    BY <2>1, AppendEntry DEF TypeOK
  <2> QED
    BY <2>2, <2>3
<1> QED
  BY <1>1, <1>2, <1>3, NextReceipts

\* The entries of the lineage speak of deliveries.
LEMMA EntryType ==
    ASSUME TypeOK, NEW i \in 1..Len(receipts)
    PROVE  /\ receipts[i].delivery \in Delivery /\ receipts[i].attempt \in Nat
           /\ table[receipts[i].delivery].attempts \in Nat
<1>1. receipts[i] \in Receipt
  BY DEF TypeOK
<1> QED
  BY <1>1, RowType DEF Receipt

\* The lineage speaks of attempts that are over.
LEMMA EntriesOver ==
    ASSUME TypeOK, SenderOK, LeaseOK, OutcomeOK, [Next]_vars,
           NEW i \in 1..Len(receipts')
    PROVE  Over(receipts[i].delivery, receipts[i].attempt)'
<1> SUFFICES ASSUME NEW d, NEW n,
                    d = receipts'[i].delivery, n = receipts'[i].attempt
             PROVE  Over(d, n)'
  BY DEF Over
<1>1. CASE i \in 1..Len(receipts) /\ receipts'[i] = receipts[i]
  <2>1. d \in Delivery /\ n \in Nat /\ Over(d, n)
    BY <1>1, EntryType DEF OutcomeOK
  <2> QED
    BY <2>1, NextMoves, MovesKeep
<1>2. CASE d \in Delivery /\ n = 0
  <2>1. TypeOK' /\ LeaseOK'
    BY NextType, NextLease
  <2>2. table'[d].attempts \in Nat
    BY <1>2, <2>1 DEF TypeOK, Row
  <2>3. table'[d].status = "IN_PROGRESS" => table'[d].attempts > 0
    BY <1>2, <2>1 DEF LeaseOK
  <2> QED
    BY <1>2, <2>2, <2>3 DEF Over
<1>3. ASSUME NEW s \in Sender, PersistReceipt(s), d = cur[s], n = Pending(s)
      PROVE  Over(d, n)'
  <2>1. table' = table /\ Over(d, n)
    BY <1>3, Noting DEF OutcomeOK
  <2> QED
    BY <1>3, <2>1 DEF Over
<1> QED
  BY <1>1, <1>2, <1>3, EntryFrom

\* An outcome not yet noted is that of an attempt that is over.
LEMMA OutcomesOver ==
    ASSUME TypeOK, SenderOK, LeaseOK, OutcomeOK, [Next]_vars,
           NEW t \in Sender, pc'[t] = "recorded"
    PROVE  /\ cur'[t] \in Delivery /\ Pending(t)' \in Nat /\ Pending(t)' > 0
           /\ Over(cur[t], Pending(t))'
<1>1. CASE pc[t] = "recorded" /\ Same(t)
  <2>1. cur[t] \in Delivery /\ Pending(t) \in Nat
    BY <1>1, SendsType, RowType DEF Sending, Pending
  <2>2. Pending(t) > 0 /\ Over(cur[t], Pending(t))
    BY <1>1 DEF OutcomeOK
  <2>3. cur'[t] = cur[t] /\ Pending(t)' = Pending(t)
    BY <1>1 DEF Same, Pending
  <2>4. Moves(cur[t])
    BY <2>1, NextMoves
  <2> QED
    BY <2>1, <2>2, <2>3, <2>4, MovesKeep DEF Over
<1>2. CASE Record(t) /\ Fenced(t)
  <2>1. /\ cur[t] \in Delivery
        /\ Pending(t) = table[cur[t]].attempts /\ Pending(t) > 0
        /\ table'[cur[t]].attempts = table[cur[t]].attempts
        /\ table'[cur[t]].status = Verdict(t)
        /\ UNCHANGED <<receipts, held, cur, answer>>
    BY <1>2, FencedAttempt
  <2>2. Pending(t) \in Nat /\ Pending(t)' = Pending(t)
    BY <2>1, RowType DEF Pending
  <2> QED
    BY <2>1, <2>2, VerdictType DEF Over
<1> QED
  BY <1>1, <1>2, RecordedBy

\* An outcome just recorded is that of an attempt with no outcome yet.
LEMMA OutcomeFresh ==
    ASSUME TypeOK, SenderOK, LeaseOK, OutcomeOK, NEW t \in Sender,
           Record(t), Fenced(t)
    PROVE  /\ ~Noted(cur[t], Pending(t))
           /\ \A u \in Sender : pc[u] = "recorded" /\ cur[u] = cur[t]
                                  => Pending(u) # Pending(t)
<1>1. /\ cur[t] \in Delivery /\ table[cur[t]].status = "IN_PROGRESS"
      /\ Pending(t) = table[cur[t]].attempts
  BY FencedAttempt
<1>2. table[cur[t]].attempts \in Nat
  BY <1>1, RowType
<1>3. ~Over(cur[t], Pending(t))
  BY <1>1, <1>2 DEF Over
<1> QED
  BY <1>3 DEF OutcomeOK, Noted

\* The lineage holds no outcome of an attempt whose outcome is to be noted.
LEMMA NotNotedTwice ==
    ASSUME TypeOK, SenderOK, LeaseOK, OutcomeOK, [Next]_vars,
           NEW t \in Sender, pc'[t] = "recorded"
    PROVE  ~Noted(cur[t], Pending(t))'
<1>1. CASE pc[t] = "recorded" /\ Same(t)
  <2> SUFFICES ASSUME NEW i \in 1..Len(receipts'),
                      receipts'[i].delivery = cur[t],
                      receipts'[i].attempt = Pending(t)
               PROVE  FALSE
    BY <1>1 DEF Noted, Pending, Same
  <2>1. Pending(t) > 0 /\ ~Noted(cur[t], Pending(t))
    BY <1>1 DEF OutcomeOK
  <2>2. CASE i \in 1..Len(receipts) /\ receipts'[i] = receipts[i]
    BY <2>1, <2>2 DEF Noted
  <2>3. CASE receipts'[i].attempt = 0
    BY <2>1, <2>3
  <2>4. ASSUME NEW s \in Sender, PersistReceipt(s),
               receipts'[i].delivery = cur[s], receipts'[i].attempt = Pending(s)
        PROVE  FALSE
    <3>1. pc[s] = "recorded" /\ pc'[s] # "recorded"
      BY <2>4, Noting
    <3>2. s = t
      BY <1>1, <2>4, <3>1 DEF OutcomeOK
    <3> QED
      BY <3>1, <3>2
  <2> QED
    BY <2>2, <2>3, <2>4, EntryFrom
<1>2. CASE Record(t) /\ Fenced(t)
  BY <1>2, OutcomeFresh, FencedAttempt DEF Noted, Pending
<1> QED
  BY <1>1, <1>2, RecordedBy

\* No two senders have the outcome of one attempt to note.
LEMMA OneOutcome ==
    ASSUME TypeOK, SenderOK, LeaseOK, OutcomeOK, [Next]_vars,
           NEW t \in Sender, NEW u \in Sender,
           pc'[t] = "recorded", pc'[u] = "recorded",
           cur'[u] = cur'[t], Pending(u)' = Pending(t)'
    PROVE  u = t
<1>1. (pc[t] = "recorded" /\ Same(t)) \/ (Record(t) /\ Fenced(t))
  BY RecordedBy
<1>2. (pc[u] = "recorded" /\ Same(u)) \/ (Record(u) /\ Fenced(u))
  BY RecordedBy
<1>3. CASE Same(t) /\ Same(u) /\ pc[t] = "recorded" /\ pc[u] = "recorded"
  BY <1>3 DEF Same, Pending, OutcomeOK
<1>4. ASSUME NEW v \in Sender, NEW w \in Sender, Record(v), Fenced(v),
             pc[w] = "recorded", Same(w), cur'[w] = cur'[v],
             Pending(w)' = Pending(v)'
      PROVE  FALSE
  <2>1. cur'[v] = cur[v] /\ Pending(v)' = Pending(v)
    BY <1>4, FencedAttempt DEF Pending
  <2>2. cur'[w] = cur[w] /\ Pending(w)' = Pending(w)
    BY <1>4 DEF Same, Pending
  <2> QED
    BY <1>4, <2>1, <2>2, OutcomeFresh
<1>5. ASSUME Record(t), Record(u) PROVE u = t
  <2>1. Acts(t) /\ pc[u] = "answered"
    BY <1>5 DEF Acts, Step, Record
  <2>2. u # t => Same(u)
    BY <2>1, Others
  <2> QED
    BY <2>1, <2>2 DEF Same
<1> QED
  BY <1>1, <1>2, <1>3, <1>4, <1>5

\* Every step leaves the outcomes consistent.
LEMMA NextOutcome ==
    TypeOK /\ SenderOK /\ LeaseOK /\ OutcomeOK /\ [Next]_vars => OutcomeOK'
BY EntriesOver, OutcomesOver, NotNotedTwice, OneOutcome DEF OutcomeOK

\* A verdict that settles a row stays the row's status.
LEMMA NextVerdict ==
    TypeOK /\ SenderOK /\ LeaseOK /\ VerdictOK /\ [Next]_vars => VerdictOK'
<1> SUFFICES ASSUME TypeOK, SenderOK, LeaseOK, VerdictOK, [Next]_vars,
                    NEW t \in Sender, pc'[t] = "recorded",
                    Verdict(t)' \in Settled
             PROVE  table'[cur'[t]].status = Verdict(t)'
  BY DEF VerdictOK
<1>1. CASE pc[t] = "recorded" /\ Same(t)
  <2>1. cur[t] \in Delivery /\ cur'[t] = cur[t] /\ Verdict(t)' = Verdict(t)
    BY <1>1, SendsType DEF Same, Sending, Verdict
  <2>2. table[cur[t]].status = Verdict(t) /\ Verdict(t) \in Settled
    BY <1>1, <2>1 DEF VerdictOK
  <2> QED
    BY <2>1, <2>2, NextSettled
<1>2. CASE Record(t) /\ Fenced(t)
  BY <1>2, FencedAttempt DEF Verdict
<1> QED
  BY <1>1, <1>2, RecordedBy

\* Noting an outcome adds no second receipt for its attempt.
LEMMA NextOneReceipt ==
    TypeOK /\ SenderOK /\ OutcomeOK /\ OneReceiptPerAttempt /\ [Next]_vars
      => OneReceiptPerAttempt'
<1> SUFFICES ASSUME TypeOK, SenderOK, OutcomeOK, OneReceiptPerAttempt,
                    [Next]_vars,
                    NEW i \in 1..Len(receipts'), NEW j \in 1..Len(receipts'),
                    receipts'[i].delivery = receipts'[j].delivery,
                    receipts'[i].attempt = receipts'[j].attempt,
                    receipts'[i].attempt # 0
             PROVE  i = j
  BY DEF OneReceiptPerAttempt
<1> DEFINE Old(k) == k \in 1..Len(receipts) /\ receipts'[k] = receipts[k]
           New(k) == /\ k = Len(receipts) + 1
                     /\ ~Noted(receipts'[k].delivery, receipts'[k].attempt)
<1>1. ASSUME NEW k \in 1..Len(receipts'), receipts'[k].attempt # 0
      PROVE  Old(k) \/ New(k)
  <2>1. ASSUME NEW s \in Sender, PersistReceipt(s)
        PROVE  ~Noted(cur[s], Pending(s))
    BY <2>1, Noting DEF OutcomeOK
  <2> QED
    BY <1>1, <2>1, EntryFrom
<1>2. (Old(i) \/ New(i)) /\ (Old(j) \/ New(j))
  BY <1>1
<1>3. ASSUME NEW k, NEW l, Old(k), New(l),
             receipts'[k].delivery = receipts'[l].delivery,
             receipts'[k].attempt = receipts'[l].attempt
      PROVE  FALSE
  BY <1>3 DEF Noted
<1>4. CASE Old(i) /\ Old(j)
  BY <1>4 DEF OneReceiptPerAttempt
<1>5. CASE New(i) /\ New(j)
  BY <1>5
<1> HIDE DEF Old, New
<1> QED
  BY <1>2, <1>3, <1>4, <1>5

\* A receipt that settles a delivery is true when it is written and stays true.
LEMMA NextReceiptHolds ==
    TypeOK /\ SenderOK /\ VerdictOK /\ SettlingReceiptHolds /\ [Next]_vars
      => SettlingReceiptHolds'
<1> SUFFICES ASSUME TypeOK, SenderOK, VerdictOK, SettlingReceiptHolds,
                    [Next]_vars, NEW i \in 1..Len(receipts'),
                    receipts'[i].status \in Settled
             PROVE  table'[receipts'[i].delivery].status = receipts'[i].status
  BY DEF SettlingReceiptHolds
<1>1. CASE i \in 1..Len(receipts) /\ receipts'[i] = receipts[i]
  <2>1. /\ receipts[i].delivery \in Delivery
        /\ table[receipts[i].delivery].status = receipts[i].status
    BY <1>1, EntryType DEF SettlingReceiptHolds
  <2> QED
    BY <1>1, <2>1, NextSettled
<1>2. CASE receipts'[i].status = "NOT_ATTEMPTED"
  BY <1>2 DEF Settled
<1>3. ASSUME NEW s \in Sender, PersistReceipt(s),
             receipts'[i].delivery = cur[s], receipts'[i].status = Verdict(s)
      PROVE  table'[receipts'[i].delivery].status = receipts'[i].status
  BY <1>3, Noting DEF VerdictOK
<1> QED
  BY <1>1, <1>2, <1>3, EntryFrom

-----------------------------------------------------------------------------
(* The theorems.                                                            *)

\* The outbox starts with nothing claimed, sent or noted.
LEMMA InitInvariant == Init => IInv
<1> SUFFICES ASSUME Init PROVE IInv
  OBVIOUS
<1>1. TypeOK
  BY InitType
<1>2. SenderOK /\ LeaseOK /\ OutcomeOK /\ VerdictOK
  BY DEF Init, SenderOK, InOrder, Sending, LeaseOK, NotHeld, OutcomeOK, VerdictOK
<1>3. OneReceiptPerAttempt /\ SettlingReceiptHolds
  BY DEF Init, OneReceiptPerAttempt, SettlingReceiptHolds
<1> QED
  BY <1>1, <1>2, <1>3 DEF IInv

\* IInv is inductive and holds of every reachable state.
THEOREM Inductive == Spec => []IInv
<1>1. IInv /\ [Next]_vars => IInv'
  BY NextType, NextSender, NextLease, NextOutcome, NextVerdict, NextOneReceipt,
     NextReceiptHolds DEF IInv
<1> QED
  BY <1>1, InitInvariant, PTL DEF Spec

\* The state of the outbox has its type in every reachable state.
THEOREM TypeCorrect == Spec => []TypeOK
<1>1. IInv => TypeOK
  BY DEF IInv
<1> QED
  BY <1>1, Inductive, PTL

\* complete_integration_delivery and the claim leave a settled row alone,
\* whichever sender comes late.
THEOREM SettledForGood == Spec => SettledFinal
<1>1. IInv /\ [Next]_vars =>
        [\A d \in Delivery : table[d].status \in Settled
                               => table'[d] = table[d]]_vars
  BY NextSettled DEF IInv
<1> QED
  BY <1>1, Inductive, PTL DEF Spec, SettledFinal

\* Two senders that sent one attempt never both leave a receipt of it.
THEOREM ReceiptsOnce == Spec => []OneReceiptPerAttempt
<1>1. IInv => OneReceiptPerAttempt
  BY DEF IInv
<1> QED
  BY <1>1, Inductive, PTL

\* What the lineage says of a settled delivery is what the outbox says of it.
THEOREM ReceiptsTrue == Spec => []SettlingReceiptHolds
<1>1. IInv => SettlingReceiptHolds
  BY DEF IInv
<1> QED
  BY <1>1, Inductive, PTL

-----------------------------------------------------------------------------
(* The outbox implements Handover.                                          *)

Phases == [d \in Delivery |-> Phase(table[d].status)]

\* The phase of a row, by its status.
LEMMA PhaseIs ==
    ASSUME NEW st \in Status
    PROVE  /\ st = "ABSENT" <=> Phase(st) = "absent"
           /\ st \in Ready \cup {"IN_PROGRESS"} <=> Phase(st) = "open"
           /\ st = "ACCEPTED" <=> Phase(st) = "accepted"
           /\ st = "FAILED" <=> Phase(st) = "failed"
<1>1. /\ Phase("ABSENT") = "absent" /\ Phase("ACCEPTED") = "accepted"
      /\ Phase("FAILED") = "failed"
  BY DEF Phase
<1>2. ASSUME st \in Ready \cup {"IN_PROGRESS"} PROVE Phase(st) = "open"
  BY <1>2 DEF Phase, Ready
<1> QED
  BY <1>1, <1>2 DEF Status, Settled, Ready

\* A claim, a lapse and the end of a backoff leave a handover in its phase.
LEMMA PhaseStays ==
    ASSUME TypeOK, TypeOK',
           \A d \in Delivery : table'[d] = table[d] \/ Claimed(d) \/ Timed(d)
    PROVE  Phases' = Phases
<1>1. ASSUME NEW d \in Delivery
      PROVE  Phase(table'[d].status) = Phase(table[d].status)
  <2>1. table[d].status \in Status
    BY RowType
  <2>2. Phase("IN_PROGRESS") = "open"
    BY DEF Phase
  <2> QED
    BY <2>1, <2>2, PhaseIs DEF Claimed, Timed
<1> QED
  BY <1>1 DEF Phases

\* One row that moves moves one handover.
LEMMA PhaseMoves ==
    ASSUME TypeOK, NEW d \in Delivery,
           \A e \in Delivery \ {d} : table'[e] = table[e]
    PROVE  Phases' = [Phases EXCEPT ![d] = Phase(table'[d].status)]
BY DEF Phases

\* Enqueueing submits.
LEMMA EnqueueSubmits ==
    ASSUME TypeOK, TypeOK', NEW s \in Sender, NEW d \in Delivery, Enqueue(s, d)
    PROVE  Promise!Submit(d)
<1>1. /\ table[d].status = "ABSENT"
      /\ table'[d].status \in {"PENDING", "WAITING_CONFIGURATION"}
      /\ \A e \in Delivery \ {d} : table'[e] = table[e]
      /\ taken' = taken
  BY RowType DEF Enqueue, TypeOK, Row
<1>2. Phase("ABSENT") = "absent" /\ Phase(table'[d].status) = "open"
  BY <1>1 DEF Phase
<1>3. Phases[d] = "absent" /\ Phases' = [Phases EXCEPT ![d] = "open"]
  BY <1>1, <1>2, PhaseMoves DEF Phases
<1> QED
  BY <1>1, <1>3 DEF Promise!Submit, Phases

\* What a sender posts exists: taking it is a Take.
LEMMA GatewayTake ==
    ASSUME TypeOK, SenderOK, NEW s \in Sender, GatewayTakes(s)
    PROVE  cur[s] \in Delivery /\ Promise!Take(cur[s])
<1>1. cur[s] \in Delivery /\ table[cur[s]].status # "ABSENT"
  BY SendsType DEF GatewayTakes, Sending, SenderOK, InOrder
<1>2. Phase(table[cur[s]].status) # "absent"
  BY <1>1, RowType, PhaseIs
<1>3. table' = table /\ taken' = taken \cup {cur[s]}
  BY DEF GatewayTakes
<1> QED
  BY <1>1, <1>2, <1>3 DEF Promise!Take

\* Recording an outcome accepts what was taken, fails, or leaves it open.
LEMMA RecordSettles ==
    ASSUME TypeOK, SenderOK, LeaseOK, NEW s \in Sender, Record(s), Fenced(s)
    PROVE  /\ cur[s] \in Delivery
           /\ \/ Promise!Accept(cur[s]) \/ Promise!Fail(cur[s])
              \/ UNCHANGED <<Phases, taken>>
<1>1. /\ cur[s] \in Delivery /\ table[cur[s]].status = "IN_PROGRESS"
      /\ table'[cur[s]].status = Verdict(s)
  BY FencedAttempt
<1>2. /\ \A e \in Delivery \ {cur[s]} : table'[e] = table[e]
      /\ taken' = taken
      /\ answer[s] = "accepted" => cur[s] \in taken
  BY <1>1 DEF Record, TypeOK, SenderOK, InOrder
<1>3. /\ Phase("ACCEPTED") = "accepted" /\ Phase("FAILED") = "failed"
      /\ Phase("RETRY") = "open" /\ Phase("IN_PROGRESS") = "open"
  BY DEF Phase
<1>4. Phases[cur[s]] = "open"
  BY <1>1, <1>3 DEF Phases
<1>5. Phases' = [Phases EXCEPT ![cur[s]] = Phase(Verdict(s))]
  BY <1>1, <1>2, PhaseMoves
<1>6. CASE Verdict(s) = "ACCEPTED"
  <2>1. cur[s] \in taken
    BY <1>2, <1>6 DEF Verdict
  <2>2. Phases' = [Phases EXCEPT ![cur[s]] = "accepted"]
    BY <1>3, <1>5, <1>6
  <2> QED
    BY <1>1, <1>2, <1>4, <2>1, <2>2 DEF Promise!Accept, Phases
<1>7. CASE Verdict(s) = "FAILED"
  <2>1. Phases' = [Phases EXCEPT ![cur[s]] = "failed"]
    BY <1>3, <1>5, <1>7
  <2> QED
    BY <1>1, <1>2, <1>4, <2>1 DEF Promise!Fail, Phases
<1>8. CASE Verdict(s) = "RETRY"
  <2>1. Phases' = [Phases EXCEPT ![cur[s]] = Phases[cur[s]]]
    BY <1>3, <1>4, <1>5, <1>8
  <2>2. Phases' = Phases
    BY <2>1 DEF Phases
  <2> QED
    BY <1>1, <1>2, <2>2
<1> QED
  BY <1>6, <1>7, <1>8, VerdictType

\* Nothing else moves a handover: the remaining steps claim rows, let leases
\* and backoffs end, or leave the table and the gateway alone.
LEMMA OthersStutter ==
    ASSUME TypeOK, TypeOK', SenderOK, [Next]_vars,
           ~ \E s \in Sender : GatewayTakes(s),
           ~ \E s \in Sender, d \in Delivery : Enqueue(s, d),
           ~ \E s \in Sender : Record(s) /\ Fenced(s)
    PROVE  UNCHANGED <<Phases, taken>>
<1> USE DEF local
<1>1. taken' = taken
  BY DEF Next, Step, vars, Sweep, ReceiptNotAttempted, ClaimPublished,
     ReadClaim, Post, Respond, Record, PersistReceipt, Crash, LeaseLapses,
     LeaseOverrun, Lapse, BackoffEnds, Configure
<1>2. ASSUME NEW s \in Sender, NEW D \in SUBSET Delivery,
             \A d \in D : Claimable(d), Claim(s, D)
      PROVE  Phases' = Phases
  BY <1>2, ClaimMoves, PhaseStays
<1>3. ASSUME NEW s \in Sender, ClaimPublished(s) PROVE Phases' = Phases
  <2>1. CASE \E d \in batch[s] : Claimable(d)
    <3>1. batch[s] \in SUBSET Delivery /\ \A d \in batch[s] : Claimable(d)
      BY <1>3, <2>1 DEF ClaimPublished, SenderOK, InOrder, TypeOK
    <3> QED
      BY <1>2, <1>3, <2>1, <3>1 DEF ClaimPublished
  <2>2. CASE ~ \E d \in batch[s] : Claimable(d)
    BY <1>3, <2>2 DEF ClaimPublished, Phases
  <2> QED
    BY <2>1, <2>2
<1>4. ASSUME NEW s \in Sender, Sweep(s) PROVE Phases' = Phases
  <2>1. PICK D \in SUBSET Due : Claim(s, D)
    BY <1>4 DEF Sweep
  <2>2. D \in SUBSET Delivery /\ \A d \in D : Claimable(d)
    BY DEF Due
  <2> QED
    BY <1>2, <2>1, <2>2
<1>5. ASSUME NEW d \in Delivery,
             LeaseLapses(d) \/ LeaseOverrun(d) \/ BackoffEnds(d)
      PROVE  Phases' = Phases
  <2>1. Timed(d)
    BY <1>5, RowType DEF LeaseLapses, LeaseOverrun, Lapse, BackoffEnds, Timed,
       TypeOK, Row, Settled
  <2>2. \A e \in Delivery \ {d} : table'[e] = table[e]
    BY <1>5 DEF LeaseLapses, LeaseOverrun, Lapse, BackoffEnds, TypeOK
  <2> QED
    BY <2>1, <2>2, PhaseStays
<1>6. ASSUME UNCHANGED table PROVE Phases' = Phases
  BY <1>6 DEF Phases
<1>7. ASSUME NEW s \in Sender, Record(s) PROVE Phases' = Phases
  BY <1>6, <1>7 DEF Record
<1> QED
  BY <1>1, <1>3, <1>4, <1>5, <1>6, <1>7 DEF Next, Step, vars,
     ReceiptNotAttempted, ReadClaim, Post, Respond, PersistReceipt, Configure,
     Crash

\* Every step of the outbox is one of Handover's, or none.
LEMMA StepImplements ==
    IInv /\ IInv' /\ [Next]_vars => [Promise!Next]_<<Phases, taken>>
<1> SUFFICES ASSUME IInv, IInv', [Next]_vars
             PROVE  [Promise!Next]_<<Phases, taken>>
  OBVIOUS
<1>1. TypeOK /\ SenderOK /\ LeaseOK /\ TypeOK'
  BY DEF IInv
<1>2. ASSUME NEW s \in Sender, NEW d \in Delivery, Enqueue(s, d)
      PROVE  Promise!Next
  BY <1>1, <1>2, EnqueueSubmits DEF Promise!Next
<1>3. ASSUME NEW s \in Sender, GatewayTakes(s) PROVE Promise!Next
  BY <1>1, <1>3, GatewayTake DEF Promise!Next
<1>4. ASSUME NEW s \in Sender, Record(s), Fenced(s)
      PROVE  [Promise!Next]_<<Phases, taken>>
  BY <1>1, <1>4, RecordSettles DEF Promise!Next
<1> QED
  BY <1>1, <1>2, <1>3, <1>4, OthersStutter

\* The outbox keeps Handover's promise: a handover settles once, and only what
\* the gateway has taken is ACCEPTED.
THEOREM KeepsPromise == Spec => Implements
<1>1. Init => Promise!Init
  <2>1. Phase("ABSENT") = "absent"
    BY DEF Phase
  <2> QED
    BY <2>1 DEF Init, Promise!Init
<1>2. IInv /\ IInv' /\ [Next]_vars => [Promise!Next]_<<Phases, taken>>
  BY StepImplements
<1> QED
  BY <1>1, <1>2, Inductive, PTL DEF Spec, Implements, Promise!Spec, Phases
-----------------------------------------------------------------------------
(* What the attempts over the limit are paid with.                          *)

Working == {"claimed", "ready", "posted", "taken", "answered", "recorded"}

\* s has d before it: what it has recorded it is done with.
Has(s, d) ==
    /\ pc[s] \in Working
    /\ d \in batch[s]
    /\ ~(pc[s] = "recorded" /\ cur[s] = d)

\* What s knows of the claim on d is what the row has.
Holds(s, d) ==
    /\ Has(s, d)
    /\ table[d].token # None
    /\ table[d].token.owner = Home[s]
    /\ \/ pc[s] = "claimed" /\ held[s][d] = NotHeld
       \/ held[s][d].token = table[d].token

\* The claims of senders, and the deliveries whose lease runs for one of them.
Claims == {p \in Sender \X Delivery : Has(p[1], p[2])}
Good ==
    {d \in Delivery : /\ table[d].status = "IN_PROGRESS"
                      /\ table[d].live
                      /\ \E s \in Sender : Holds(s, d)}

\* Claims P of deliveries other than e beyond those that the leases G are for.
Owed(P, G, e) == Cardinality({p \in P : p[2] # e}) - Cardinality(G \ {e})

\* The senders that work on a delivery without its lease, but for e.
Stale(e) == Owed(Claims, Good, e)

\* A delivery that nobody works on under its lease will be claimed again.
Slack(d) == IF d \in Good THEN 0 ELSE 1

\* A delivery has another attempt over the limit only for a fault that made it
\* lose its lease, or that let another be overtaken by whom both were claimed.
Paid(d) ==
    /\ table[d].status = "ABSENT" => table[d].attempts = 0
    /\ table[d].status \in Ready => table[d].attempts < MaxAttempts
    /\ table[d].status = "IN_PROGRESS" =>
          table[d].attempts + Slack(d) + Stale(d) <= MaxAttempts + faults
    /\ table[d].attempts <= MaxAttempts + faults

\* A sender that has claimed nothing holds nothing.
FreshOK ==
    \A s \in Sender : pc[s] \notin Working => held[s] = [d \in Delivery |-> NotHeld]

Known == {d \in Delivery : table[d].status # "ABSENT"}

PaidOK ==
    /\ FreshOK
    /\ IsFiniteSet(Known) /\ IsFiniteSet(Claims)
    /\ Stale(None) <= faults
    /\ \A d \in Delivery : Paid(d)

\* Counting.  Pairs of s with X, and those of them that are not for e.
With(s, X) == {s} \X X

LEMMA WithIs ==
    ASSUME NEW s, NEW X, IsFiniteSet(X)
    PROVE  IsFiniteSet(With(s, X)) /\ Cardinality(With(s, X)) = Cardinality(X)
<1>1. IsFiniteSet({s}) /\ Cardinality({s}) = 1
  BY FS_Singleton
<1>2. Cardinality(X) \in Nat
  BY FS_CardinalityType
<1> QED
  BY <1>1, <1>2, FS_Product DEF With

\* A subset of a finite set is no larger; a disjoint union is as large as both.
LEMMA Smaller ==
    ASSUME NEW S, NEW U, U \subseteq S, IsFiniteSet(S)
    PROVE  /\ IsFiniteSet(U) /\ Cardinality(U) <= Cardinality(S)
           /\ Cardinality(U) \in Nat /\ Cardinality(S) \in Nat
BY FS_Subset, FS_CardinalityType

LEMMA Disjoint ==
    ASSUME NEW S, NEW U, IsFiniteSet(S), IsFiniteSet(U), S \cap U = {}
    PROVE  /\ IsFiniteSet(S \cup U)
           /\ Cardinality(S \cup U) = Cardinality(S) + Cardinality(U)
<1>1. Cardinality(S \cap U) = 0 /\ Cardinality(S) \in Nat /\ Cardinality(U) \in Nat
  BY FS_EmptySet, FS_CardinalityType
<1>2. /\ IsFiniteSet(S \cup U)
      /\ Cardinality(S \cup U) = Cardinality(S) + Cardinality(U) - Cardinality(S \cap U)
  BY FS_Union
<1> QED
  BY <1>1, <1>2

LEMMA Joined ==
    ASSUME NEW S, NEW U, IsFiniteSet(S), IsFiniteSet(U)
    PROVE  /\ IsFiniteSet(S \cup U)
           /\ Cardinality(S \cup U) <= Cardinality(S) + Cardinality(U)
<1>1. Cardinality(S \cap U) \in Nat /\ Cardinality(S) \in Nat /\ Cardinality(U) \in Nat
  BY FS_Intersection, FS_CardinalityType
<1>2. /\ IsFiniteSet(S \cup U)
      /\ Cardinality(S \cup U) = Cardinality(S) + Cardinality(U) - Cardinality(S \cap U)
  BY FS_Union
<1> QED
  BY <1>1, <1>2

\* A sender drops the claims X, whereby the leases of Y are lost.
Dropping(P, Q, G, H, s, X, Y) ==
    /\ IsFiniteSet(P) /\ IsFiniteSet(G) /\ IsFiniteSet(H) /\ IsFiniteSet(X) /\ IsFiniteSet(Y)
    /\ Q \subseteq P /\ With(s, X) \subseteq P /\ With(s, X) \cap Q = {}
    /\ G \subseteq H \cup Y

LEMMA OwedDrop ==
    ASSUME NEW P, NEW Q, NEW G, NEW H, NEW s, NEW X, NEW Y, NEW e,
           Dropping(P, Q, G, H, s, X, Y)
    PROVE  /\ Owed(P, G, e) \in Int /\ Owed(Q, H, e) \in Int
           /\ Cardinality(X \ {e}) \in Nat /\ Cardinality(Y \ {e}) \in Nat
           /\ Owed(Q, H, e) + Cardinality(X \ {e}) <= Owed(P, G, e) + Cardinality(Y \ {e})
<1> DEFINE PB == {p \in P : p[2] # e}
           QB == {p \in Q : p[2] # e}
           XE == X \ {e}
           YE == Y \ {e}
           GE == G \ {e}
           HE == H \ {e}
           W == With(s, XE)
<1> USE DEF Dropping
<1>1. /\ IsFiniteSet(PB) /\ IsFiniteSet(QB)
      /\ Cardinality(PB) \in Nat /\ Cardinality(QB) \in Nat
  <2>1. PB \subseteq P /\ QB \subseteq P
    OBVIOUS
  <2> HIDE DEF PB, QB
  <2> QED
    BY <2>1, Smaller
<1>2. /\ IsFiniteSet(XE) /\ IsFiniteSet(YE) /\ IsFiniteSet(GE) /\ IsFiniteSet(HE)
      /\ Cardinality(XE) \in Nat /\ Cardinality(YE) \in Nat
      /\ Cardinality(GE) \in Nat /\ Cardinality(HE) \in Nat
  <2>1. XE \subseteq X /\ YE \subseteq Y /\ GE \subseteq G /\ HE \subseteq H
    OBVIOUS
  <2> HIDE DEF XE, YE, GE, HE
  <2> QED
    BY <2>1, Smaller
<1>3. Cardinality(QB) + Cardinality(XE) <= Cardinality(PB)
  <2>1. IsFiniteSet(W) /\ Cardinality(W) = Cardinality(XE)
    BY <1>2, WithIs
  <2>2. QB \cap W = {} /\ QB \cup W \subseteq PB
    BY DEF With
  <2> HIDE DEF QB, W, PB, XE
  <2>3. /\ IsFiniteSet(QB \cup W)
        /\ Cardinality(QB \cup W) = Cardinality(QB) + Cardinality(W)
    BY <1>1, <2>1, <2>2, Disjoint
  <2>4. Cardinality(QB \cup W) <= Cardinality(PB)
    BY <1>1, <2>2, Smaller
  <2> QED
    BY <2>1, <2>3, <2>4
<1>4. Cardinality(GE) <= Cardinality(HE) + Cardinality(YE)
  <2>1. GE \subseteq HE \cup YE
    OBVIOUS
  <2> HIDE DEF GE, HE, YE
  <2>2. /\ IsFiniteSet(HE \cup YE)
        /\ Cardinality(HE \cup YE) <= Cardinality(HE) + Cardinality(YE)
    BY <1>2, Joined
  <2>3. Cardinality(GE) <= Cardinality(HE \cup YE) /\ Cardinality(HE \cup YE) \in Nat
    BY <2>1, <2>2, Smaller
  <2> QED
    BY <1>2, <2>2, <2>3
<1>5. /\ Owed(P, G, e) = Cardinality(PB) - Cardinality(GE)
      /\ Owed(Q, H, e) = Cardinality(QB) - Cardinality(HE)
  BY DEF Owed
<1> HIDE DEF PB, QB, GE, HE, XE, YE
<1>6. /\ Owed(P, G, e) \in Int /\ Owed(Q, H, e) \in Int
      /\ Owed(Q, H, e) + Cardinality(XE) <= Owed(P, G, e) + Cardinality(YE)
  BY <1>1, <1>2, <1>3, <1>4, <1>5
<1> QED
  BY <1>2, <1>6 DEF XE, YE

\* A sender claims D, under leases.
Adding(P, G, H, s, D) ==
    /\ IsFiniteSet(P) /\ IsFiniteSet(G) /\ IsFiniteSet(H) /\ IsFiniteSet(D)
    /\ With(s, D) \cap P = {} /\ G \cap D = {} /\ G \cup D \subseteq H

LEMMA OwedClaim ==
    ASSUME NEW P, NEW G, NEW H, NEW s, NEW D, NEW e, Adding(P, G, H, s, D)
    PROVE  /\ Owed(P, G, e) \in Int /\ Owed(P \cup With(s, D), H, e) \in Int
           /\ Owed(P \cup With(s, D), H, e) <= Owed(P, G, e)
<1> DEFINE PB == {p \in P : p[2] # e}
           QB == {p \in P \cup With(s, D) : p[2] # e}
           DE == D \ {e}
           GE == G \ {e}
           HE == H \ {e}
           W == With(s, DE)
<1> USE DEF Adding
<1>1. IsFiniteSet(PB) /\ Cardinality(PB) \in Nat
  <2>1. PB \subseteq P
    OBVIOUS
  <2> HIDE DEF PB
  <2> QED
    BY <2>1, Smaller
<1>2. /\ IsFiniteSet(DE) /\ IsFiniteSet(GE) /\ IsFiniteSet(HE)
      /\ Cardinality(DE) \in Nat /\ Cardinality(GE) \in Nat /\ Cardinality(HE) \in Nat
  <2>1. DE \subseteq D /\ GE \subseteq G /\ HE \subseteq H
    OBVIOUS
  <2> HIDE DEF DE, GE, HE
  <2> QED
    BY <2>1, Smaller
<1>3. Cardinality(QB) = Cardinality(PB) + Cardinality(DE)
  <2>1. IsFiniteSet(W) /\ Cardinality(W) = Cardinality(DE)
    BY <1>2, WithIs
  <2>2. PB \cap W = {} /\ QB = PB \cup W
    BY DEF With
  <2> HIDE DEF QB, W, PB, DE
  <2> QED
    BY <1>1, <2>1, <2>2, Disjoint
<1>4. Cardinality(GE) + Cardinality(DE) <= Cardinality(HE)
  <2>1. GE \cup DE \subseteq HE /\ GE \cap DE = {}
    OBVIOUS
  <2> HIDE DEF GE, HE, DE
  <2>2. /\ IsFiniteSet(GE \cup DE)
        /\ Cardinality(GE \cup DE) = Cardinality(GE) + Cardinality(DE)
    BY <1>2, <2>1, Disjoint
  <2>3. Cardinality(GE \cup DE) <= Cardinality(HE)
    BY <1>2, <2>1, Smaller
  <2> QED
    BY <2>2, <2>3
<1>5. /\ Owed(P, G, e) = Cardinality(PB) - Cardinality(GE)
      /\ Owed(P \cup With(s, D), H, e) = Cardinality(QB) - Cardinality(HE)
  BY DEF Owed
<1> HIDE DEF PB, QB, GE, HE, DE
<1> QED
  BY <1>1, <1>2, <1>3, <1>4, <1>5

\* Each lease is for one of the claims.
LEMMA OwedNat ==
    ASSUME NEW P, NEW G, NEW e, IsFiniteSet(P),
           G \subseteq {p[2] : p \in P}
    PROVE  Owed(P, G, e) \in Nat
<1> DEFINE PB == {p \in P : p[2] # e}
           GE == G \ {e}
           f == [p \in PB |-> p[2]]
           R == {p[2] : p \in PB}
<1>1. IsFiniteSet(PB) /\ Cardinality(PB) \in Nat
  <2>1. PB \subseteq P
    OBVIOUS
  <2> HIDE DEF PB
  <2> QED
    BY <2>1, Smaller
<1>2. f \in Surjection(PB, R)
  <2>1. f \in [PB -> R]
    OBVIOUS
  <2>2. \A r \in R : \E p \in PB : f[p] = r
    OBVIOUS
  <2> QED
    BY <2>1, <2>2 DEF Surjection
<1>3. GE \subseteq R
  OBVIOUS
<1>4. Owed(P, G, e) = Cardinality(PB) - Cardinality(GE)
  BY DEF Owed
<1> HIDE DEF PB, GE, f, R
<1>5. IsFiniteSet(R) /\ Cardinality(R) <= Cardinality(PB)
  BY <1>1, <1>2, FS_Surjection
<1>6. Cardinality(GE) <= Cardinality(R) /\ Cardinality(GE) \in Nat /\ Cardinality(R) \in Nat
  BY <1>3, <1>5, Smaller
<1> QED
  BY <1>1, <1>4, <1>5, <1>6

\* What is owed for the others is no more than what is owed for all.
LEMMA OwedLess ==
    ASSUME NEW P, NEW G, NEW e, NEW x, IsFiniteSet(P), IsFiniteSet(G),
           x \notin G, \A p \in P : p[2] # x,
           G \subseteq {p[2] : p \in P}
    PROVE  Owed(P, G, e) <= Owed(P, G, x)
<1> DEFINE PB == {p \in P : p[2] # e}
           GE == G \ {e}
<1>1. /\ IsFiniteSet(PB) /\ Cardinality(PB) \in Nat /\ Cardinality(PB) <= Cardinality(P)
      /\ Cardinality(P) \in Nat
  <2>1. PB \subseteq P
    OBVIOUS
  <2> HIDE DEF PB
  <2> QED
    BY <2>1, Smaller
<1>2. /\ Cardinality(G) \in Nat
      /\ Cardinality(GE) = IF e \in G THEN Cardinality(G) - 1 ELSE Cardinality(G)
  BY FS_CardinalityType, FS_RemoveElement
<1>3. {p \in P : p[2] # x} = P /\ G \ {x} = G
  OBVIOUS
<1>4. /\ Owed(P, G, e) = Cardinality(PB) - Cardinality(GE)
      /\ Owed(P, G, x) = Cardinality(P) - Cardinality(G)
  BY <1>3 DEF Owed
<1>5. e \in G => Cardinality(PB) + 1 <= Cardinality(P)
  <2> SUFFICES ASSUME e \in G PROVE Cardinality(PB) + 1 <= Cardinality(P)
    OBVIOUS
  <2>1. PICK p \in P : p[2] = e
    OBVIOUS
  <2>2. p \notin PB /\ PB \cup {p} \subseteq P
    BY <2>1
  <2> HIDE DEF PB
  <2>3. Cardinality(PB \cup {p}) = Cardinality(PB) + 1
    BY <1>1, <2>2, FS_AddElement
  <2> QED
    BY <2>2, <2>3, Smaller
<1> HIDE DEF PB, GE
<1> QED
  BY <1>1, <1>2, <1>4, <1>5

-----------------------------------------------------------------------------
(* What a step does to the claims.                                          *)

\* What t has and holds is as it was, wherever the token is.
Keeps(t) ==
    \A d \in Delivery :
        /\ Has(t, d)' <=> Has(t, d)
        /\ table'[d].token = table[d].token => (Holds(t, d)' <=> Holds(t, d))

LEMMA SameKeeps ==
    ASSUME NEW t \in Sender, Same(t)
    PROVE  Keeps(t)
BY DEF Same, Keeps, Has, Holds

\* A sender that has claimed nothing, before and after.
LEMMA NothingKeeps ==
    ASSUME NEW t \in Sender, pc[t] \notin Working, pc'[t] \notin Working
    PROVE  Keeps(t)
BY DEF Keeps, Has, Holds

\* Of the claims only known deliveries are the object.
LEMMA ClaimsKnown ==
    ASSUME TypeOK, SenderOK
    PROVE  /\ Good \subseteq Known /\ Good \subseteq {p[2] : p \in Claims}
           /\ \A p \in Claims : p[2] # None
           /\ None \notin Good /\ None \notin Delivery
           /\ \A s \in Sender, d \in Delivery : Has(s, d) => d \in Known
<1>1. None \notin Delivery
  BY NoneAssumption
<1>2. \A s \in Sender, d \in Delivery : Has(s, d) => d \in Known
  BY DEF Has, Known, SenderOK, InOrder
<1>3. Good \subseteq {p[2] : p \in Claims}
  <2> SUFFICES ASSUME NEW d \in Good PROVE \E p \in Claims : p[2] = d
    OBVIOUS
  <2>1. d \in Delivery
    BY DEF Good
  <2>2. PICK s \in Sender : Has(s, d)
    BY DEF Good, Holds
  <2>3. <<s, d>> \in Claims
    BY <2>1, <2>2 DEF Claims
  <2> QED
    BY <2>3
<1>4. Good \subseteq Known
  BY DEF Good, Known
<1>5. \A p \in Claims : p[2] # None
  BY <1>1 DEF Claims
<1> QED
  BY <1>1, <1>2, <1>3, <1>4, <1>5 DEF Good

\* What is counted can be counted.
LEMMA Countable ==
    ASSUME TypeOK, SenderOK, IsFiniteSet(Known), IsFiniteSet(Claims)
    PROVE  /\ IsFiniteSet(Good)
           /\ \A e : Stale(e) \in Nat /\ Stale(e) <= Stale(None)
<1>1. IsFiniteSet(Good)
  BY ClaimsKnown, Smaller
<1>2. ASSUME NEW e PROVE Stale(e) \in Nat /\ Stale(e) <= Stale(None)
  BY <1>1, ClaimsKnown, OwedNat, OwedLess DEF Stale
<1> QED
  BY <1>1, <1>2

\* The claims of a sender.
Mine(s) == {d \in Delivery : Has(s, d)}

LEMMA MineIs ==
    ASSUME NEW s \in Sender
    PROVE  /\ With(s, Mine(s)) \subseteq Claims
           /\ \A p \in Claims : p[1] = s => p \in With(s, Mine(s))
BY DEF With, Mine, Claims

LEMMA MineFinite ==
    ASSUME TypeOK, SenderOK, IsFiniteSet(Known), NEW s \in Sender
    PROVE  IsFiniteSet(Mine(s))
<1>1. Mine(s) \subseteq Known
  BY ClaimsKnown DEF Mine
<1> QED
  BY <1>1, Smaller

\* A row that nothing of concern happens to.
Still(d) ==
    /\ table'[d].token = table[d].token
    /\ table'[d].status = table[d].status
    /\ table'[d].live = table[d].live

\* Everybody keeps his claims, and the leases go on but for those of X.
LEMMA KeptClaims ==
    ASSUME \A t \in Sender : Keeps(t),
           NEW X, \A d \in Good \ X : Still(d)
    PROVE  Claims' = Claims /\ Good \subseteq Good' \cup X
<1>1. Claims' = Claims
  <2>1. ASSUME NEW p \in Sender \X Delivery
        PROVE  Has(p[1], p[2])' <=> Has(p[1], p[2])
    <3>1. p[1] \in Sender /\ p[2] \in Delivery
      OBVIOUS
    <3> QED
      BY <3>1 DEF Keeps
  <2> QED
    BY <2>1 DEF Claims
<1>2. ASSUME NEW d \in Good \ X PROVE d \in Good'
  <2>1. d \in Delivery /\ Still(d)
    BY <1>2 DEF Good
  <2>2. PICK t \in Sender : Holds(t, d)
    BY <1>2 DEF Good
  <2>3. Holds(t, d)'
    BY <2>1, <2>2 DEF Keeps, Still
  <2> QED
    BY <2>1, <2>3 DEF Good, Still
<1> QED
  BY <1>1, <1>2

\* s drops the claims X, and with them loses the leases Y at most.
Drops(s, X, Y) ==
    /\ X \subseteq Mine(s) /\ Y \subseteq X
    /\ Claims' = Claims \ With(s, X)
    /\ Good \subseteq Good' \cup Y

LEMMA DroppedClaims ==
    ASSUME NEW s \in Sender, \A t \in Sender \ {s} : Keeps(t),
           NEW X \in SUBSET Mine(s), NEW Y \in SUBSET X,
           \A d \in Delivery : Has(s, d)' <=> Has(s, d) /\ d \notin X,
           \A d \in Good \ Y : Still(d),
           \A d \in Good \ Y : Holds(s, d) => Holds(s, d)'
    PROVE  Drops(s, X, Y)
<1>1. ASSUME NEW p \in Sender \X Delivery
      PROVE  Has(p[1], p[2])' <=> Has(p[1], p[2]) /\ p \notin With(s, X)
  <2>1. p[1] \in Sender /\ p[2] \in Delivery /\ p = <<p[1], p[2]>>
    OBVIOUS
  <2>2. p \in With(s, X) <=> p[1] = s /\ p[2] \in X
    BY <2>1 DEF With
  <2>3. CASE p[1] = s
    BY <2>1, <2>2, <2>3
  <2>4. CASE p[1] # s
    BY <2>1, <2>2, <2>4 DEF Keeps
  <2> QED
    BY <2>3, <2>4
<1>2. Claims' = Claims \ With(s, X)
  BY <1>1 DEF Claims
<1>3. ASSUME NEW d \in Good \ Y PROVE d \in Good'
  <2>1. d \in Delivery /\ Still(d)
    BY <1>3 DEF Good
  <2>2. PICK t \in Sender : Holds(t, d)
    BY <1>3 DEF Good
  <2>3. Holds(t, d)'
    BY <1>3, <2>1, <2>2 DEF Keeps, Still
  <2> QED
    BY <2>1, <2>3 DEF Good, Still
<1> QED
  BY <1>2, <1>3 DEF Drops

\* What is dropped is no longer owed, and pays for the leases that are lost.
LEMMA DropsStale ==
    ASSUME TypeOK, SenderOK,
           IsFiniteSet(Known), IsFiniteSet(Known'), IsFiniteSet(Claims),
           NEW s \in Sender, NEW X, NEW Y, Drops(s, X, Y), NEW e
    PROVE  /\ IsFiniteSet(Claims')
           /\ Cardinality(X \ {e}) \in Nat /\ Cardinality(Y \ {e}) \in Nat
           /\ Stale(e)' + Cardinality(X \ {e}) <= Stale(e) + Cardinality(Y \ {e})
<1>1. IsFiniteSet(Claims')
  BY Smaller DEF Drops
<1>2. IsFiniteSet(Good) /\ IsFiniteSet(Good')
  <2>1. Good \subseteq Known /\ Good' \subseteq Known'
    BY DEF Good, Known
  <2> QED
    BY <2>1, Smaller
<1>3. IsFiniteSet(X) /\ IsFiniteSet(Y)
  <2>1. X \subseteq Mine(s) /\ Y \subseteq Mine(s)
    BY DEF Drops
  <2> QED
    BY <2>1, MineFinite, Smaller
<1>4. With(s, X) \subseteq Claims
  BY MineIs DEF With, Drops
<1>5. /\ Claims' \subseteq Claims /\ With(s, X) \cap Claims' = {}
      /\ Good \subseteq Good' \cup Y
  BY DEF Drops
<1>6. Stale(e) = Owed(Claims, Good, e) /\ Stale(e)' = Owed(Claims', Good', e)
  BY DEF Stale, Owed
<1>7. /\ Cardinality(X \ {e}) \in Nat /\ Cardinality(Y \ {e}) \in Nat
      /\ Owed(Claims', Good', e) + Cardinality(X \ {e})
           <= Owed(Claims, Good, e) + Cardinality(Y \ {e})
  <2> DEFINE P == Claims
             Q == Claims'
             G == Good
             H == Good'
  <2>1. Dropping(P, Q, G, H, s, X, Y)
    BY <1>2, <1>3, <1>4, <1>5 DEF Dropping
  <2> HIDE DEF P, Q, G, H
  <2>2. /\ Cardinality(X \ {e}) \in Nat /\ Cardinality(Y \ {e}) \in Nat
        /\ Owed(Q, H, e) + Cardinality(X \ {e}) <= Owed(P, G, e) + Cardinality(Y \ {e})
    BY <2>1, OwedDrop
  <2> QED
    BY <2>2 DEF P, Q, G, H
<1> QED
  BY <1>1, <1>6, <1>7

\* Whose claims all stay owes no more, but for the leases Y.
LEMMA KeptStale ==
    ASSUME IsFiniteSet(Claims), IsFiniteSet(Good), IsFiniteSet(Good'),
           Claims' = Claims, NEW Y, IsFiniteSet(Y), Good \subseteq Good' \cup Y, NEW e
    PROVE  /\ Cardinality(Y \ {e}) \in Nat
           /\ Stale(e)' <= Stale(e) + Cardinality(Y \ {e})
<1> DEFINE P == Claims
           G == Good
           H == Good'
<1>1. Stale(e) = Owed(P, G, e) /\ Stale(e)' = Owed(P, H, e)
  BY DEF Stale, Owed
<1>2. IsFiniteSet({}) /\ {} \ {e} = {} /\ Cardinality({}) = 0
  BY FS_EmptySet
<1>3. Dropping(P, P, G, H, None, {}, Y)
  BY <1>2 DEF Dropping, With
<1> HIDE DEF P, G, H
<1>4. /\ Owed(P, G, e) \in Int /\ Owed(P, H, e) \in Int
      /\ Cardinality({} \ {e}) \in Nat /\ Cardinality(Y \ {e}) \in Nat
      /\ Owed(P, H, e) + Cardinality({} \ {e}) <= Owed(P, G, e) + Cardinality(Y \ {e})
  BY <1>3, OwedDrop
<1> QED
  BY <1>1, <1>2, <1>4

\* s claims D under leases of its own.
Adds(s, D) ==
    /\ Claims' = Claims \cup With(s, D) /\ With(s, D) \cap Claims = {}
    /\ D \subseteq Known /\ Good \cap D = {} /\ Good \cup D \subseteq Good'

LEMMA AddsStale ==
    ASSUME IsFiniteSet(Known), IsFiniteSet(Claims), IsFiniteSet(Good), IsFiniteSet(Good'),
           NEW s \in Sender, NEW D, Adds(s, D), NEW e
    PROVE  IsFiniteSet(Claims') /\ Stale(e)' <= Stale(e)
<1> DEFINE P == Claims
           Q == Claims'
           G == Good
           H == Good'
<1>1. Stale(e) = Owed(P, G, e) /\ Stale(e)' = Owed(Q, H, e)
  BY DEF Stale, Owed
<1>2. IsFiniteSet(D)
  BY Smaller DEF Adds
<1>3. Adding(P, G, H, s, D) /\ Q = P \cup With(s, D)
  BY <1>2 DEF Adds, Adding
<1> HIDE DEF P, Q, G, H
<1>4. Owed(Q, H, e) <= Owed(P, G, e)
  BY <1>3, OwedClaim
<1>5. IsFiniteSet(Q)
  <2>1. IsFiniteSet(With(s, D)) /\ IsFiniteSet(P)
    BY <1>2, <1>3, WithIs DEF Adding
  <2> QED
    BY <1>3, <2>1, Joined
<1> QED
  BY <1>1, <1>4, <1>5 DEF Q

-----------------------------------------------------------------------------
(* What a step does to the account of a delivery.                           *)

\* The delivery is where it was, and what it lost a fault pays for.
Calm(d) ==
    /\ table'[d].status = table[d].status
    /\ table'[d].attempts = table[d].attempts
    /\ Slack(d)' + Stale(d)' + faults <= Slack(d) + Stale(d) + faults'

\* It is claimed, by whom it needed; or it is closed, for good or within the limit.
Taken(d) == Claimed(d) /\ Stale(d)' <= Stale(d) /\ d \notin Good /\ d \in Good'
Ended(d) ==
    Closed(d) /\ (table'[d].status = "RETRY" => table[d].attempts < MaxAttempts)

Accounts(d) == Calm(d) \/ Opened(d) \/ Taken(d) \/ Ended(d)

LEMMA AccountsPaid ==
    ASSUME TypeOK, TypeOK', NEW d \in Delivery, Paid(d), Accounts(d),
           Stale(d) \in Nat, Stale(d)' \in Nat, Stale(d) <= faults, faults <= faults'
    PROVE  Paid(d)'
<1>1. /\ table[d].attempts \in Nat /\ faults \in Nat /\ faults' \in Nat
      /\ MaxAttempts \in Nat \ {0} /\ table'[d].attempts \in Nat
  BY LimitAssumption DEF TypeOK, Row
<1>2. Slack(d) \in {0, 1} /\ Slack(d)' \in {0, 1}
  BY DEF Slack
<1> DEFINE a == table[d].attempts
           b == table'[d].attempts
           x == Stale(d)
           y == Stale(d)'
           m == Slack(d)
           n == Slack(d)'
<1>3. Paid(d)' <=>
        /\ table'[d].status = "ABSENT" => b = 0
        /\ table'[d].status \in Ready => b < MaxAttempts
        /\ table'[d].status = "IN_PROGRESS" => b + n + y <= MaxAttempts + faults'
        /\ b <= MaxAttempts + faults'
  BY DEF Paid
<1>4. /\ table[d].status = "ABSENT" => a = 0
      /\ table[d].status \in Ready => a < MaxAttempts
      /\ table[d].status = "IN_PROGRESS" => a + m + x <= MaxAttempts + faults
      /\ a <= MaxAttempts + faults
  BY DEF Paid
<1>5. CASE Calm(d)
  <2>1. /\ table'[d].status = table[d].status /\ b = a
        /\ n + y + faults <= m + x + faults'
    BY <1>5 DEF Calm
  <2> HIDE DEF a, b, x, y, m, n
  <2>2. b <= MaxAttempts + faults'
    BY <1>1, <1>4, <2>1 DEF a
  <2>3. table'[d].status = "IN_PROGRESS" => b + n + y <= MaxAttempts + faults'
    BY <1>1, <1>2, <1>4, <2>1 DEF a, x, y, m, n
  <2> QED
    BY <1>3, <1>4, <2>1, <2>2, <2>3
<1>6. CASE Opened(d)
  BY <1>1, <1>3, <1>4, <1>6 DEF Opened, Ready
<1>7. CASE Taken(d)
  <2>1. /\ table[d].status \in Ready \cup {"IN_PROGRESS"}
        /\ table'[d].status = "IN_PROGRESS" /\ b = a + 1 /\ y <= x /\ m = 1 /\ n = 0
    BY <1>7 DEF Taken, Claimed, Slack
  <2> HIDE DEF b, y, m, n, a, x
  <2>2. b + n + y <= MaxAttempts + faults
    <3>1. CASE table[d].status \in Ready
      BY <1>1, <1>4, <2>1, <3>1 DEF a, x, y
    <3>2. CASE table[d].status = "IN_PROGRESS"
      BY <1>1, <1>4, <2>1, <3>2 DEF a, x, y
    <3> QED
      BY <2>1, <3>1, <3>2
  <2>3. b <= MaxAttempts + faults' /\ b + n + y <= MaxAttempts + faults'
    BY <1>1, <2>1, <2>2 DEF a, b, y
  <2> QED
    BY <1>3, <2>1, <2>3 DEF Ready
<1>8. CASE Ended(d)
  <2>1. /\ table'[d].status \in {"ACCEPTED", "RETRY", "FAILED"} /\ b = a
        /\ table'[d].status = "RETRY" => a < MaxAttempts
    BY <1>8 DEF Ended, Closed
  <2> QED
    BY <1>1, <1>3, <1>4, <2>1 DEF Ready
<1> QED
  BY <1>5, <1>6, <1>7, <1>8 DEF Accounts

\* What everybody keeps costs a delivery nothing.
LEMMA KeptCalm ==
    ASSUME TypeOK, faults' = faults, NEW d \in Delivery,
           table'[d].status = table[d].status, table'[d].attempts = table[d].attempts,
           d \in Good => d \in Good',
           Stale(d) \in Nat, Stale(d)' \in Nat, Stale(d)' <= Stale(d)
    PROVE  Calm(d)
BY DEF Calm, Slack, TypeOK

\* The same before and after a step.
Finite == TypeOK /\ SenderOK /\ IsFiniteSet(Known) /\ IsFiniteSet(Claims)
Counted ==
    IsFiniteSet(Good) /\ \A e : Stale(e) \in Nat /\ Stale(e) <= Stale(None)

LEMMA FiniteCounted == (Finite => Counted) /\ (Finite' => Counted')
<1>1. Finite => Counted
  BY Countable DEF Finite, Counted
<1> QED
  BY <1>1, PTL

\* What a step has to do to keep the account.
Account ==
    /\ faults <= faults'
    /\ IsFiniteSet(Known') /\ IsFiniteSet(Claims')
    /\ Stale(None)' <= faults'
    /\ \A d \in Delivery : Accounts(d)

Context == IInv /\ PaidOK /\ TypeOK' /\ SenderOK' /\ IsFiniteSet(Known')

LEMMA Before ==
    ASSUME Context
    PROVE  /\ Finite /\ Counted /\ IsFiniteSet(Known') /\ faults \in Nat /\ faults' \in Nat
           /\ TypeOK /\ SenderOK /\ LeaseOK /\ FreshOK /\ Stale(None) <= faults
           /\ IsFiniteSet(Good) /\ IsFiniteSet(Good') /\ None \notin Good
           /\ \A e : Stale(e) \in Nat /\ Stale(e) <= faults
           /\ IsFiniteSet(Claims') => \A e : Stale(e)' \in Nat
<1>1. Finite /\ TypeOK /\ SenderOK /\ LeaseOK /\ FreshOK /\ Stale(None) <= faults
  BY DEF Context, IInv, PaidOK, Finite
<1>2. faults \in Nat /\ faults' \in Nat
  BY <1>1 DEF Context, TypeOK
<1>3. Counted
  BY <1>1, FiniteCounted
<1>4. IsFiniteSet(Claims') => Counted'
  BY FiniteCounted DEF Context, Finite
<1>5. Good' \subseteq Known' /\ None \notin Good
  BY NoneAssumption DEF Good, Known
<1>6. IsFiniteSet(Good')
  BY <1>5, Smaller DEF Context
<1>7. \A e : Stale(e) \in Nat /\ Stale(e) <= faults
  BY <1>1, <1>2, <1>3 DEF Counted
<1> QED
  BY <1>1, <1>2, <1>3, <1>4, <1>5, <1>6, <1>7 DEF Context, Counted

\* A step that touches no claim and no lease.
LEMMA QuietAccount ==
    ASSUME Context, faults' = faults, \A t \in Sender : Keeps(t),
           \A d \in Good : Still(d),
           \A d \in Delivery :
              \/ Opened(d)
              \/ /\ table'[d].status = table[d].status
                 /\ table'[d].attempts = table[d].attempts
    PROVE  Account
<1>1. Claims' = Claims /\ Good \subseteq Good'
  BY KeptClaims
<1>2. IsFiniteSet(Claims) /\ IsFiniteSet({}) /\ Cardinality({}) = 0
  BY Before, FS_EmptySet DEF Finite
<1>3. ASSUME NEW e PROVE Stale(e)' \in Nat /\ Stale(e) \in Nat /\ Stale(e)' <= Stale(e)
  <2>1. Good \subseteq Good' \cup {} /\ {} \ {e} = {}
    BY <1>1
  <2>2. Stale(e)' <= Stale(e) + Cardinality({} \ {e})
    BY <1>1, <1>2, <2>1, Before, KeptStale
  <2>3. Stale(e)' \in Nat /\ Stale(e) \in Nat
    BY <1>1, <1>2, Before
  <2> QED
    BY <1>2, <2>1, <2>2, <2>3
<1>4. ASSUME NEW d \in Delivery PROVE Accounts(d)
  <2>1. CASE Opened(d)
    BY <2>1 DEF Accounts
  <2>2. CASE ~Opened(d)
    BY <1>1, <1>3, <2>2, Before, KeptCalm DEF Accounts
  <2> QED
    BY <2>1, <2>2
<1>5. Stale(None)' <= faults'
  BY <1>3, Before
<1> QED
  BY <1>1, <1>2, <1>4, <1>5, Before DEF Account

\* The lease of d runs out under whoever works on it.
LEMMA OverrunAccount ==
    ASSUME Context, NEW d \in Delivery, LeaseOverrun(d)
    PROVE  Account
<1>1. /\ faults' = faults + 1 /\ UNCHANGED local
      /\ table' = [table EXCEPT ![d].live = FALSE]
  BY DEF LeaseOverrun, Lapse
<1>2. ASSUME NEW e \in Delivery
      PROVE  /\ table'[e].status = table[e].status /\ table'[e].attempts = table[e].attempts
             /\ table'[e].token = table[e].token
             /\ e # d => table'[e].live = table[e].live
  <2>1. table \in [Delivery -> Row]
    BY Before DEF TypeOK
  <2> QED
    BY <1>1, <2>1 DEF Row
<1>3. Claims' = Claims /\ Good \subseteq Good' \cup {d}
  <2>1. \A t \in Sender : Keeps(t)
    BY <1>1, SameKeeps DEF Same, local
  <2>2. \A e \in Good \ {d} : Still(e)
    BY <1>2 DEF Still, Good
  <2> QED
    BY <2>1, <2>2, KeptClaims
<1>4. IsFiniteSet(Claims) /\ IsFiniteSet({d})
  BY Before, FS_Singleton DEF Finite
<1>5. ASSUME NEW e
      PROVE  /\ Stale(e) \in Nat /\ Stale(e)' \in Nat
             /\ Stale(e)' <= Stale(e) + (IF e = d THEN 0 ELSE 1)
  <2>1. Stale(e)' <= Stale(e) + Cardinality({d} \ {e})
    BY <1>3, <1>4, Before, KeptStale
  <2>2. Cardinality({d} \ {e}) = IF e = d THEN 0 ELSE 1
    <3>1. {d} \ {e} = IF e = d THEN {} ELSE {d}
      OBVIOUS
    <3> QED
      BY <3>1, FS_EmptySet, FS_Singleton
  <2> QED
    BY <1>3, <1>4, <2>1, <2>2, Before
<1>6. ASSUME NEW e \in Delivery PROVE Calm(e)
  <2>1. Slack(e) \in {0, 1} /\ Slack(e)' \in {0, 1}
    BY DEF Slack
  <2>2. e # d => Slack(e)' <= Slack(e)
    BY <1>3 DEF Slack
  <2> QED
    BY <1>1, <1>2, <1>5, <2>1, <2>2, Before DEF Calm
<1>7. Stale(None)' <= faults'
  BY <1>1, <1>5, Before
<1> QED
  BY <1>1, <1>3, <1>4, <1>6, <1>7, Before DEF Account, Accounts

\* A sender that crashes gives its claims up.
LEMMA CrashAccount ==
    ASSUME Context, NEW s \in Sender, Crash(s)
    PROVE  Account
<1>1. /\ faults' = faults + 1 /\ table' = table /\ pc'[s] = "idle"
      /\ \A t \in Sender \ {s} : Keeps(t)
  BY Before, LeaveAlone, SameKeeps DEF Crash
<1>2. Drops(s, Mine(s), Mine(s))
  <2>1. \A d \in Delivery : Has(s, d)' <=> Has(s, d) /\ d \notin Mine(s)
    BY <1>1 DEF Has, Mine, Working
  <2>2. \A d \in Good \ Mine(s) : Still(d) /\ ~Holds(s, d)
    BY <1>1 DEF Still, Mine, Holds, Good
  <2> QED
    BY <1>1, <2>1, <2>2, DroppedClaims
<1>3. ASSUME NEW e
      PROVE  /\ IsFiniteSet(Claims') /\ Stale(e) \in Nat /\ Stale(e)' \in Nat
             /\ Stale(e)' <= Stale(e)
  <2>1. /\ IsFiniteSet(Claims') /\ Cardinality(Mine(s) \ {e}) \in Nat
        /\ Stale(e)' + Cardinality(Mine(s) \ {e}) <= Stale(e) + Cardinality(Mine(s) \ {e})
    BY <1>2, Before, DropsStale DEF Finite
  <2> QED
    BY <2>1, Before
<1>4. ASSUME NEW d \in Delivery PROVE Calm(d)
  <2>1. Slack(d) \in {0, 1} /\ Slack(d)' \in {0, 1}
    BY DEF Slack
  <2> QED
    BY <1>1, <1>3, <2>1, Before DEF Calm
<1>5. Stale(None)' <= faults'
  BY <1>1, <1>3, Before
<1> QED
  BY <1>1, <1>3, <1>4, <1>5, Before DEF Account, Accounts

\* A conflict: the claims that are given up with it are paid by the one that was
\* overtaken.
LEMMA ConflictAccount ==
    ASSUME Context, NEW s \in Sender, Record(s), ~Fenced(s)
    PROVE  Account
<1> DEFINE f == cur[s]
           Y == Mine(s) \ {f}
<1>1. /\ faults' = faults /\ table' = table /\ pc'[s] = "idle" /\ pc[s] = "answered"
      /\ \A t \in Sender \ {s} : Keeps(t)
  BY Before, LeaveAlone, SameKeeps DEF Record
<1>2. f \in Mine(s) /\ f \in Delivery
  BY <1>1, Before, SendsType DEF Mine, Has, Working, Sending, SenderOK, InOrder
<1>3. f \in Good => ~Holds(s, f)
  BY <1>1, <1>2, Before DEF Good, Holds, Fenced
<1>4. Drops(s, Mine(s), Y)
  <2>1. \A d \in Delivery : Has(s, d)' <=> Has(s, d) /\ d \notin Mine(s)
    BY <1>1 DEF Has, Mine, Working
  <2>2. \A d \in Good \ Y : Still(d) /\ ~Holds(s, d)
    BY <1>1, <1>3 DEF Still, Mine, Holds, Good
  <2> QED
    BY <1>1, <2>1, <2>2, DroppedClaims
<1>5. f \in Good => f \in Good'
  BY <1>4 DEF Drops
<1>6. IsFiniteSet(Mine(s))
  BY Before, MineFinite DEF Finite
<1>7. ASSUME NEW e
      PROVE  /\ IsFiniteSet(Claims') /\ Stale(e) \in Nat /\ Stale(e)' \in Nat
             /\ Stale(e)' <= Stale(e)
             /\ e # f => Stale(e)' + 1 <= Stale(e)
  <2> DEFINE A == Mine(s) \ {e}
             B == Y \ {e}
  <2>1. /\ IsFiniteSet(Claims') /\ Cardinality(A) \in Nat /\ Cardinality(B) \in Nat
        /\ Stale(e)' + Cardinality(A) <= Stale(e) + Cardinality(B)
    BY <1>4, Before, DropsStale DEF Finite
  <2>2. /\ IsFiniteSet(A) /\ B \subseteq A
        /\ e # f => f \in A /\ B = A \ {f}
        /\ e = f => B = A
    BY <1>2, <1>6, Smaller
  <2>3. e # f => Cardinality(B) = Cardinality(A) - 1
    <3> HIDE DEF A, B, f
    <3> QED
      BY <2>2, FS_RemoveElement
  <2> HIDE DEF A, B
  <2> QED
    BY <2>1, <2>2, <2>3, Before
<1>8. ASSUME NEW d \in Delivery PROVE Calm(d)
  <2>1. Slack(d) \in {0, 1} /\ Slack(d)' \in {0, 1} /\ (d = f => Slack(d)' <= Slack(d))
    BY <1>5 DEF Slack
  <2> HIDE DEF f
  <2> QED
    BY <1>1, <1>7, <2>1, Before DEF Calm
<1>9. Stale(None)' <= faults'
  BY <1>1, <1>7, Before
<1> QED
  BY <1>1, <1>7, <1>8, <1>9, Before DEF Account, Accounts

\* A sender that is within its lease records what came of one of its claims.
LEMMA RecordAccount ==
    ASSUME Context, NEW s \in Sender, Record(s), Fenced(s)
    PROVE  Account
<1> DEFINE f == cur[s]
<1>1. /\ faults' = faults /\ UNCHANGED <<batch, held, cur>>
      /\ pc[s] = "answered" /\ pc' = [pc EXCEPT ![s] = "recorded"]
  BY DEF Record, Goto
<1>2. f \in Mine(s) /\ f \in Delivery
  BY <1>1, Before, SendsType DEF Mine, Has, Working, Sending, SenderOK, InOrder
<1>3. pc'[s] = "recorded" /\ \A t \in Sender \ {s} : Same(t)
  <2>1. \A t \in Sender \ {s} : Same(t)
    BY Others DEF Acts, Step, Context, IInv
  <2> QED
    BY <1>1, <2>1, Before DEF TypeOK
<1>4. /\ \A d \in Delivery : d # f => table'[d] = table[d]
      /\ table'[f].status = Verdict(s) /\ table'[f].attempts = table[f].attempts
      /\ table'[f].token = None
  <2>1. table \in [Delivery -> Row] /\ table[f] \in Row
    BY <1>2, Before DEF TypeOK
  <2>2. table' = [table EXCEPT ![f] = [@ EXCEPT !.status = Verdict(s), !.token = None,
                                       !.live = FALSE, !.due = Verdict(s) # "RETRY"]]
    BY DEF Record
  <2> HIDE DEF f
  <2>3. table'[f] = [table[f] EXCEPT !.status = Verdict(s), !.token = None,
                                     !.live = FALSE, !.due = Verdict(s) # "RETRY"]
    BY <1>2, <2>1, <2>2
  <2>4. \A d \in Delivery : d # f => table'[d] = table[d]
    BY <2>1, <2>2
  <2> QED
    BY <2>1, <2>3, <2>4 DEF Row
<1>5. Drops(s, {f}, {f})
  <2>1. ASSUME NEW d \in Delivery PROVE Has(s, d)' <=> Has(s, d) /\ d \notin {f}
    BY <1>1, <1>3 DEF Has, Working
  <2>2. \A d \in Good \ {f} : Still(d)
    BY <1>4 DEF Still, Good
  <2>3. ASSUME NEW d \in Good \ {f}, Holds(s, d) PROVE Holds(s, d)'
    BY <1>1, <1>3, <1>4, <2>1, <2>3 DEF Holds, Good
  <2>4. {f} \in SUBSET Mine(s)
    BY <1>2
  <2>5. \A t \in Sender \ {s} : Keeps(t)
    BY <1>3, SameKeeps
  <2> HIDE DEF f
  <2> QED
    BY <2>1, <2>2, <2>3, <2>4, <2>5, DroppedClaims
<1>6. ASSUME NEW e
      PROVE  /\ IsFiniteSet(Claims') /\ Stale(e) \in Nat /\ Stale(e)' \in Nat
             /\ Stale(e)' <= Stale(e)
  <2>1. /\ IsFiniteSet(Claims') /\ Cardinality({f} \ {e}) \in Nat
        /\ Stale(e)' + Cardinality({f} \ {e}) <= Stale(e) + Cardinality({f} \ {e})
    BY <1>5, Before, DropsStale DEF Finite
  <2> QED
    BY <2>1, Before
<1>7. Ended(f)
  <2>1. Verdict(s) \in {"ACCEPTED", "RETRY", "FAILED"}
    BY VerdictType
  <2>2. Verdict(s) = "RETRY" => held[s][f].attempts < MaxAttempts
    BY DEF Verdict
  <2>3. /\ table[f].status = "IN_PROGRESS" /\ table[f].token = held[s][f].token
        /\ table[f].token # None
    BY <1>2, Before DEF Fenced, LeaseOK
  <2>4. held[s][f].attempts = table[f].attempts
    BY <1>2, <2>3, Before DEF LeaseOK
  <2> QED
    BY <1>4, <2>1, <2>2, <2>3, <2>4 DEF Ended, Closed
<1>8. ASSUME NEW d \in Delivery PROVE Accounts(d)
  <2>1. CASE d = f
    BY <1>7, <2>1 DEF Accounts
  <2>2. CASE d # f
    <3>1. d \in Good => d \in Good'
      BY <1>5, <2>2 DEF Drops
    <3> QED
      BY <1>1, <1>4, <1>6, <2>2, <3>1, Before, KeptCalm DEF Accounts
  <2> QED
    BY <2>1, <2>2
<1>9. Stale(None)' <= faults'
  BY <1>1, <1>6, Before
<1> QED
  BY <1>1, <1>6, <1>8, <1>9, Before DEF Account

\* What is claimed is under the claimer's lease, and was under nobody's.
LEMMA ClaimAccount ==
    ASSUME Context, faults' = faults, NEW s \in Sender, pc[s] \notin Working,
           NEW D \in SUBSET Delivery, \A d \in D : Claimable(d), Claim(s, D)
    PROVE  Account
<1>1. /\ pc'[s] = "claimed" /\ batch'[s] = D /\ held'[s] = [d \in Delivery |-> NotHeld]
      /\ \A t \in Sender \ {s} : Keeps(t)
  <2>1. /\ pc' = [pc EXCEPT ![s] = "claimed"] /\ batch' = [batch EXCEPT ![s] = D]
        /\ UNCHANGED <<held, cur, answer>>
    BY DEF Claim, Goto
  <2>2. \A t \in Sender \ {s} : Same(t)
    BY <2>1, Before DEF TypeOK, Same
  <2> QED
    BY <2>1, <2>2, Before, SameKeeps DEF TypeOK, FreshOK
<1>2. ASSUME NEW d \in D
      PROVE  /\ Claimed(d) /\ table'[d].live = TRUE /\ table'[d].token.owner = Home[s]
             /\ d \notin Good /\ d \in Known
  <2>1. Claimed(d)
    BY Before, ClaimMoves
  <2>2. table'[d] = [table[d] EXCEPT !.status = "IN_PROGRESS",
                                     !.attempts = table[d].attempts + 1,
                                     !.token = [owner |-> Home[s],
                                                attempt |-> table[d].attempts + 1],
                                     !.live = TRUE]
    BY DEF Claim
  <2>3. table'[d].live = TRUE /\ table'[d].token.owner = Home[s]
    BY <2>2, Before, RowType DEF Row
  <2> QED
    BY <2>1, <2>3 DEF Claimable, Good, Known, Ready
<1>3. \A d \in Delivery \ D : table'[d] = table[d]
  BY DEF Claim
<1>4. ASSUME NEW d \in D PROVE Holds(s, d)'
  BY <1>1, <1>2 DEF Holds, Has, Working, Claimed
<1>5. Adds(s, D)
  <2>1. ASSUME NEW d \in Delivery
        PROVE  (Has(s, d)' <=> d \in D) /\ ~Has(s, d)
    BY <1>1 DEF Has, Working
  <2>2. ASSUME NEW p \in Sender \X Delivery
        PROVE  /\ Has(p[1], p[2])' <=> Has(p[1], p[2]) \/ p \in With(s, D)
               /\ p \in With(s, D) => ~Has(p[1], p[2])
    <3>1. p[1] \in Sender /\ p[2] \in Delivery /\ p = <<p[1], p[2]>>
      OBVIOUS
    <3>2. p \in With(s, D) <=> p[1] = s /\ p[2] \in D
      BY <3>1 DEF With
    <3>3. CASE p[1] = s
      BY <2>1, <3>1, <3>2, <3>3
    <3>4. CASE p[1] # s
      BY <1>1, <3>1, <3>2, <3>4 DEF Keeps
    <3> QED
      BY <3>3, <3>4
  <2>3. With(s, D) \subseteq Sender \X Delivery
    BY DEF With
  <2>4. Claims' = Claims \cup With(s, D) /\ With(s, D) \cap Claims = {}
    BY <2>2, <2>3 DEF Claims
  <2>5. ASSUME NEW d \in Good PROVE d \in Good'
    <3>1. d \in Delivery /\ d \notin D /\ table'[d] = table[d]
      BY <1>2, <1>3 DEF Good
    <3>2. PICK t \in Sender : Holds(t, d)
      BY DEF Good
    <3>3. t # s
      BY <2>1, <3>1, <3>2 DEF Holds
    <3>4. Holds(t, d)'
      BY <1>1, <3>1, <3>2, <3>3 DEF Keeps
    <3> QED
      BY <3>1, <3>4 DEF Good
  <2>6. ASSUME NEW d \in D PROVE d \in Good'
    BY <1>2, <1>4 DEF Good, Claimed
  <2> QED
    BY <1>2, <2>4, <2>5, <2>6 DEF Adds
<1>6. ASSUME NEW e
      PROVE  /\ IsFiniteSet(Claims') /\ Stale(e) \in Nat /\ Stale(e)' \in Nat
             /\ Stale(e)' <= Stale(e)
  BY <1>5, Before, AddsStale DEF Finite
<1>7. ASSUME NEW d \in Delivery PROVE Accounts(d)
  <2>1. CASE d \in D
    BY <1>2, <1>5, <1>6, <2>1 DEF Accounts, Taken, Adds
  <2>2. CASE d \notin D
    <3>1. d \in Good => d \in Good'
      BY <1>5 DEF Adds
    <3> QED
      BY <1>3, <1>6, <2>2, <3>1, Before, KeptCalm DEF Accounts
  <2> QED
    BY <2>1, <2>2
<1>8. Stale(None)' <= faults'
  BY <1>6, Before
<1> QED
  BY <1>6, <1>7, <1>8, Before DEF Account

\* What a sender does between its claim and the outcome leaves its claims alone.
LEMMA ReadKeeps ==
    ASSUME Context, NEW s \in Sender, ReadClaim(s)
    PROVE  Keeps(s)
<1>1. PICK d \in batch[s] :
        /\ held[s][d] = NotHeld
        /\ held' = [held EXCEPT ![s][d] = [attempts |-> table[d].attempts,
                                          token |-> table[d].token]]
        /\ pc' = [pc EXCEPT ![s] = IF \E e \in batch[s] \ {d} : held[s][e] = NotHeld
                                     THEN "claimed" ELSE "ready"]
  BY DEF ReadClaim, Goto
<1>2. /\ pc[s] = "claimed" /\ UNCHANGED <<table, batch, cur>> /\ d \in Delivery
      /\ pc'[s] \in {"claimed", "ready"}
      /\ pc'[s] = "claimed" <=> \E e \in batch[s] \ {d} : held[s][e] = NotHeld
  BY <1>1, Before DEF ReadClaim, TypeOK
<1>3. ASSUME NEW e \in Delivery
      PROVE  held'[s][e] = IF e = d THEN [attempts |-> table[d].attempts,
                                         token |-> table[d].token]
                                    ELSE held[s][e]
  BY <1>1, <1>2, Before DEF TypeOK
<1>4. ASSUME NEW e \in Delivery
      PROVE  Has(s, e)' <=> Has(s, e)
  BY <1>2 DEF Has, Working
<1>5. ASSUME NEW e \in Delivery
      PROVE  Holds(s, e)' <=> Holds(s, e)
  <2>1. CASE e = d
    <3>1. held'[s][d].token = table[d].token
      BY <1>2, <1>3
    <3> QED
      BY <1>1, <1>2, <1>4, <2>1, <3>1 DEF Holds
  <2>2. CASE e # d
    <3>1. held'[s][e] = held[s][e]
      BY <1>3, <2>2
    <3>2. Has(s, e) => e \in batch[s] \ {d}
      BY <2>2 DEF Has
    <3>3. held[s][e] = NotHeld /\ Has(s, e) => pc'[s] = "claimed"
      BY <1>2, <3>2
    <3> QED
      BY <1>2, <1>4, <3>1, <3>3 DEF Holds
  <2> QED
    BY <2>1, <2>2
<1> QED
  BY <1>4, <1>5 DEF Keeps

LEMMA SendKeeps ==
    ASSUME Context, NEW s \in Sender,
           Post(s) \/ GatewayTakes(s) \/ \E a \in Answer : Respond(s, a)
    PROVE  Keeps(s)
<1>1. /\ pc[s] \in {"ready", "posted", "taken"} /\ pc'[s] \in {"posted", "taken", "answered"}
      /\ UNCHANGED <<table, batch, held>>
  BY Before DEF Post, GatewayTakes, Respond, Goto, TypeOK
<1> QED
  BY <1>1 DEF Keeps, Has, Holds, Working

LEMMA ReceiptKeeps ==
    ASSUME Context, NEW s \in Sender, PersistReceipt(s)
    PROVE  Keeps(s)
<1>1. pc[s] = "recorded" /\ table' = table /\ cur[s] \in Delivery
  BY Before, SendsType DEF PersistReceipt, Sending
<1>2. CASE batch[s] = {cur[s]}
  <2>1. pc'[s] = "idle"
    BY <1>2, Before, LeaveAlone DEF PersistReceipt
  <2> QED
    BY <1>1, <1>2, <2>1 DEF Keeps, Has, Holds, Working
<1>3. CASE batch[s] # {cur[s]}
  <2>1. /\ pc' = [pc EXCEPT ![s] = "ready"]
        /\ batch' = [batch EXCEPT ![s] = batch[s] \ {cur[s]}]
        /\ held' = [held EXCEPT ![s][cur[s]] = NotHeld]
    BY <1>3 DEF PersistReceipt, Goto
  <2>2. /\ pc'[s] = "ready" /\ batch'[s] = batch[s] \ {cur[s]}
        /\ \A d \in Delivery : d # cur[s] => held'[s][d] = held[s][d]
    BY <2>1, Before DEF TypeOK
  <2>3. ASSUME NEW d \in Delivery PROVE Has(s, d)' <=> Has(s, d)
    BY <1>1, <2>2 DEF Has, Working
  <2>4. ASSUME NEW d \in Delivery, Has(s, d) PROVE d # cur[s]
    BY <1>1, <2>4 DEF Has
  <2> QED
    BY <1>1, <2>2, <2>3, <2>4 DEF Keeps, Holds
<1> QED
  BY <1>2, <1>3

\* The senders of a step that nobody claims, records or crashes in.
LEMMA OthersKeep ==
    ASSUME Context, NEW s \in Sender, Acts(s), Keeps(s)
    PROVE  \A t \in Sender : Keeps(t)
<1>1. \A t \in Sender \ {s} : Keeps(t)
  BY Before, Others, SameKeeps
<1> QED
  BY <1>1

\* Every step keeps the account.
LEMMA NextAccount == Context /\ [Next]_vars => Account
<1> SUFFICES ASSUME Context, [Next]_vars PROVE Account
  OBVIOUS
<1> USE DEF local
<1>1. ASSUME UNCHANGED table, faults' = faults, \A t \in Sender : Keeps(t)
      PROVE  Account
  BY <1>1, QuietAccount DEF Still
<1>2. ASSUME NEW s \in Sender, NEW d \in Delivery, Enqueue(s, d) PROVE Account
  <2>1. /\ table' = [table EXCEPT ![d].status =
                       IF configured[Home[s]] THEN "PENDING" ELSE "WAITING_CONFIGURATION"]
        /\ table \in [Delivery -> Row] /\ table[d].status = "ABSENT"
        /\ pc[s] = "idle" /\ pc'[s] \in {"unsent", "enqueued"} /\ faults' = faults
    BY <1>2, Before DEF Enqueue, Goto, TypeOK
  <2>2. \A t \in Sender : Keeps(t)
    BY <1>2, <2>1, NothingKeeps, OthersKeep DEF Acts, Working
  <2>3. Opened(d) /\ d \notin Good
    BY <2>1 DEF Opened, Row, Good
  <2>4. \A e \in Delivery : e # d => table'[e] = table[e]
    BY <2>1
  <2>5. \A e \in Good : Still(e)
    BY <2>3, <2>4 DEF Still, Good
  <2> QED
    BY <2>1, <2>2, <2>3, <2>4, <2>5, QuietAccount
<1>3. ASSUME NEW s \in Sender, Sweep(s) PROVE Account
  <2>1. PICK D \in SUBSET Due : Claim(s, D)
    BY <1>3 DEF Sweep
  <2>2. D \in SUBSET Delivery /\ \A d \in D : Claimable(d)
    BY DEF Due
  <2>3. pc[s] \notin Working /\ faults' = faults
    BY <1>3 DEF Sweep, Working
  <2> QED
    BY <2>1, <2>2, <2>3, ClaimAccount
<1>4. ASSUME NEW s \in Sender, ReceiptNotAttempted(s) PROVE Account
  <2>1. pc[s] = "unsent" /\ pc'[s] = "idle" /\ table' = table /\ faults' = faults
    BY <1>4, Before, LeaveAlone DEF ReceiptNotAttempted
  <2>2. \A t \in Sender : Keeps(t)
    BY <1>4, <2>1, NothingKeeps, OthersKeep DEF Acts, Step, Working
  <2> QED
    BY <1>1, <2>1, <2>2
<1>5. ASSUME NEW s \in Sender, ClaimPublished(s) PROVE Account
  <2>1. pc[s] = "enqueued" /\ faults' = faults
    BY <1>5 DEF ClaimPublished
  <2>2. CASE \E d \in batch[s] : Claimable(d)
    <3>1. batch[s] \in SUBSET Delivery /\ \A d \in batch[s] : Claimable(d)
      BY <2>1, <2>2, Before DEF SenderOK, InOrder, TypeOK
    <3>2. Claim(s, batch[s])
      BY <1>5, <2>2 DEF ClaimPublished
    <3> QED
      BY <2>1, <3>1, <3>2, ClaimAccount DEF Working
  <2>3. CASE ~ \E d \in batch[s] : Claimable(d)
    <3>1. pc'[s] = "idle" /\ table' = table
      BY <1>5, <2>3, Before, LeaveAlone DEF ClaimPublished
    <3>2. \A t \in Sender : Keeps(t)
      BY <1>5, <2>1, <3>1, NothingKeeps, OthersKeep DEF Acts, Step, Working
    <3> QED
      BY <1>1, <2>1, <3>1, <3>2
  <2> QED
    BY <2>2, <2>3
<1>6. ASSUME NEW s \in Sender, ReadClaim(s) PROVE Account
  BY <1>1, <1>6, ReadKeeps, OthersKeep DEF ReadClaim, Acts, Step
<1>7. ASSUME NEW s \in Sender, Post(s) \/ GatewayTakes(s) \/ \E a \in Answer : Respond(s, a)
      PROVE  Account
  <2>1. table' = table /\ faults' = faults
    BY <1>7 DEF Post, GatewayTakes, Respond
  <2>2. \A t \in Sender : Keeps(t)
    BY <1>7, SendKeeps, OthersKeep DEF Acts, Step
  <2> QED
    BY <1>1, <2>1, <2>2
<1>8. ASSUME NEW s \in Sender, Record(s) PROVE Account
  BY <1>8, ConflictAccount, RecordAccount
<1>9. ASSUME NEW s \in Sender, PersistReceipt(s) PROVE Account
  BY <1>1, <1>9, ReceiptKeeps, OthersKeep DEF PersistReceipt, Acts, Step
<1>10. ASSUME NEW d \in Delivery, LeaseLapses(d) PROVE Account
  <2>1. /\ ~Busy(d) /\ table' = [table EXCEPT ![d].live = FALSE] /\ faults' = faults
        /\ UNCHANGED local /\ table \in [Delivery -> Row]
    BY <1>10, Before DEF LeaseLapses, Lapse, TypeOK
  <2>2. \A t \in Sender : Keeps(t)
    BY <2>1, SameKeeps DEF Same
  <2>3. d \notin Good
    BY <2>1 DEF Busy, Good, Holds, Has, Working
  <2>4. /\ \A e \in Delivery : e # d => table'[e] = table[e]
        /\ table'[d].status = table[d].status /\ table'[d].attempts = table[d].attempts
    BY <2>1 DEF Row
  <2>5. \A e \in Good : Still(e)
    BY <2>3, <2>4 DEF Still, Good
  <2> QED
    BY <2>1, <2>2, <2>4, <2>5, QuietAccount
<1>11. ASSUME NEW d \in Delivery, LeaseOverrun(d) PROVE Account
  BY <1>11, OverrunAccount
<1>12. ASSUME NEW d \in Delivery, BackoffEnds(d) PROVE Account
  <2>1. /\ table' = [table EXCEPT ![d].due = TRUE] /\ faults' = faults
        /\ UNCHANGED local /\ table \in [Delivery -> Row]
    BY <1>12, Before DEF BackoffEnds, TypeOK
  <2>2. \A t \in Sender : Keeps(t)
    BY <2>1, SameKeeps DEF Same
  <2>3. \A e \in Delivery :
          Still(e) /\ table'[e].status = table[e].status /\ table'[e].attempts = table[e].attempts
    BY <2>1 DEF Row, Still
  <2> QED
    BY <2>1, <2>2, <2>3, QuietAccount DEF Good
<1>13. ASSUME NEW i \in Instance, Configure(i) PROVE Account
  BY <1>1, <1>13, SameKeeps DEF Configure, Same
<1>14. ASSUME NEW s \in Sender, Crash(s) PROVE Account
  BY <1>14, CrashAccount
<1>15. CASE UNCHANGED vars
  BY <1>1, <1>15, SameKeeps DEF vars, Same
<1> QED
  BY <1>2, <1>3, <1>4, <1>5, <1>6, <1>7, <1>8, <1>9, <1>10, <1>11, <1>12, <1>13, <1>14,
     <1>15 DEF Next, Step

\* One delivery at a time becomes known.
LEMMA NextKnown ==
    ASSUME TypeOK, SenderOK, [Next]_vars, IsFiniteSet(Known)
    PROVE  IsFiniteSet(Known')
<1> USE DEF local
<1>1. ASSUME NEW s \in Sender, NEW d \in Delivery, Enqueue(s, d) PROVE IsFiniteSet(Known')
  <2>1. \A e \in Delivery : e # d => table'[e] = table[e]
    BY <1>1 DEF Enqueue, TypeOK
  <2>2. Known' \subseteq Known \cup {d}
    BY <2>1 DEF Known
  <2>3. IsFiniteSet(Known \cup {d})
    BY FS_AddElement
  <2> QED
    BY <2>2, <2>3, Smaller
<1>2. CASE ~ \E s \in Sender, d \in Delivery : Enqueue(s, d)
  <2>1. ASSUME NEW d \in Delivery, table[d].status = "ABSENT" PROVE table'[d].status = "ABSENT"
    <3>1. ASSUME NEW s \in Sender, NEW D \in SUBSET Delivery, \A e \in D : Claimable(e),
                 Claim(s, D)
          PROVE  table'[d].status = "ABSENT"
      BY <2>1, <3>1 DEF Claim, Claimable, Ready
    <3>2. ASSUME NEW s \in Sender, Sweep(s) PROVE table'[d].status = "ABSENT"
      BY <3>1, <3>2 DEF Sweep, Due
    <3>3. ASSUME NEW s \in Sender, ClaimPublished(s) PROVE table'[d].status = "ABSENT"
      <4>1. CASE \E e \in batch[s] : Claimable(e)
        <5>1. batch[s] \in SUBSET Delivery /\ \A e \in batch[s] : Claimable(e)
          BY <3>3, <4>1 DEF SenderOK, InOrder, TypeOK, ClaimPublished
        <5> QED
          BY <3>1, <3>3, <4>1, <5>1 DEF ClaimPublished
      <4>2. CASE ~ \E e \in batch[s] : Claimable(e)
        BY <2>1, <3>3, <4>2 DEF ClaimPublished
      <4> QED
        BY <4>1, <4>2
    <3>4. ASSUME NEW s \in Sender, Record(s) PROVE table'[d].status = "ABSENT"
      BY <2>1, <3>4 DEF Record, Fenced, TypeOK
    <3>5. ASSUME NEW e \in Delivery, LeaseLapses(e) \/ LeaseOverrun(e) \/ BackoffEnds(e)
          PROVE  table'[d].status = "ABSENT"
      BY <2>1, <3>5 DEF LeaseLapses, LeaseOverrun, BackoffEnds, Lapse, TypeOK
    <3>6. ASSUME UNCHANGED table PROVE table'[d].status = "ABSENT"
      BY <2>1, <3>6
    <3> QED
      BY <1>2, <3>2, <3>3, <3>4, <3>5, <3>6 DEF Next, Step, vars, ReceiptNotAttempted,
         ReadClaim, Post, GatewayTakes, Respond, PersistReceipt, Configure, Crash
  <2>2. Known' \subseteq Known
    BY <2>1 DEF Known
  <2> QED
    BY <2>2, Smaller
<1> QED
  BY <1>1, <1>2

\* Who claims nothing holds nothing.
LEMMA NextFresh == IInv /\ FreshOK /\ [Next]_vars => FreshOK'
<1> SUFFICES ASSUME IInv, FreshOK, [Next]_vars, NEW t \in Sender, pc'[t] \notin Working
             PROVE  held'[t] = [d \in Delivery |-> NotHeld]
  BY DEF FreshOK
<1>0. TypeOK /\ SenderOK
  BY DEF IInv
<1>1. ASSUME Same(t) PROVE held'[t] = [d \in Delivery |-> NotHeld]
  BY <1>1 DEF Same, FreshOK
<1>2. ASSUME Leave(t) PROVE held'[t] = [d \in Delivery |-> NotHeld]
  BY <1>0, <1>2, LeaveAlone
<1>3. CASE Acts(t)
  <2>1. ASSUME NEW d \in Delivery, Enqueue(t, d)
        PROVE  held'[t] = [e \in Delivery |-> NotHeld]
    BY <2>1 DEF Enqueue, FreshOK, Working
  <2>2. ASSUME NEW l \in Working, pc' = [pc EXCEPT ![t] = l] PROVE FALSE
    BY <1>0, <2>2 DEF TypeOK
  <2> QED
    BY <1>2, <1>3, <2>1, <2>2 DEF Acts, Step, Sweep, ReceiptNotAttempted, ClaimPublished,
       ReadClaim, Post, GatewayTakes, Respond, Record, PersistReceipt, Crash, Claim, Goto,
       Working
<1>4. CASE ~Acts(t)
  <2>1. CASE \E s \in Sender : Acts(s)
    BY <1>0, <1>1, <1>4, <2>1, Others
  <2>2. CASE UNCHANGED <<receipts, taken, local>>
    BY <1>1, <2>2 DEF Same, local
  <2> QED
    BY <2>1, <2>2, NextActs
<1> QED
  BY <1>3, <1>4

\* The account is kept from the start.
LEMMA NextPaid == IInv /\ IInv' /\ PaidOK /\ [Next]_vars => PaidOK'
<1> SUFFICES ASSUME IInv, IInv', PaidOK, [Next]_vars PROVE PaidOK'
  OBVIOUS
<1>1. Context
  BY NextKnown DEF Context, IInv, PaidOK
<1>2. Account /\ FreshOK'
  BY <1>1, NextAccount, NextFresh DEF PaidOK
<1>3. ASSUME NEW d \in Delivery PROVE Paid(d)'
  BY <1>1, <1>2, Before, AccountsPaid DEF Context, PaidOK, Account
<1> QED
  BY <1>2, <1>3 DEF PaidOK, Account

LEMMA InitPaid == Init => PaidOK
<1> SUFFICES ASSUME Init PROVE PaidOK
  OBVIOUS
<1>1. FreshOK /\ Known = {} /\ Claims = {} /\ Good = {}
  BY DEF Init, FreshOK, Known, Claims, Has, Working, Good
<1>2. IsFiniteSet({}) /\ Cardinality({}) = 0
  BY FS_EmptySet
<1>3. ASSUME NEW e PROVE Stale(e) = 0
  <2>1. {p \in Claims : p[2] # e} = {} /\ Good \ {e} = {}
    BY <1>1
  <2>2. Stale(e) = Cardinality({}) - Cardinality({})
    BY <2>1, Zenon DEF Stale, Owed
  <2> QED
    BY <1>2, <2>2
<1>4. ASSUME NEW d \in Delivery PROVE Paid(d)
  BY LimitAssumption DEF Init, Paid, Ready
<1> QED
  BY <1>1, <1>2, <1>3, <1>4 DEF PaidOK, Init

\* A handover is sent more often than the limit says only for leases that were lost
\* (claim_integration_deliveries, complete_integration_delivery).
THEOREM AttemptsArePaid == Spec => []AttemptsPaid
<1>1. PaidOK => AttemptsPaid
  BY DEF PaidOK, Paid, AttemptsPaid
<1> QED
  BY <1>1, InitPaid, NextPaid, Inductive, PTL DEF Spec
=============================================================================
