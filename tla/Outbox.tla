------------------------------- MODULE Outbox -------------------------------
(***************************************************************************)
(* The durable outbox of the TANTRA handover: TantraHandover.publish and     *)
(* process_pending (tantra_handover.py) over integration_outbox (store.py).  *)
(*                                                                         *)
(* A sender is a coroutine that publishes a dispatch or sweeps the due rows:  *)
(* the request handlers' event loop, the supervisor's own loop in its thread, *)
(* and those of other instances sharing the store.  One action is one         *)
(* transaction, one statement, or one step of the HTTP exchange.             *)
(*                                                                         *)
(* Time.  Neither the lease nor the backoff is a number here: a lease lapses  *)
(* and a backoff ends at any moment.  A sender's batch may take longer than   *)
(* its lease (20 requests of 15 s under a lease of 30 s by default).         *)
(*                                                                         *)
(* Abstractions.  created_at only orders the due rows: any Batch of them may *)
(* be claimed, and sent in any order.  The stored request is its delivery.   *)
(***************************************************************************)
EXTENDS Naturals, Sequences, FiniteSets

CONSTANTS
    Delivery,     \* handover packages, one per dispatch
    Sender,       \* coroutines that publish or sweep
    Instance,     \* runtime instances
    Home,         \* the instance each sender belongs to
    MaxAttempts,  \* tantra_delivery_max_attempts (8 by default)
    Batch,        \* tantra_delivery_batch_size (20 by default)
    None,         \* SQL NULL
    Faults,       \* the faults that may strike: a subset of FaultKind
    MaxFaults     \* bound: faults of all kinds together

FaultKind == {"slow", "crash"}

ASSUME HomeAssumption == Home \in [Sender -> Instance]
ASSUME LimitAssumption == MaxAttempts \in Nat \ {0} /\ Batch \in Nat \ {0}
ASSUME FaultsAssumption == Faults \subseteq FaultKind /\ MaxFaults \in Nat

Token == [owner : Instance, attempt : Nat]
ASSUME NoneAssumption == None \notin Token \cup Delivery

Ready == {"WAITING_CONFIGURATION", "PENDING", "RETRY"}
Settled == {"ACCEPTED", "FAILED"}
Status == {"ABSENT", "IN_PROGRESS"} \cup Ready \cup Settled

\* lease_owner_id and lease_token; live: lease_expires_at is ahead; due:
\* next_attempt_at is NULL or past.
Row ==
    [status : Status, attempts : Nat, token : Token \cup {None},
     live : BOOLEAN, due : BOOLEAN]

\* What _send makes of the exchange.
Answer == {"accepted", "retryable", "rejected"}

Receipt ==
    [delivery : Delivery, attempt : Nat,
     status : {"NOT_ATTEMPTED", "ACCEPTED", "RETRY", "FAILED"}]

Control ==
    {"idle", "unsent", "enqueued", "claimed", "ready", "posted", "taken",
     "answered", "recorded"}

VARIABLES
    configured,  \* whether an instance was started with a gateway URL
    table,       \* integration_outbox
    receipts,    \* the delivery receipts in the lineage, in order
    taken,       \* what the gateway has taken
    pc,          \* where each sender is
    batch,       \* the deliveries it claimed and has not done with
    held,        \* the attempt and the token it read for each
    cur,         \* the one it is sending
    answer,      \* what came of it
    faults       \* faults so far

local == <<pc, batch, held, cur, answer>>
vars == <<configured, table, receipts, taken, local, faults>>

NotHeld == [attempts |-> 0, token |-> None]

Init ==
    /\ configured \in [Instance -> BOOLEAN]
    /\ table = [d \in Delivery |->
                  [status |-> "ABSENT", attempts |-> 0, token |-> None,
                   live |-> FALSE, due |-> TRUE]]
    /\ receipts = <<>>
    /\ taken = {}
    /\ pc = [s \in Sender |-> "idle"]
    /\ batch = [s \in Sender |-> {}]
    /\ held = [s \in Sender |-> [d \in Delivery |-> NotHeld]]
    /\ cur = [s \in Sender |-> None]
    /\ answer = [s \in Sender |-> None]
    /\ faults = 0

Goto(s, l) == pc' = [pc EXCEPT ![s] = l]

\* The coroutine ends: it returned, it raised, or its process died.
Leave(s) ==
    /\ Goto(s, "idle")
    /\ batch' = [batch EXCEPT ![s] = {}]
    /\ held' = [held EXCEPT ![s] = [d \in Delivery |-> NotHeld]]
    /\ cur' = [cur EXCEPT ![s] = None]
    /\ answer' = [answer EXCEPT ![s] = None]

-----------------------------------------------------------------------------
(* Publishing and claiming.                                                 *)

\* publish: the package is in the depository; its row is committed before any
\* network I/O.
Enqueue(s, d) ==
    /\ pc[s] = "idle"
    /\ table[d].status = "ABSENT"
    /\ table' = [table EXCEPT ![d].status =
                   IF configured[Home[s]] THEN "PENDING"
                                          ELSE "WAITING_CONFIGURATION"]
    /\ Goto(s, IF configured[Home[s]] THEN "enqueued" ELSE "unsent")
    /\ batch' = [batch EXCEPT ![s] = {d}]
    /\ UNCHANGED <<configured, receipts, taken, held, cur, answer, faults>>

\* publish without a gateway: only a receipt that says so.
ReceiptNotAttempted(s) ==
    /\ pc[s] = "unsent"
    /\ \E d \in batch[s] :
          receipts' = Append(receipts,
              [delivery |-> d, attempt |-> 0, status |-> "NOT_ATTEMPTED"])
    /\ Leave(s)
    /\ UNCHANGED <<configured, table, taken, faults>>

\* Mutant of Claimable: a delivery that failed is tried again.
ClaimableFailed(d) ==
    \/ table[d].status \in Ready \cup {"FAILED"} /\ table[d].due
    \/ table[d].status = "IN_PROGRESS" /\ ~table[d].live

\* Mutant of Claimable: an expired lease is not taken over.
ClaimableReady(d) == table[d].status \in Ready /\ table[d].due

Claimable(d) ==
    \/ table[d].status \in Ready /\ table[d].due
    \/ table[d].status = "IN_PROGRESS" /\ ~table[d].live

\* claim_integration_deliveries, up to its COMMIT.  The token hashes the
\* instance and the attempt, which no two claims of a row share.
Claim(s, D) ==
    /\ table' = [d \in Delivery |->
                   IF d \in D
                     THEN [table[d] EXCEPT
                             !.status = "IN_PROGRESS",
                             !.attempts = table[d].attempts + 1,
                             !.token = [owner |-> Home[s],
                                        attempt |-> table[d].attempts + 1],
                             !.live = TRUE]
                     ELSE table[d]]
    /\ batch' = [batch EXCEPT ![s] = D]
    /\ Goto(s, "claimed")
    /\ UNCHANGED <<held, cur, answer>>

\* publish claims its own row; a sweep may have been faster.
ClaimPublished(s) ==
    /\ pc[s] = "enqueued"
    /\ IF \E d \in batch[s] : Claimable(d)
         THEN Claim(s, batch[s])
         ELSE Leave(s) /\ UNCHANGED table
    /\ UNCHANGED <<configured, receipts, taken, faults>>

Due == {d \in Delivery : Claimable(d)}

\* process_pending claims as many due rows as the batch admits.
Sweep(s) ==
    /\ pc[s] = "idle"
    /\ configured[Home[s]]
    /\ \E D \in SUBSET Due :
          /\ D # {}
          /\ Cardinality(D) = IF Cardinality(Due) < Batch
                                THEN Cardinality(Due) ELSE Batch
          /\ Claim(s, D)
    /\ UNCHANGED <<configured, receipts, taken, faults>>

\* After its COMMIT the claim reads its rows again, one by one: the attempt and
\* the token are whatever each holds by then.
ReadClaim(s) ==
    /\ pc[s] = "claimed"
    /\ \E d \in batch[s] :
          /\ held[s][d] = NotHeld
          /\ held' = [held EXCEPT ![s][d] = [attempts |-> table[d].attempts,
                                            token |-> table[d].token]]
          /\ Goto(s, IF \E e \in batch[s] \ {d} : held[s][e] = NotHeld
                       THEN "claimed" ELSE "ready")
    /\ UNCHANGED <<configured, table, receipts, taken, batch, cur, answer,
                   faults>>

-----------------------------------------------------------------------------
(* One delivery.                                                            *)

\* _send posts the request ...
Post(s) ==
    /\ pc[s] = "ready"
    /\ \E d \in batch[s] : cur' = [cur EXCEPT ![s] = d]
    /\ Goto(s, "posted")
    /\ UNCHANGED <<configured, table, receipts, taken, batch, held, answer,
                   faults>>

\* ... the gateway may take it ...
GatewayTakes(s) ==
    /\ pc[s] = "posted"
    /\ taken' = taken \cup {cur[s]}
    /\ Goto(s, "taken")
    /\ UNCHANGED <<configured, table, receipts, batch, held, cur, answer, faults>>

\* ... and _send classifies what comes back.  A timeout, a 5xx or an answer out
\* of contract may come of a request that was taken all the same.
Respond(s, a) ==
    /\ pc[s] \in {"posted", "taken"}
    /\ a = "accepted" => pc[s] = "taken"
    /\ answer' = [answer EXCEPT ![s] = a]
    /\ Goto(s, "answered")
    /\ UNCHANGED <<configured, table, receipts, taken, batch, held, cur, faults>>

\* Mutant of Verdict: the limit is off by one.
VerdictLate(s) ==
    IF answer[s] = "accepted" THEN "ACCEPTED"
    ELSE IF answer[s] = "retryable" /\ held[s][cur[s]].attempts <= MaxAttempts
      THEN "RETRY"
    ELSE "FAILED"

\* _deliver_claimed: what becomes of the row.
Verdict(s) ==
    IF answer[s] = "accepted" THEN "ACCEPTED"
    ELSE IF answer[s] = "retryable" /\ held[s][cur[s]].attempts < MaxAttempts
      THEN "RETRY"
    ELSE "FAILED"

\* Mutant of Fenced: the row is found by its identity alone.
FencedById(s) == table[cur[s]].status # "ABSENT"

\* The WHERE clause of complete_integration_delivery.
Fenced(s) ==
    LET r == table[cur[s]] IN
    /\ r.status = "IN_PROGRESS"
    /\ r.token = held[s][cur[s]].token
    /\ r.token.owner = Home[s]

\* Mutant of Record: the conflict is swallowed.
RecordRegardless(s) ==
    /\ pc[s] = "answered"
    /\ table' = IF Fenced(s)
                  THEN [table EXCEPT ![cur[s]] =
                          [@ EXCEPT !.status = Verdict(s), !.token = None,
                                    !.live = FALSE, !.due = Verdict(s) # "RETRY"]]
                  ELSE table
    /\ Goto(s, "recorded")
    /\ UNCHANGED <<configured, receipts, taken, batch, held, cur, answer, faults>>

\* complete_integration_delivery: a conflict is raised through the whole batch.
Record(s) ==
    /\ pc[s] = "answered"
    /\ IF Fenced(s)
         THEN /\ table' = [table EXCEPT ![cur[s]] =
                             [@ EXCEPT !.status = Verdict(s), !.token = None,
                                       !.live = FALSE,
                                       !.due = Verdict(s) # "RETRY"]]
              /\ Goto(s, "recorded")
              /\ UNCHANGED <<batch, held, cur, answer>>
         ELSE Leave(s) /\ UNCHANGED table
    /\ UNCHANGED <<configured, receipts, taken, faults>>

\* _persist_receipt, and on to the rest of the batch.
PersistReceipt(s) ==
    /\ pc[s] = "recorded"
    /\ receipts' = Append(receipts,
                     [delivery |-> cur[s], attempt |-> held[s][cur[s]].attempts,
                      status |-> Verdict(s)])
    /\ IF batch[s] = {cur[s]}
         THEN Leave(s)
         ELSE /\ Goto(s, "ready")
              /\ batch' = [batch EXCEPT ![s] = batch[s] \ {cur[s]}]
              /\ held' = [held EXCEPT ![s][cur[s]] = NotHeld]
              /\ cur' = [cur EXCEPT ![s] = None]
              /\ answer' = [answer EXCEPT ![s] = None]
    /\ UNCHANGED <<configured, table, taken, faults>>

-----------------------------------------------------------------------------
(* Time, configuration and faults.                                          *)

\* A sender is at work on d.
Busy(d) ==
    \E s \in Sender : pc[s] \notin {"idle", "unsent", "enqueued"} /\ d \in batch[s]

Lapse(d) ==
    /\ table[d].status = "IN_PROGRESS"
    /\ table[d].live
    /\ table' = [table EXCEPT ![d].live = FALSE]
    /\ UNCHANGED <<configured, receipts, taken, local>>

\* The lease of a sender that is gone, or that gave its batch up, runs out.
LeaseLapses(d) ==
    /\ ~Busy(d)
    /\ Lapse(d)
    /\ UNCHANGED faults

\* The lease runs out under a sender that is still at work.
LeaseOverrun(d) ==
    /\ Busy(d)
    /\ "slow" \in Faults
    /\ faults < MaxFaults
    /\ faults' = faults + 1
    /\ Lapse(d)

BackoffEnds(d) ==
    /\ table[d].status = "RETRY"
    /\ ~table[d].due
    /\ table' = [table EXCEPT ![d].due = TRUE]
    /\ UNCHANGED <<configured, receipts, taken, local, faults>>

\* An instance is started again, with a gateway URL.
Configure(i) ==
    /\ ~configured[i]
    /\ \A s \in Sender : Home[s] = i => pc[s] = "idle"
    /\ configured' = [configured EXCEPT ![i] = TRUE]
    /\ UNCHANGED <<table, receipts, taken, local, faults>>

\* The process dies, the coroutine is cancelled, or the store raises.
Crash(s) ==
    /\ "crash" \in Faults
    /\ faults < MaxFaults
    /\ faults' = faults + 1
    /\ pc[s] # "idle"
    /\ Leave(s)
    /\ UNCHANGED <<configured, table, receipts, taken>>

-----------------------------------------------------------------------------

\* What a sender that has begun does by itself.
Step(s) ==
    \/ ReceiptNotAttempted(s) \/ ClaimPublished(s) \/ ReadClaim(s) \/ Post(s)
    \/ GatewayTakes(s) \/ \E a \in Answer : Respond(s, a)
    \/ Record(s) \/ PersistReceipt(s)

Next ==
    \/ \E s \in Sender : \/ \E d \in Delivery : Enqueue(s, d)
                         \/ Sweep(s) \/ Step(s) \/ Crash(s)
    \/ \E d \in Delivery : LeaseLapses(d) \/ LeaseOverrun(d) \/ BackoffEnds(d)
    \/ \E i \in Instance : Configure(i)

Spec == Init /\ [][Next]_vars

\* The event loops run what has begun and httpx bounds every exchange; time
\* passes; the supervisor sweeps at every maintenance interval.
FairSpec ==
    /\ Spec
    /\ \A s \in Sender : WF_vars(Step(s))
    /\ \A d \in Delivery : WF_vars(LeaseLapses(d)) /\ WF_vars(BackoffEnds(d))
    /\ WF_vars(\E s \in Sender : Sweep(s))

-----------------------------------------------------------------------------
(* Properties.                                                              *)

\* The rows, the receipts and the locals of the senders have their types.
TypeOK ==
    /\ configured \in [Instance -> BOOLEAN]
    /\ table \in [Delivery -> Row]
    /\ receipts \in Seq(Receipt)
    /\ taken \subseteq Delivery
    /\ pc \in [Sender -> Control]
    /\ batch \in [Sender -> SUBSET Delivery]
    /\ held \in [Sender -> [Delivery -> [attempts : Nat, token : Token \cup {None}]]]
    /\ cur \in [Sender -> Delivery \cup {None}]
    /\ answer \in [Sender -> Answer \cup {None}]
    /\ faults \in Nat

\* "Each attempt is lease-fenced so an expired worker cannot overwrite a peer's
\* later result": a settled delivery stays as it is.
SettledFinal ==
    [][\A d \in Delivery : table[d].status \in Settled
                             => table'[d] = table[d]]_vars

\* A receipt in the lineage is the truth about the row: an acceptance, or a
\* final failure, is never followed by another outcome.
SettlingReceiptHolds ==
    \A i \in 1..Len(receipts) :
        receipts[i].status \in Settled
          => table[receipts[i].delivery].status = receipts[i].status

\* Each attempt leaves at most one receipt, though two senders may have sent it.
OneReceiptPerAttempt ==
    \A i, j \in 1..Len(receipts) :
        /\ receipts[i].delivery = receipts[j].delivery
        /\ receipts[i].attempt = receipts[j].attempt
        /\ receipts[i].attempt # 0
        => i = j

\* The attempts of a delivery exceed the limit only by the leases that were
\* lost, to a crash or to a batch that outlasted them.
AttemptsPaid ==
    \A d \in Delivery : table[d].attempts <= MaxAttempts + faults

\* Whatever crashes and however slow the senders, a handover is settled once
\* some instance is started with a gateway.
EverySettled ==
    \A d \in Delivery :
        ((\E i \in Instance : configured[i]) /\ table[d].status # "ABSENT")
            ~> table[d].status \in Settled

-----------------------------------------------------------------------------
(* The inductive invariant behind the properties and Implements             *)
(* (OutboxProofs).                                                          *)

Sending == {"posted", "taken", "answered", "recorded"}

\* A sender works on rows that exist; publish works on one; what it sends is in
\* its batch, and it takes for accepted only what the gateway took.
InOrder(s) ==
    /\ \A d \in batch[s] : table[d].status # "ABSENT"
    /\ pc[s] \in {"unsent", "enqueued"} => \E d \in Delivery : batch[s] = {d}
    /\ pc[s] \in Sending => cur[s] \in batch[s]
    /\ pc[s] = "taken" => cur[s] \in taken
    /\ pc[s] \in {"answered", "recorded"} =>
          answer[s] \in Answer /\ (answer[s] = "accepted" => cur[s] \in taken)

SenderOK == \A s \in Sender : InOrder(s)

\* The token of a claimed row, and a token that was read, tell the attempt.
LeaseOK ==
    /\ \A d \in Delivery :
          /\ table[d].status = "IN_PROGRESS" => table[d].token # None
          /\ table[d].token # None =>
                /\ table[d].token.attempt = table[d].attempts
                /\ table[d].attempts > 0
    /\ \A s \in Sender, d \in Delivery : held[s][d].token # None =>
          held[s][d].attempts = held[s][d].token.attempt

\* Attempt n of d is over: the row has moved on from it.
Over(d, n) ==
    /\ n <= table[d].attempts
    /\ table[d].status = "IN_PROGRESS" => n < table[d].attempts

\* The attempt whose outcome s has recorded and not yet noted in the lineage.
Pending(s) == held[s][cur[s]].attempts

Noted(d, n) ==
    \E i \in 1..Len(receipts) :
        receipts[i].delivery = d /\ receipts[i].attempt = n

\* Only attempts that are over have an outcome, and each has one.
OutcomeOK ==
    /\ \A i \in 1..Len(receipts) : Over(receipts[i].delivery, receipts[i].attempt)
    /\ \A s \in Sender : pc[s] = "recorded" =>
          /\ Pending(s) > 0 /\ Over(cur[s], Pending(s))
          /\ ~Noted(cur[s], Pending(s))
          /\ \A t \in Sender :
                pc[t] = "recorded" /\ cur[t] = cur[s] /\ Pending(t) = Pending(s)
                    => t = s

\* A verdict that settles the delivery is the one its row has.
VerdictOK ==
    \A s \in Sender : pc[s] = "recorded" /\ Verdict(s) \in Settled
                        => table[cur[s]].status = Verdict(s)

IInv ==
    /\ TypeOK /\ SenderOK /\ LeaseOK /\ OutcomeOK /\ VerdictOK
    /\ OneReceiptPerAttempt /\ SettlingReceiptHolds

-----------------------------------------------------------------------------
(* The outbox implements Handover.                                          *)

Phase(status) ==
    CASE status = "ABSENT" -> "absent"
      [] status = "ACCEPTED" -> "accepted"
      [] status = "FAILED" -> "failed"
      [] OTHER -> "open"

Promise ==
    INSTANCE Handover WITH phase <- [d \in Delivery |-> Phase(table[d].status)],
                           taken <- taken

\* Sent at least once, ACCEPTED only if taken, settled for good.
Implements == Promise!Spec
=============================================================================
