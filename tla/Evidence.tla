------------------------------ MODULE Evidence ------------------------------
(***************************************************************************)
(* The evidence of a dispatch: what CompanionRuntime.dispatch records when it *)
(* has an outcome (reconstruction.py, depository.py, the tables of store.py), *)
(* its projection to TANTRA (tantra_handover.py) and to BHIV                  *)
(* (bhiv_integrations.py), the validation of an exported package, and the     *)
(* maintenance cycle that judges it all (continuity.py).                      *)
(*                                                                         *)
(* A dispatch is recorded by its own coroutine, one transaction after another; *)
(* sweeps of the outbox append receipts to the same lineage meanwhile.        *)
(*                                                                         *)
(* Abstractions.  A hash is what it hashes.  The fifteen types of component    *)
(* are four: "world" stands for the twelve that no dispatch shares.  An        *)
(* artifact other than a component is its lineage entry: it is put just before *)
(* and read through it.  The leases of the outbox are in Outbox.               *)
(***************************************************************************)
EXTENDS Naturals, Sequences, FiniteSets, SequencesExt, FiniteSetsExt

CONSTANTS
    Dispatches,      \* number of dispatches
    Answers,         \* what the transport may answer to each: a subset of AnswerKind
    Trace,           \* their trace ids; dispatches of one correlation id share it
    ReconcileLimit,  \* limit of reconcile_tantra_traces (20)
    ScanLimit,       \* runtime_continuity_dispatch_limit (25)
    MaxAttempts,     \* tantra_delivery_max_attempts
    Faults,          \* the faults that may strike: a subset of FaultKind
    MaxFaults,       \* bound: faults of all kinds together
    None

Dispatch == 1..Dispatches  \* in the order of created_at

\* No answer, content of its own, or the envelope that it was sent.
AnswerKind == {None, "own", "envelope"}
FaultKind == {"crash", "detach", "gateway"}

ASSUME DispatchAssumption == Dispatches \in Nat \ {0} /\ DOMAIN Trace = Dispatch
ASSUME AnswerAssumption == Answers \in [Dispatch -> SUBSET AnswerKind \ {{}}]
ASSUME LimitAssumption ==
    ReconcileLimit \in Nat \ {0} /\ ScanLimit \in Nat \ {0}
    /\ MaxAttempts \in Nat \ {0} /\ MaxFaults \in Nat
ASSUME FaultAssumption == Faults \subseteq FaultKind

\* Component types, in the order in which record_dispatch puts them.
Kinds == <<"receipt", "request", "response", "world">>
Kind == Range(Kinds)

\* The component of type kind that dispatch of produces; {} of a dispatch
\* without a response.
Content == [of : Dispatch, kind : Kind]
Empty == [of |-> 0, kind |-> "response"]

\* What the lineage of a dispatch records.
Record == {"snapshot", "package", "receipt", "convergence"}

\* What an entry's chain_hash is made of besides its parent: whose subject it is
\* of, and what it records.
Link == [of : Dispatch, type : Record]

\* parent: parent_chain_hash, that is all that was chained before.
Entry == [of : Dispatch, type : Record, parent : Seq(Link)]

Verdict == {"failed", "attention", "healthy"}

VARIABLES
    status,     \* the status of each row of dispatches
    answer,     \* what the transport answered
    pc,         \* where the coroutine of each dispatch is
    artifacts,  \* central_artifacts: the type of the components stored
    snapshot,   \* the reconstruction snapshot of each dispatch
    lineage,    \* central_lineage of each dispatch
    queue,      \* integration_outbox: the dispatches with a delivery, oldest first
    row,        \* status and attempts of the delivery of each
    owed,       \* deliveries whose outcome has no receipt yet
    observed,   \* the latest observation of each trace
    cycle,      \* what the maintenance cycle does next
    report,     \* the verdicts of the latest continuity snapshot
    faults      \* faults so far

recorder == <<status, answer, pc, artifacts, snapshot>>
outbox == <<queue, row, owed>>
monitor == <<observed, cycle, report>>
vars == <<recorder, lineage, outbox, monitor, faults>>

Terminal == {"COMPLETED", "FAILED"}
Control ==
    {"new", "transport", "settled", "stored", "rooted", "recorded", "projected",
     "queued", "converge", "done", "dead"}

Unsent == [status |-> "ABSENT", attempts |-> 0]

Init ==
    /\ status = [d \in Dispatch |-> "ABSENT"]
    /\ answer = [d \in Dispatch |-> None]
    /\ pc = [d \in Dispatch |-> "new"]
    /\ artifacts = <<>>
    /\ snapshot = [d \in Dispatch |-> None]
    /\ lineage = [d \in Dispatch |-> <<>>]
    /\ queue = <<>>
    /\ row = [d \in Dispatch |-> Unsent]
    /\ owed = {}
    /\ observed = [t \in Range(Trace) |-> None]
    /\ cycle = "reconcile"
    /\ report = <<>>
    /\ faults = 0

Goto(d, l) == pc' = [pc EXCEPT ![d] = l]

-----------------------------------------------------------------------------
(* Recording.                                                               *)

\* create_dispatch, and the phases up to the transport.
Accept(d) ==
    /\ pc[d] = "new"
    /\ \A e \in Dispatch : e < d => pc[e] # "new"
    /\ status' = [status EXCEPT ![d] = "ACCEPTED"]
    /\ Goto(d, "transport")
    /\ UNCHANGED <<answer, artifacts, snapshot, lineage, outbox, monitor, faults>>

\* complete_dispatch.  A product may answer with the envelope it was sent, which
\* is what the dispatch stores as its request.
Settle(d) ==
    /\ pc[d] = "transport"
    /\ \E a \in Answers[d] :
          /\ answer' = [answer EXCEPT ![d] = a]
          /\ status' = [status EXCEPT ![d] =
                          IF a = None THEN "FAILED" ELSE "COMPLETED"]
    /\ Goto(d, "settled")
    /\ UNCHANGED <<artifacts, snapshot, lineage, outbox, monitor, faults>>

\* The component of type k of d.
Component(d, k) ==
    CASE k = "response" /\ answer[d] = None -> Empty
      [] k = "response" /\ answer[d] = "envelope" -> [of |-> d, kind |-> "request"]
      [] OTHER -> [of |-> d, kind |-> k]

Recorded(d) == [k \in Kind |-> Component(d, k)]

\* put_central_artifacts: ON CONFLICT(artifact_hash) DO NOTHING, within the
\* batch too.
TypeOf(c, d) ==
    IF c \in DOMAIN artifacts
      THEN artifacts[c]
      ELSE Kinds[Min({i \in 1..Len(Kinds) : Component(d, Kinds[i]) = c})]

\* put_many of the components, one transaction.  What is detached by now
\* registers no intents, and the recording raises before it.
PutComponents(d) ==
    /\ pc[d] = "settled"
    /\ artifacts' = [c \in DOMAIN artifacts \cup Range(Recorded(d)) |-> TypeOf(c, d)]
    /\ Goto(d, "stored")
    /\ UNCHANGED <<status, answer, snapshot, lineage, outbox, monitor, faults>>

\* The snapshot refers to the components under the types they are stored with,
\* and to request and response besides.
PutSnapshot(d) ==
    /\ pc[d] = "stored"
    /\ snapshot' = [snapshot EXCEPT ![d] =
          [dispatch |-> d,
           refs |-> [k \in {artifacts[c] : c \in Range(Recorded(d))} |->
                       CHOOSE c \in Range(Recorded(d)) : artifacts[c] = k],
           request |-> Component(d, "request"),
           response |-> Component(d, "response")]]
    /\ Goto(d, "rooted")
    /\ UNCHANGED <<status, answer, artifacts, lineage, outbox, monitor, faults>>

\* The chain_hash of an entry, and of the last one.
Linked(e) == Append(e.parent, [of |-> e.of, type |-> e.type])
ChainHash(L) == IF L = <<>> THEN <<>> ELSE Linked(Last(L))

\* Mutant of Chain: the parent is the first entry of the subject.
ChainFirst(d, type) ==
    lineage' = [lineage EXCEPT ![d] = Append(@,
                  [of |-> d, type |-> type,
                   parent |-> ChainHash(SubSeq(@, 1, Min({1, Len(@)})))])]

\* append_central_lineage: the parent is read in the transaction that inserts.
Chain(d, type) ==
    lineage' = [lineage EXCEPT ![d] =
                  Append(@, [of |-> d, type |-> type, parent |-> ChainHash(@)])]

AppendSnapshot(d) ==
    /\ pc[d] = "rooted"
    /\ Chain(d, "snapshot")
    /\ Goto(d, "recorded")
    /\ UNCHANGED <<status, answer, artifacts, snapshot, outbox, monitor, faults>>

-----------------------------------------------------------------------------
(* Verification.                                                            *)

\* package: what the depository holds of d, as it is exported.
Package(d) ==
    [hash |-> snapshot[d], snapshot |-> snapshot[d], components |-> snapshot[d].refs,
     lineage |-> lineage[d]]

Available(d) == \E i \in DOMAIN lineage[d] : lineage[d][i].type = "snapshot"

\* _verify_lineage, in the order of sequence.  No entry at all passes; neither is
\* the root looked for among them, nor their subject compared with the snapshot's
\* dispatch.
Chained(L) ==
    \A i \in DOMAIN L : L[i].parent = IF i = 1 THEN <<>> ELSE Linked(L[i - 1])

\* Mutant of Intact: a component is checked by the reference it came with.
IntactByReference(p) == DOMAIN p.snapshot.refs \subseteq DOMAIN p.components

\* component-hash and component-reference, over the components expected.
Intact(p) ==
    \A k \in DOMAIN p.snapshot.refs :
        k \in DOMAIN p.components /\ p.components[k] = p.snapshot.refs[k]

\* A component, or {} in its place.
Held(p, k) == IF k \in DOMAIN p.components THEN p.components[k] ELSE Empty

\* replay-scope: every scope has its components.
Covered(p) == Kind \subseteq DOMAIN p.components

\* verify_portable_artifacts, and the fidelity of what is reconstructed.
Verified(p) ==
    /\ p.hash = p.snapshot
    /\ Intact(p)
    /\ Held(p, "request") = p.snapshot.request
    /\ Held(p, "response") = p.snapshot.response
    /\ Covered(p)
    /\ Chained(p.lineage)
    /\ Held(p, "receipt").of = p.snapshot.dispatch

Good(d) == Available(d) /\ Verified(Package(d))

-----------------------------------------------------------------------------
(* Publishing.                                                              *)

Enqueued == Range(queue)

\* The identity that the bundles of a handover share.
Identity(d) == [trace |-> Trace[d], execution |-> d]

\* What build makes of d and of package p for it: the facts of the dispatch,
EvidenceBundle(d, p) ==
    [id |-> Identity(d), request |-> Component(d, "request"),
     response |-> Component(d, "response"), package |-> p.hash,
     lineage |-> p.lineage]

\* its nodes,
LineageBundle(d, p) ==
    [id |-> Identity(d), lineage |-> p.lineage,
     nodes |-> <<Component(d, "request"), p.hash, Component(d, "response")>>]

\* the execution beside its reconstruction,
ReplayBundle(d, p) ==
    [id |-> Identity(d), original |-> Component(d, "response"),
     replayed |-> Held(p, "response"), package |-> p]

\* and the hashes of the three.  package_hash is of all four.
Build(d, p) ==
    LET items == [evidence |-> EvidenceBundle(d, p), lineage |-> LineageBundle(d, p),
                  replay |-> ReplayBundle(d, p)]
    IN  [evidence |-> items.evidence, lineage |-> items.lineage,
         replay |-> items.replay, handover |-> [id |-> Identity(d), items |-> items]]

\* The bundles name one trace and one execution.
Continuous(h) == \A name \in DOMAIN h : h[name].id = h.evidence.id

\* Mutant of Wired: the replay bundle, which has a check of its own, is left out.
WiredTwo(h) ==
    \A name \in {"evidence", "lineage"} : h.handover.items[name] = h[name]

\* Each item of the handover bundle has the hash of its bundle.
Wired(h) ==
    \A name \in {"evidence", "lineage", "replay"} : h.handover.items[name] = h[name]

\* validate; the hash of a package that is made anew always fits.
Valid(h) ==
    /\ Continuous(h)
    /\ Wired(h)
    /\ Verified(h.replay.package)
    /\ h.replay.original = h.replay.replayed

\* publish: the error of build or of validate is caught, and the dispatch goes on
\* without a handover.
Project(d) ==
    /\ pc[d] = "recorded"
    /\ IF Good(d) /\ Valid(Build(d, Package(d)))
         THEN Chain(d, "package") /\ Goto(d, "projected")
         ELSE Goto(d, "converge") /\ UNCHANGED lineage
    /\ UNCHANGED <<status, answer, artifacts, snapshot, outbox, monitor, faults>>

\* enqueue_integration_delivery, with a gateway configured.
Enqueue(d) ==
    /\ pc[d] = "projected"
    /\ queue' = Append(queue, d)
    /\ row' = [row EXCEPT ![d].status = "OPEN"]
    /\ Goto(d, "queued")
    /\ UNCHANGED <<status, answer, artifacts, snapshot, lineage, owed, monitor,
                   faults>>

Strike(kind) ==
    /\ kind \in Faults
    /\ faults < MaxFaults
    /\ faults' = faults + 1

\* One exchange with the gateway and its outcome: publish's own, or a sweep's.
\* A gateway that is down costs an attempt.
Deliver(d) ==
    LET n == row[d].attempts + 1 IN
    /\ row[d].status = "OPEN"
    /\ d \notin owed
    /\ \/ /\ row' = [row EXCEPT ![d] = [status |-> "ACCEPTED", attempts |-> n]]
          /\ UNCHANGED faults
       \/ /\ Strike("gateway")
          /\ row' = [row EXCEPT ![d] =
                       [status |-> IF n < MaxAttempts THEN "OPEN" ELSE "FAILED",
                        attempts |-> n]]
    /\ owed' = owed \cup {d}
    /\ UNCHANGED <<recorder, lineage, queue, monitor>>

\* _persist_receipt, by whoever delivered.
PersistReceipt(d) ==
    /\ d \in owed
    /\ owed' = owed \ {d}
    /\ Chain(d, "receipt")
    /\ UNCHANGED <<recorder, queue, row, monitor, faults>>

\* publish returns with its own delivery done, or claimed by a sweep.
Published(d) ==
    /\ pc[d] = "queued"
    /\ Goto(d, "converge")
    /\ UNCHANGED <<status, answer, artifacts, snapshot, lineage, outbox, monitor,
                   faults>>

\* publish_dispatch of the BHIV integrations: nothing is sent to the owners.
Converge(d) ==
    /\ pc[d] = "converge"
    /\ Chain(d, "convergence")
    /\ Goto(d, "done")
    /\ UNCHANGED <<status, answer, artifacts, snapshot, outbox, monitor, faults>>

-----------------------------------------------------------------------------
(* The maintenance cycle.                                                   *)

\* list_dispatches, newest first and cut off, and only then filtered.
ToScan ==
    {d \in Dispatch :
        /\ status[d] \in Terminal
        /\ Cardinality({e \in Dispatch : e > d /\ status[e] # "ABSENT"}) < ScanLimit}

\* list_integration_deliveries of those accepted, newest first and cut off.
ToReconcile ==
    LET A == SelectSeq(queue, LAMBDA d : row[d].status = "ACCEPTED")
    IN  {A[i] : i \in {j \in DOMAIN A : j > Len(A) - ReconcileLimit}}

\* Mutant of Reconcile: a trace that was observed is not fetched again.
ReconcileOnce ==
    /\ cycle = "reconcile"
    /\ \/ /\ observed' = [t \in DOMAIN observed |->
                            IF /\ observed[t] = None
                               /\ \E d \in ToReconcile : Trace[d] = t
                              THEN "healthy" ELSE observed[t]]
          /\ UNCHANGED faults
       \/ /\ Strike("gateway")
          /\ \E d \in ToReconcile :
                observed' = [observed EXCEPT ![Trace[d]] = "unhealthy"]
    /\ cycle' = "scan"
    /\ UNCHANGED <<recorder, lineage, outbox, report>>

\* The sweep is over; reconcile_tantra_traces fetches the traces it lists and
\* observes what it got.
Reconcile ==
    /\ cycle = "reconcile"
    /\ \/ /\ observed' = [t \in DOMAIN observed |->
                            IF \E d \in ToReconcile : Trace[d] = t THEN "healthy"
                                                               ELSE observed[t]]
          /\ UNCHANGED faults
       \/ /\ Strike("gateway")
          /\ \E d \in ToReconcile :
                observed' = [observed EXCEPT ![Trace[d]] = "unhealthy"]
    /\ cycle' = "scan"
    /\ UNCHANGED <<recorder, lineage, outbox, report>>

\* accepted-trace-reconciliation fails: the latest observation is bad.
TraceLost(d) == row[d].status = "ACCEPTED" /\ observed[Trace[d]] = "unhealthy"

\* inspect_dispatch.
Judge(d) ==
    IF ~Good(d) \/ row[d].status \in {"ABSENT", "FAILED"} \/ TraceLost(d)
      THEN "failed"
    ELSE IF row[d].status = "OPEN" \/ observed[Trace[d]] = None
      THEN "attention"
    ELSE "healthy"

\* scan inspects one dispatch after the other and records the verdicts at the end.
Scan ==
    /\ cycle = "scan"
    /\ report' = [d \in ToScan |-> Judge(d)]
    /\ cycle' = "reconcile"
    /\ UNCHANGED <<recorder, lineage, outbox, observed, faults>>

-----------------------------------------------------------------------------
(* Faults.                                                                  *)

\* The product is detached by now: router.register raises out of the recording.
RaiseDetached(d) ==
    /\ Strike("detach")
    /\ pc[d] = "settled"
    /\ Goto(d, "dead")
    /\ UNCHANGED <<status, answer, artifacts, snapshot, lineage, outbox, monitor>>

\* The process dies.  Nothing takes the recording of a dispatch up again.
Crash ==
    /\ Strike("crash")
    /\ pc' = [d \in Dispatch |-> IF pc[d] \in {"new", "done"} THEN pc[d] ELSE "dead"]
    /\ owed' = {}
    /\ cycle' = "reconcile"
    /\ UNCHANGED <<status, answer, artifacts, snapshot, lineage, queue, row, observed,
                   report>>

-----------------------------------------------------------------------------

\* What a dispatch that has begun does by itself.
Step(d) ==
    \/ Settle(d) \/ PutComponents(d) \/ PutSnapshot(d) \/ AppendSnapshot(d)
    \/ Project(d) \/ Enqueue(d) \/ Published(d) \/ Converge(d)

Handover(d) == Deliver(d) \/ PersistReceipt(d)
Maintain == Reconcile \/ Scan

Next ==
    \/ \E d \in Dispatch : Accept(d) \/ Step(d) \/ Handover(d) \/ RaiseDetached(d)
    \/ Maintain
    \/ Crash

\* The event loop runs what has begun, the sweeps come back to what is due, and
\* the maintenance cycle is repeated at its interval.
Spec ==
    /\ Init /\ [][Next]_vars
    /\ \A d \in Dispatch : WF_vars(Step(d)) /\ WF_vars(Handover(d))
    /\ WF_vars(Maintain)

-----------------------------------------------------------------------------
(* Properties.                                                              *)

\* What is wrong with a copy of a package: a component lost or another in its
\* place, the snapshot of another dispatch, an entry of the lineage lost or
\* another in its place (no chain either, if it is of another sequence and sorted),
\* the lineage of another dispatch.
Damaged(d) ==
    LET p == Package(d)
        c == p.components
        Every == [of : Dispatch, kind : Kind] \cup {Empty}
    IN  {[p EXCEPT !.components = [k \in DOMAIN c \ {x} |-> c[k]]] : x \in DOMAIN c}
        \cup {[p EXCEPT !.components[x] = y] : x \in DOMAIN c, y \in Every}
        \cup {[p EXCEPT !.snapshot = snapshot[e]] :
                e \in {f \in Dispatch : snapshot[f] # None}}
        \cup {[p EXCEPT !.lineage = RemoveAt(p.lineage, i)] : i \in DOMAIN p.lineage}
        \cup {[p EXCEPT !.lineage[i] = y] :
                i \in DOMAIN p.lineage, y \in UNION {Range(lineage[e]) : e \in Dispatch}}
        \cup {[p EXCEPT !.lineage = lineage[e]] : e \in Dispatch}

\* "Clean-state validation reads no runtime database"
\* (docs/FEEDBACK_ACCEPTANCE_UPGRADES.md:13): a copy that verifies under the hash
\* of a recorded dispatch has each component of that dispatch under its name, and
\* of the lineage of one dispatch a beginning.  That this is the same dispatch the
\* validation does not check.
PackageIsTrue ==
    \A d \in Dispatch : Available(d) =>
        \A p \in Damaged(d) : Verified(p) =>
            /\ p.components = Recorded(d)
            /\ \E e \in Dispatch : IsPrefix(p.lineage, lineage[e])

\* A handover is of one dispatch: put together from bundles of two, or around a
\* copy of its package that is damaged in a way that the package itself does not
\* show, such as a lineage cut short, it does not validate.
Mixed(d, e) ==
    LET h == [x \in {d, e} |-> Build(x, Package(x))]
    IN  {[name \in DOMAIN h[d] |-> h[from[name]][name]] :
            from \in [DOMAIN h[d] -> {d, e}]}

Repacked(d) ==
    LET h == Build(d, Package(d))
    IN  {[h EXCEPT !.replay.package = p] : p \in Damaged(d)}

HandoverOfOne ==
    \A d \in Dispatch : pc[d] = "recorded" /\ Good(d) =>
        LET others == {e \in Dispatch : Good(e)}
        IN  \A h \in Repacked(d) \cup UNION {Mixed(d, e) : e \in others} :
                Valid(h) => \E e \in others : h = Build(e, Package(e))

\* Evidence that verifies goes on verifying, whoever appends to the lineage of
\* the dispatch, whatever else is stored, and wherever the process dies.
VerifiedStays ==
    [][\A d \in Dispatch : Good(d) => Good(d)']_vars

\* The monitor comes to tell the truth: of a dispatch whose recording was cut off,
\* that it failed; of one that was delivered and that both windows reach, that it
\* is healthy.
CutOff(d) == pc[d] = "dead" /\ ~Available(d) /\ d \in ToScan
Delivered(d) == d \in ToReconcile /\ d \in ToScan /\ Good(d)

VerdictTrue ==
    \A d \in Dispatch :
        /\ <>[]CutOff(d) => <>[](d \in DOMAIN report /\ report[d] = "failed")
        /\ <>[]Delivered(d) => <>[](d \in DOMAIN report /\ report[d] = "healthy")

\* "Every dispatch now records an immutable ... package from durable ... request,
\* receipt, and response artifacts" (docs/FEEDBACK_ACCEPTANCE_UPGRADES.md:13): a
\* dispatch that has recorded its package has one that verifies.
RecordedVerifies ==
    \A d \in Dispatch : Available(d) => Good(d)

\* Tables, lineages and verdicts have their types.
TypeOK ==
    /\ status \in [Dispatch -> {"ABSENT", "ACCEPTED"} \cup Terminal]
    /\ answer \in [Dispatch -> AnswerKind]
    /\ pc \in [Dispatch -> Control]
    /\ DOMAIN artifacts \subseteq Content \cup {Empty} /\ Range(artifacts) \subseteq Kind
    /\ lineage \in [Dispatch -> Seq(Entry)]
    /\ Enqueued \subseteq Dispatch /\ owed \subseteq Enqueued
    /\ row \in [Dispatch -> [status : {"ABSENT", "OPEN", "ACCEPTED", "FAILED"},
                             attempts : 0..MaxAttempts]]
    /\ DOMAIN report \subseteq Dispatch /\ Range(report) \subseteq Verdict
=============================================================================
