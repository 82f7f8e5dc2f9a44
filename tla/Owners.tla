------------------------------- MODULE Owners -------------------------------
(***************************************************************************)
(* What one strict execution leaves at the owners of the TANTRA flow, however  *)
(* often it is recovered (PublishedEcosystemClient and _run_scoped of          *)
(* ecosystem.py; Raj, PRANA, Karma and the InsightFlow bridge of               *)
(* integration_services).                                                    *)
(*                                                                         *)
(* Each stage from the preflight to the Central Depository asks its owner and  *)
(* is then COMPLETED with the answer.  What an owner is asked is made of the   *)
(* answers before it.  A lost answer leaves a record at the owner and none in  *)
(* Mitra, and the call of recover that follows asks again.                     *)
(*                                                                         *)
(* Abstractions.  What an owner records is the checkpoints that it is made of,  *)
(* and the number of a record stands for its content and its hash.  The chain   *)
(* heads are in ChainHead.  A checkpoint, its artifact and its link are one       *)
(* step here, since the event loop does not turn between them; what another       *)
(* instance or a crash can do in between, the lineage and the seal of the        *)
(* replay package are in Ecosystem.                                            *)
(***************************************************************************)
EXTENDS Naturals, Sequences, FiniteSets, SequencesExt

CONSTANTS
    Worker,     \* concurrent calls of execute and recover for the execution
    Faults,     \* the faults that may strike: a subset of FaultKind
    MaxCalls,   \* bound: calls of execute and recover
    MaxFaults   \* bound: faults of all kinds together

\* lost: the answer of a request; late: it is lost and the owner gets to the
\* request afterwards; crash: of a worker; unfit: an owner's answer is not what
\* its contract says; store: recording the artifact of a stage raises; race: a
\* worker begins the stage between the COMMIT of another, of another instance, and
\* its re-read.
FaultKind == {"lost", "late", "crash", "unfit", "store", "race"}

ASSUME FaultAssumption == Faults \subseteq FaultKind
ASSUME BoundAssumption == MaxCalls \in Nat /\ MaxFaults \in Nat

\* The stages, in their order; capability-selection asks nobody.
Preflight == 1
Raj == 2
Keshav == 3
Ashmit == 4
Bucket == 5
Karma == 6
Prana == 7
Insight == 8
Central == 9
Stage == Preflight..Central

\* The probes of dependency_preflight; nobody asks Karma or InsightFlow.
Probed == {"raj", "keshav", "bucket", "ashmit", "prana", "central_depository"}

\* Where records are left: with a product, an owner, or, of the three kinds the
\* bridge tells apart, in the InsightFlow registry.
Kind == {"karma-strict", "prana-core", "execution"}
Sink == {"product", "keshav", "ashmit", "bucket", "karma", "central"} \cup Kind

StageOf(k) ==
    CASE k = "product" -> Raj
      [] k = "keshav" -> Keshav
      [] k = "ashmit" -> Ashmit
      [] k = "bucket" -> Bucket
      [] k = "karma" -> Karma
      [] k \in {"karma-strict", "prana-core"} -> Prana
      [] k = "execution" -> Insight
      [] k = "central" -> Central

\* The first request of a stage.
FirstOf(s) ==
    IF s = Prana THEN "karma-strict" ELSE CHOOSE k \in Sink : StageOf(k) = s

\* The stages whose answers are in the request.
Basis(k) ==
    CASE k = "product" -> {}
      [] k = "keshav" -> {Raj}
      [] k = "ashmit" -> {Raj, Keshav}
      [] k = "bucket" -> {Raj, Keshav, Ashmit}
      [] k = "karma" -> {Bucket}
      [] k = "karma-strict" -> {Karma}
      [] k = "prana-core" -> {}
      [] k = "execution" -> {Raj, Keshav, Ashmit, Bucket, Karma}
      [] k = "central" -> Raj..Insight

\* of: the result of each stage it is made of; fails: of the product, that it
\* ended in an error.
Record == [of : [Stage -> Nat], fails : BOOLEAN]

Status == {"NONE", "RUNNING", "COMPLETED", "FAILED"}
Control ==
    {"idle", "ready", "begun", "asking", "lookup", "create", "answered", "refused"}

\* A request is with its owner or on its way.
Asking == {"asking", "lookup", "create"}

VARIABLES
    row,      \* ecosystem_execution_stages: status, attempts, result, and what
              \* the artifact that it is linked to says is the result
    log,      \* the records at each sink
    dataset,  \* the registry has the dataset of Mitra
    late,     \* requests whose sender is gone
    sealed,   \* a call has got through all of the stages
    redone,   \* history: the stages that were turned back from COMPLETED
    was,      \* history: the results that each stage was COMPLETED with
    pc,       \* where each worker is
    at,       \* the stage it is at
    sink,     \* whom it asks
    attempt,  \* the attempt of the stage that it takes for its own
    mine,     \* the results it goes by
    reply,    \* the answer it has got
    calls,    \* calls so far
    faults    \* faults so far

local == <<pc, at, sink, attempt, mine, reply>>
history == <<redone, was>>
vars == <<row, log, dataset, late, sealed, history, local, calls, faults>>

Blank == [s \in Stage |-> 0]

Init ==
    /\ row = [s \in Stage |-> [status |-> "NONE", attempts |-> 0, result |-> 0,
                                link |-> {}]]
    /\ log = [k \in Sink |-> <<>>]
    /\ dataset = FALSE
    /\ late = {}
    /\ sealed = FALSE
    /\ redone = {}
    /\ was = [s \in Stage |-> {}]
    /\ pc = [w \in Worker |-> "idle"]
    /\ at = [w \in Worker |-> Preflight]
    /\ sink = [w \in Worker |-> "product"]
    /\ attempt = [w \in Worker |-> 0]
    /\ mine = [w \in Worker |-> Blank]
    /\ reply = [w \in Worker |-> 0]
    /\ calls = 0
    /\ faults = 0

Goto(w, l) == pc' = [pc EXCEPT ![w] = l]

Strike(kind) ==
    /\ kind \in Faults
    /\ faults < MaxFaults
    /\ faults' = faults + 1

\* The call ends, with the details, an exception, or its process.
Leave(w) ==
    /\ Goto(w, "idle")
    /\ at' = [at EXCEPT ![w] = Preflight]
    /\ sink' = [sink EXCEPT ![w] = "product"]
    /\ attempt' = [attempt EXCEPT ![w] = 0]
    /\ mine' = [mine EXCEPT ![w] = Blank]
    /\ reply' = [reply EXCEPT ![w] = 0]

\* _central_package: the results in the artifacts that the rows are linked to.
Package(m) ==
    [s \in Stage |-> IF row'[s].link = {} THEN m[s] ELSE CHOOSE r \in row'[s].link : TRUE]

\* On with result r of the stage; before the last one the package for the Central
\* Depository is made.
Pass(w, r) ==
    IF at[w] = Central
      THEN Leave(w) /\ sealed' = TRUE
      ELSE LET m == [mine[w] EXCEPT ![at[w]] = r] IN
           /\ Goto(w, "ready")
           /\ at' = [at EXCEPT ![w] = at[w] + 1]
           /\ mine' = [mine EXCEPT ![w] = IF at[w] = Insight THEN Package(m) ELSE m]
           /\ reply' = [reply EXCEPT ![w] = 0]
           /\ attempt' = [attempt EXCEPT ![w] = 0]
           /\ sink' = [sink EXCEPT ![w] = "product"]
           /\ UNCHANGED sealed

-----------------------------------------------------------------------------
(* A stage (_run_stage).                                                    *)

\* execute, or recover of an execution that is not COMPLETED.
Call(w) ==
    /\ pc[w] = "idle"
    /\ ~sealed
    /\ calls < MaxCalls
    /\ calls' = calls + 1
    /\ Goto(w, "ready")
    /\ UNCHANGED <<history, row, log, dataset, late, sealed, at, sink, attempt, mine,
                   reply, faults>>

\* The product did what was asked: KESHAV is not asked.
Skips(w) == at[w] = Keshav /\ ~log["product"][mine[w][Raj]].fails

\* _materialize_stage links a row without a link to the artifact of its result.
Linked(r) == IF r.link = {} THEN [r EXCEPT !.link = {r.result}]
                            ELSE r

\* A stage that is COMPLETED is answered from its row.
Reuse(w) ==
    LET s == at[w] IN
    /\ row[s].status = "COMPLETED"
    /\ row' = [row EXCEPT ![s] = Linked(row[s])]
    /\ Pass(w, row[s].result)

\* The upsert of attempt n.  It leaves the link that the row has.
Commit(w, n) ==
    /\ row' = [row EXCEPT ![at[w]].status = "RUNNING", ![at[w]].attempts = n,
                          ![at[w]].result = 0]
    /\ Goto(w, "begun")
    /\ UNCHANGED <<sealed, at, sink, attempt, mine, reply>>

\* Another has to read again what it has just begun.
Races(w) == \E v \in Worker : pc[v] = "begun" /\ at[v] = at[w]

Chance(w) == IF Races(w) THEN Strike("race") ELSE UNCHANGED faults

\* Mutant of Begin: a stage is run again although it is COMPLETED.
BeginAgain(w) ==
    /\ pc[w] = "ready"
    /\ Chance(w)
    /\ Commit(w, row[at[w]].attempts + 1)
    /\ UNCHANGED <<history, log, dataset, late, calls>>

\* Mutant of Begin: an attempt that takes over does not count.
BeginSame(w) ==
    /\ pc[w] = "ready"
    /\ \/ Reuse(w) /\ UNCHANGED faults
       \/ row[at[w]].status # "COMPLETED" /\ Chance(w) /\ Commit(w, 1)
    /\ UNCHANGED <<history, log, dataset, late, calls>>

\* begin_ecosystem_stage up to its COMMIT.
Begin(w) ==
    /\ pc[w] = "ready"
    /\ \/ Reuse(w) /\ UNCHANGED faults
       \/ /\ row[at[w]].status # "COMPLETED"
          /\ Chance(w)
          /\ Commit(w, row[at[w]].attempts + 1)
    /\ UNCHANGED <<history, log, dataset, late, calls>>

\* The attempt is the one that the row has when it is read again after the COMMIT:
\* two workers may take the same one for theirs.
ReadAttempt(w) ==
    LET s == at[w] IN
    /\ pc[w] = "begun"
    /\ attempt' = [attempt EXCEPT ![w] = row[s].attempts]
    /\ Goto(w, IF Skips(w) THEN "answered"
               ELSE IF s \in {Prana, Insight} THEN "lookup" ELSE "asking")
    /\ sink' = IF s = Preflight THEN sink
                                ELSE [sink EXCEPT ![w] = FirstOf(s)]
    /\ UNCHANGED <<history, row, log, dataset, late, sealed, at, mine, reply, calls, faults>>

\* The row as complete_ecosystem_stage leaves it.
Completed(w) == [row[at[w]] EXCEPT !.status = "COMPLETED", !.result = reply[w]]

Write(w) ==
    /\ row' = [row EXCEPT ![at[w]] = Linked(Completed(w))]
    /\ was' = [was EXCEPT ![at[w]] = @ \cup {reply[w]}]
    /\ Pass(w, reply[w])

\* "A completed ecosystem stage cannot be rewritten", or the attempt is stale.
Refuse(w) ==
    Goto(w, "refused") /\ UNCHANGED <<row, was, sealed, at, sink, attempt, mine, reply>>

\* Mutant of Complete: attempts are numbered anew in each call.
CompleteFirst(w) ==
    LET r == row[at[w]] IN
    /\ pc[w] = "answered"
    /\ IF r.status # "COMPLETED" /\ r.attempts = 1 THEN Write(w) ELSE Refuse(w)
    /\ UNCHANGED <<redone, log, dataset, late, calls, faults>>

\* complete_ecosystem_stage and _materialize_stage.  Two answers are never the
\* same, for their times; only "skipped" is.
Complete(w) ==
    LET r == row[at[w]] IN
    /\ pc[w] = "answered"
    /\ CASE r.status = "COMPLETED" /\ r.result = reply[w] /\ Skips(w) ->
               Reuse(w) /\ UNCHANGED was
         [] r.status # "COMPLETED" /\ r.attempts = attempt[w] -> Write(w)
         [] OTHER -> Refuse(w)
    /\ UNCHANGED <<redone, log, dataset, late, calls, faults>>

\* fail_ecosystem_stage writes over the row of the attempt whatever it says.
Hits(w) == row[at[w]].attempts = attempt[w]

Fail(w) ==
    LET s == at[w] IN
    /\ pc[w] = "refused"
    /\ row' = IF Hits(w) THEN [row EXCEPT ![s].status = "FAILED", ![s].result = 0] ELSE row
    /\ redone' = IF Hits(w) /\ row[s].status = "COMPLETED" THEN redone \cup {s} ELSE redone
    /\ Leave(w)
    /\ UNCHANGED <<was, log, dataset, late, sealed, calls, faults>>

\* The stage is COMPLETED and _materialize_stage raises, which fails it.
StoreFault(w) ==
    /\ Strike("store")
    /\ pc[w] = "answered"
    /\ row[at[w]].status # "COMPLETED"
    /\ row[at[w]].attempts = attempt[w]
    /\ row' = [row EXCEPT ![at[w]] = Completed(w)]
    /\ was' = [was EXCEPT ![at[w]] = @ \cup {reply[w]}]
    /\ Goto(w, "refused")
    /\ UNCHANGED <<redone, log, dataset, late, sealed, at, sink, attempt, mine, reply, calls>>

-----------------------------------------------------------------------------
(* The owners.                                                              *)

\* What the worker asks sink k for.
Asked(w, k) == [s \in Stage |-> IF s \in Basis(k) THEN mine[w][s] ELSE 0]

Add(k, of, fails) ==
    log' = [log EXCEPT ![k] = Append(@, [of |-> of, fails |-> fails])]

\* The content of the Bucket artifact with number n, and with it its id.
Artifact(n) == log["bucket"][n].of

\* Karma has one record of an artifact ("replay_detected").
Admits(k, of) ==
    k = "karma" => \A i \in DOMAIN log["karma"] :
        Artifact(log["karma"][i].of[Bucket]) # Artifact(of[Bucket])

\* Only the product has outcomes that are both in order: Raj answers "success"
\* or, for whatever it cannot use, "product_error".
Outcome(k) == IF k = "product" THEN BOOLEAN ELSE {FALSE}

Answered(w, r) == Goto(w, "answered") /\ reply' = [reply EXCEPT ![w] = r]

\* dependency_preflight: every probe is accepted, and its body names the service
\* and says that it works.
Probe(w) ==
    /\ pc[w] = "asking"
    /\ at[w] = Preflight
    /\ \E unfit \in SUBSET Probed :
          IF unfit = {} THEN Answered(w, 0) /\ UNCHANGED faults
                        ELSE Goto(w, "refused") /\ Strike("unfit") /\ UNCHANGED reply
    /\ UNCHANGED <<history, row, log, dataset, late, sealed, at, sink, attempt, mine, calls>>

\* The owner that the worker asks records, and says so or, of a product, that it
\* ended in an error.
Do(w, fails) ==
    /\ Add(sink[w], Asked(w, sink[w]), fails)
    /\ Answered(w, Len(log[sink[w]]) + 1)

\* execute_raj: Raj runs the product.
Run(w) ==
    /\ pc[w] = "asking"
    /\ at[w] = Raj
    /\ \E fails \in Outcome("product") : Do(w, fails)
    /\ UNCHANGED <<history, row, dataset, late, sealed, at, sink, attempt, mine, calls, faults>>

\* diagnose_keshav_product_failure, of a run that ended in an error.
Diagnose(w) ==
    /\ pc[w] = "asking"
    /\ at[w] = Keshav
    /\ log["product"][mine[w][Raj]].fails
    /\ Do(w, FALSE)
    /\ UNCHANGED <<history, row, dataset, late, sealed, at, sink, attempt, mine, calls, faults>>

\* record_ashmit_provenance.
Provenance(w) ==
    /\ pc[w] = "asking"
    /\ at[w] = Ashmit
    /\ Do(w, FALSE)
    /\ UNCHANGED <<history, row, dataset, late, sealed, at, sink, attempt, mine, calls, faults>>

\* _append_owner_artifact: head, append, read-back and validation.
Store(w) ==
    /\ pc[w] = "asking"
    /\ at[w] \in {Bucket, Central}
    /\ Do(w, FALSE)
    /\ UNCHANGED <<history, row, dataset, late, sealed, at, sink, attempt, mine, calls, faults>>

\* append_karma: only "appended" will do.
AppendKarma(w) ==
    /\ pc[w] = "asking"
    /\ at[w] = Karma
    /\ IF Admits("karma", Asked(w, "karma"))
         THEN Do(w, FALSE)
         ELSE Goto(w, "refused") /\ UNCHANGED <<log, reply>>
    /\ UNCHANGED <<history, row, dataset, late, sealed, at, sink, attempt, mine, calls, faults>>

\* ensure_dataset of the bridge: GET finds the dataset, or 404.
Lookup(w) ==
    /\ pc[w] = "lookup"
    /\ Goto(w, IF dataset THEN "asking" ELSE "create")
    /\ UNCHANGED <<history, row, log, dataset, late, sealed, at, sink, attempt, mine, reply,
                   calls, faults>>

\* POST registers the dataset; after 409 it is looked up again.
Create(w) ==
    /\ pc[w] = "create"
    /\ Goto(w, IF dataset THEN "lookup" ELSE "asking")
    /\ dataset' = TRUE
    /\ UNCHANGED <<history, row, log, late, sealed, at, sink, attempt, mine, reply, calls, faults>>

\* PRANA relays a request to the bridge, byte for byte.
Relay(w) == Add(sink[w], Asked(w, sink[w]), FALSE)

\* The bytes of Karma's request; PRANA and Mitra compare the hash that comes
\* back with the one of what they sent.
Strict(w) ==
    /\ pc[w] = "asking"
    /\ sink[w] = "karma-strict"
    /\ Relay(w)
    /\ Goto(w, "lookup")
    /\ sink' = [sink EXCEPT ![w] = "prana-core"]
    /\ UNCHANGED <<history, row, dataset, late, sealed, at, attempt, mine, reply, calls, faults>>

\* The identity of the trace, which has to come back.
Core(w) ==
    /\ pc[w] = "asking"
    /\ sink[w] = "prana-core"
    /\ Relay(w)
    /\ Answered(w, Len(log[sink[w]]) + 1)
    /\ UNCHANGED <<history, row, dataset, late, sealed, at, sink, attempt, mine, calls, faults>>

\* forward_prana: the one after the other.
Forward(w) == Strict(w) \/ Core(w)

\* emit_insightflow asks the bridge itself.
Emit(w) ==
    /\ pc[w] = "asking"
    /\ sink[w] = "execution"
    /\ Do(w, FALSE)
    /\ UNCHANGED <<history, row, dataset, late, sealed, at, sink, attempt, mine, calls, faults>>

-----------------------------------------------------------------------------
(* Faults.                                                                  *)

\* _request raises; the owner may have done what it was asked (it answered), get
\* to it later, or never.
Lost(w) ==
    /\ \/ /\ pc[w] \in {"asking", "answered"}
          /\ Strike("lost")
          /\ UNCHANGED late
       \/ /\ pc[w] = "asking" /\ at[w] # Preflight
          /\ Strike("late")
          /\ late' = late \cup {[sink |-> sink[w], of |-> Asked(w, sink[w]),
                                 attempt |-> attempt[w], by |-> w]}
    /\ Goto(w, "refused")
    /\ UNCHANGED <<history, row, log, dataset, sealed, at, sink, attempt, mine, reply, calls>>

\* The owner has done what it was asked, and its answer is rejected.
Unfit(w) ==
    /\ Strike("unfit")
    /\ pc[w] = "asking" /\ at[w] # Preflight
    /\ Add(sink[w], Asked(w, sink[w]), FALSE)
    /\ Goto(w, "refused")
    /\ UNCHANGED <<history, row, dataset, late, sealed, at, sink, attempt, mine, reply, calls>>

Crash(w) ==
    /\ Strike("crash")
    /\ pc[w] # "idle"
    /\ Leave(w)
    /\ UNCHANGED <<history, row, log, dataset, late, sealed, calls>>

\* An owner gets to a request without a sender.
ServeLate(m) ==
    /\ late' = late \ {m}
    /\ IF Admits(m.sink, m.of)
         THEN \E fails \in Outcome(m.sink) : Add(m.sink, m.of, fails)
         ELSE UNCHANGED log
    /\ UNCHANGED <<history, row, dataset, sealed, local, calls, faults>>

-----------------------------------------------------------------------------

\* What goes on without a new call or a fault.
Step(w) ==
    \/ Begin(w) \/ ReadAttempt(w) \/ Probe(w) \/ Run(w) \/ Diagnose(w) \/ Provenance(w)
    \/ Store(w) \/ AppendKarma(w)
    \/ Lookup(w) \/ Create(w) \/ Forward(w) \/ Emit(w)
    \/ Complete(w) \/ Fail(w)

Next ==
    \/ \E w \in Worker : 
          Call(w) \/ Step(w) \/ Lost(w) \/ Unfit(w) \/ Crash(w) \/ StoreFault(w)
    \/ \E m \in late : ServeLate(m)

Spec == Init /\ [][Next]_vars

\* Event loops run what is ready, and requests end.
FairSpec == Spec /\ \A w \in Worker : WF_vars(Step(w))

-----------------------------------------------------------------------------
(* Properties.                                                              *)

\* Rows, records and locals have their types.
TypeOK ==
    /\ row \in [Stage -> [status : Status, attempts : Nat, result : Nat,
                          link : SUBSET Nat]]
    /\ log \in [Sink -> Seq(Record)]
    /\ dataset \in BOOLEAN
    /\ late \subseteq [sink : Sink, of : [Stage -> Nat], attempt : Nat, by : Worker]
    /\ sealed \in BOOLEAN
    /\ redone \subseteq Stage
    /\ was \in [Stage -> SUBSET Nat]
    /\ pc \in [Worker -> Control]
    /\ at \in [Worker -> Stage]
    /\ sink \in [Worker -> Sink]
    /\ attempt \in [Worker -> Nat]
    /\ mine \in [Worker -> [Stage -> Nat]]
    /\ reply \in [Worker -> Nat]
    /\ calls \in Nat
    /\ faults \in Nat

\* r is what stage s was COMPLETED with and, unless the stage was turned back since,
\* what its row says.
Checkpoint(s, r) ==
    /\ r \in was[s]
    /\ s \notin redone => row[s].status = "COMPLETED" /\ row[s].result = r

\* However many calls are lost, repeated or made at the same time, the owners
\* have one story: every record is made of the checkpoints, so that the product
\* run, the diagnosis, the provenance and the Bucket artifact that Karma,
\* InsightFlow and the Central Depository hold are the ones of the replay package,
\* and KESHAV has diagnosed a run that failed.  A stage may be turned back from
\* COMPLETED, by a fault of the store or by a second worker that has read the same
\* attempt (store.py:1709, 1804); what the owners were told of it before was its
\* checkpoint all the same.
OneStory ==
    /\ \A k \in Sink : \A i \in DOMAIN log[k] : \A s \in Basis(k) :
          Checkpoint(s, log[k][i].of[s])
    /\ \A i \in DOMAIN log["keshav"] :
          LET run == log["keshav"][i].of[Raj] IN
          run \in DOMAIN log["product"] /\ log["product"][run].fails

\* The attempts of a stage account for every time that a product ran or an owner
\* was written to: each attempt that begins leaves at most one record at each sink,
\* even where two workers go by the number of the second (store.py:1709).
EffectsAccounted ==
    \A k \in Sink :
        Len(log[k]) + Cardinality({m \in late : m.sink = k}) <= row[StageOf(k)].attempts

\* "A completed ecosystem stage cannot be rewritten" (store.py:1738): no stage is
\* turned back from COMPLETED.  The code does not keep this, and no run checks it.
CompletedStays == redone = {}

\* What Karma has of the execution while the stage is not COMPLETED: the entry
\* stays and refuses the next one (RecoveryPassesKarma of ChainHead).
Orphaned == row[Karma].status # "COMPLETED" /\ log["karma"] # <<>>

\* Recovery completes: the last call, when it begins alone and nothing more goes
\* wrong, gets through all of the stages, whatever the calls before it left.
LastCallCompletes ==
    /\ calls = MaxCalls /\ faults = MaxFaults /\ late = {} /\ ~Orphaned
    /\ \E w \in Worker : /\ pc[w] = "ready" /\ at[w] = Preflight
                        /\ \A v \in Worker \ {w} : pc[v] = "idle"
    ~> sealed

=============================================================================
