------------------------------ MODULE Runtime ------------------------------
(***************************************************************************)
(* One runtime process: its lifecycle (lifecycle.py), the products attached   *)
(* to it, the intents it dispatches to them (runtime.py) and the rows and     *)
(* phases that a dispatch leaves (store.py).                                 *)
(*                                                                         *)
(* Two threads run.  On the event loop one coroutine runs at a time, from one  *)
(* await to the next: dispatches, and the operator's attach, detach, restart   *)
(* and shutdown.  The supervisor's thread checks the health of the products    *)
(* and interleaves with the loop at every access to the store and to           *)
(* lifecycle.state.  The process may die between any two of them.              *)
(*                                                                         *)
(* Abstractions.  A request is for any product and has a session, a payload    *)
(* and a context that are valid; manifests do not change.  What a product      *)
(* publishes of its health is its contract (transport.py).  transition() is     *)
(* one step, as its lock makes it, so that lifecycle.state and the last row    *)
(* of runtime_transitions agree.  The health check that the API offers on the  *)
(* event loop does what the thread does, in fewer interleavings.              *)
(***************************************************************************)
EXTENDS Naturals

CONSTANTS
    Request,    \* requests to dispatch an intent, each made once
    Product,    \* products
    Sources,    \* those whose manifest is in a source that is loaded at startup
    Contracts,  \* what manifests publish about the health of their product
    None,       \* SQL NULL
    Faults,     \* the faults that may strike: a subset of FaultKind
    MaxOps,     \* bound: operations of the operator
    MaxFaults   \* bound: faults of all kinds together

FaultKind == {"unhealthy", "cancel", "crash"}

ASSUME FaultAssumption == Faults \subseteq FaultKind /\ MaxFaults \in Nat
ASSUME OpsAssumption == MaxOps \in Nat
ASSUME SourcesAssumption == Sources \subseteq Product
ASSUME NullAssumption == None \notin Product

\* A relative endpoint is one that no base_url completes.
Contract ==
    [endpoint : {"none", "relative", "absolute"},
     format : {"any", "json", "unsupported"},
     values : BOOLEAN,       \* healthy_status_values are published
     translator : BOOLEAN]   \* and a translator of what the product says

ASSUME ContractsAssumption == Contracts \subseteq Contract

State == {"INITIALIZING", "READY", "ACTIVE", "DEGRADED", "DRAINING", "STOPPED"}

\* ALLOWED_TRANSITIONS
Allowed ==
    [INITIALIZING |-> {"READY", "DEGRADED", "STOPPED"},
     READY |-> {"ACTIVE", "DEGRADED", "DRAINING"},
     ACTIVE |-> {"READY", "DEGRADED", "DRAINING"},
     DEGRADED |-> {"READY", "ACTIVE", "DRAINING"},
     DRAINING |-> {"STOPPED"},
     STOPPED |-> {"INITIALIZING"}]

\* DISPATCH_PHASE_MODEL.  Four phases precede the transport and are one here.
Phase == {"prepared", "transport", "receipt", "dispatch"}
PhaseStatus == {"ABSENT", "RUNNING", "COMPLETED", "FAILED"}
NoPhases == [p \in Phase |-> "ABSENT"]

Outcome == {"COMPLETED", "FAILED"}

\* What a reconstruction package repeats of its dispatch.
Package == [status : {"ACCEPTED"} \cup Outcome, phases : [Phase -> PhaseStatus]]

\* Control of a dispatch; it awaits in Awaiting and holds the event loop
\* elsewhere.  It has passed the entry check in Admitted.
Awaiting == {"idle", "transport", "fallback", "publish", "done"}
Admitted ==
    {"create", "prepare", "look", "activate", "open", "transport", "fallback", "close",
     "settle", "receipt", "finish", "quiet", "quieten", "degrade", "degrading",
     "fail", "record", "publish", "leave", "leaving"}

Operating ==
    {"idle", "attached", "listing", "restoring", "drain", "stop", "initialize",
     "start", "load"}
Checking ==
    {"idle", "check", "mark", "look", "degrade", "attach", "register", "all",
     "listing", "restore"}

VARIABLES
    up,         \* the process runs
    state,      \* lifecycle.state, and the last row of runtime_transitions
    accepting,  \* whether the runtime accepts work
    product,    \* attachments.state
    contract,   \* what the manifest of each publishes about its health
    row,        \* dispatches.status
    phase,      \* dispatch_phases.status
    package,    \* the reconstruction package in the depository, or None
    pc,         \* where each request is
    to,         \* the product it goes to
    result,     \* what came of the transport
    opc,        \* where the operator's operation on the event loop is
    again,      \* it starts the runtime again after it has stopped it
    load,       \* the products it has still to attach from the sources
    hpc,        \* where the supervisor's thread is
    seen,       \* the products it has listed and not done with, as they were
    at,         \* the product it is at
    ops,        \* operations so far
    faults      \* faults so far

records == <<product, contract, row, phase, package>>
request == <<pc, to, result>>
operator == <<opc, again, load, ops>>
health == <<hpc, seen, at>>
vars == <<up, state, accepting, records, request, operator, health, faults>>

Init ==
    /\ up = FALSE
    /\ state = "STOPPED"
    /\ accepting = FALSE
    /\ product = [p \in Product |-> "ATTACHED"]
    /\ contract \in [Product -> Contracts]
    /\ row = [r \in Request |-> "ABSENT"]
    /\ phase = [r \in Request |-> NoPhases]
    /\ package = [r \in Request |-> None]
    /\ pc = [r \in Request |-> "idle"]
    /\ to = [r \in Request |-> None]
    /\ result = [r \in Request |-> None]
    /\ opc = "idle"
    /\ again = FALSE
    /\ load = {}
    /\ hpc = "idle"
    /\ seen = [p \in Product |-> None]
    /\ at = None
    /\ ops = 0
    /\ faults = 0

\* Nobody is between two awaits on the event loop.
LoopFree == up /\ opc = "idle" /\ \A r \in Request : pc[r] \in Awaiting

Strike(kind) ==
    /\ kind \in Faults
    /\ faults < MaxFaults
    /\ faults' = faults + 1

Goto(r, l) == pc' = [pc EXCEPT ![r] = l]

\* Mutant of Legal: a state that is reached already is illegal.
LegalStrictly(s) == s \in Allowed[state]

\* transition(): a state that is reached already stays as it is, an illegal
\* transition raises.
Legal(s) == s = state \/ s \in Allowed[state]

\* A dispatch changes the state and is at l then, or at h if that raises.
Move(r, s, l, h) ==
    IF Legal(s) THEN state' = s /\ Goto(r, l)
                ELSE UNCHANGED state /\ Goto(r, h)

SetPhase(r, p, s) == phase' = [phase EXCEPT ![r][p] = s]
SetProduct(p, s) == product' = [product EXCEPT ![p] = s]

\* attachments.list() leaves out the DETACHED.
AllAttached == \A p \in Product : product[p] # "DEGRADED"

-----------------------------------------------------------------------------
(* dispatch                                                                 *)

\* The entry check and the route, which takes an ATTACHED product.
Admit(r, p) ==
    /\ LoopFree
    /\ pc[r] = "idle"
    /\ accepting
    /\ product[p] = "ATTACHED"
    /\ Goto(r, "create")
    /\ to' = [to EXCEPT ![r] = p]
    /\ UNCHANGED <<up, state, accepting, records, result, operator, health, faults>>

Create(r) ==
    /\ pc[r] = "create"
    /\ row' = [row EXCEPT ![r] = "ACCEPTED"]
    /\ Goto(r, "prepare")
    /\ UNCHANGED <<up, state, accepting, product, contract, phase, package, to, result,
                   operator, health, faults>>

Prepare(r) ==
    /\ pc[r] = "prepare"
    /\ SetPhase(r, "prepared", "COMPLETED")
    /\ Goto(r, "look")
    /\ UNCHANGED <<up, state, accepting, product, contract, row, package, to, result,
                   operator, health, faults>>

\* lifecycle.state is looked at here and changed in the next step.
Look(r) ==
    /\ pc[r] = "look"
    /\ Goto(r, IF state = "READY" THEN "activate" ELSE "open")
    /\ UNCHANGED <<up, state, accepting, records, to, result, operator, health, faults>>

Activate(r) ==
    /\ pc[r] = "activate"
    /\ Move(r, "ACTIVE", "open", "done")
    /\ UNCHANGED <<up, accepting, records, to, result, operator, health, faults>>

\* The phase is opened and the request sent.
Open(r) ==
    /\ pc[r] = "open"
    /\ SetPhase(r, "transport", "RUNNING")
    /\ Goto(r, "transport")
    /\ UNCHANGED <<up, state, accepting, product, contract, row, package, to, result,
                   operator, health, faults>>

\* An endpoint of the product answers; anything but a response that fits the
\* schema is a TransportError.
Answer(r) ==
    /\ LoopFree
    /\ pc[r] \in {"transport", "fallback"}
    /\ \E s \in Outcome :
          /\ result' = [result EXCEPT ![r] = s]
          /\ Goto(r, IF s = "COMPLETED" THEN "close" ELSE "degrade")
    /\ UNCHANGED <<up, state, accepting, records, to, operator, health, faults>>

\* The answer meets the condition of a fallback: one more endpoint is asked, and
\* what it answers is the response.
FallBack(r) ==
    /\ LoopFree
    /\ pc[r] = "transport"
    /\ Goto(r, "fallback")
    /\ UNCHANGED <<up, state, accepting, records, to, result, operator, health, faults>>

Close(r) ==
    /\ pc[r] = "close"
    /\ SetPhase(r, "transport", "COMPLETED")
    /\ Goto(r, "settle")
    /\ UNCHANGED <<up, state, accepting, product, contract, row, package, to, result,
                   operator, health, faults>>

Degrade(r) ==
    /\ pc[r] = "degrade"
    /\ SetProduct(to[r], "DEGRADED")
    /\ Goto(r, "degrading")
    /\ UNCHANGED <<up, state, accepting, contract, row, phase, package, to, result,
                   operator, health, faults>>

\* Mutant of Degrading: the phase of the transport stays open.
DegradingOnly(r) ==
    /\ pc[r] = "degrading"
    /\ Move(r, "DEGRADED", "settle", "leave")
    /\ UNCHANGED <<up, accepting, records, to, result, operator, health, faults>>

Degrading(r) ==
    /\ pc[r] = "degrading"
    /\ Move(r, "DEGRADED", "fail", "leave")
    /\ UNCHANGED <<up, accepting, records, to, result, operator, health, faults>>

Fail(r) ==
    /\ pc[r] = "fail"
    /\ SetPhase(r, "transport", "FAILED")
    /\ Goto(r, "settle")
    /\ UNCHANGED <<up, state, accepting, product, contract, row, package, to, result,
                   operator, health, faults>>

Settle(r) ==
    /\ pc[r] = "settle"
    /\ row' = [row EXCEPT ![r] = result[r]]
    /\ Goto(r, "receipt")
    /\ UNCHANGED <<up, state, accepting, product, contract, phase, package, to, result,
                   operator, health, faults>>

WriteReceipt(r) ==
    /\ pc[r] = "receipt"
    /\ SetPhase(r, "receipt", "COMPLETED")
    /\ Goto(r, "finish")
    /\ UNCHANGED <<up, state, accepting, product, contract, row, package, to, result,
                   operator, health, faults>>

Finish(r) ==
    /\ pc[r] = "finish"
    /\ SetPhase(r, "dispatch", result[r])
    /\ Goto(r, IF result[r] = "COMPLETED" THEN "quiet" ELSE "record")
    /\ UNCHANGED <<up, state, accepting, product, contract, row, package, to, result,
                   operator, health, faults>>

\* "Intent dispatch completed": looked at here, changed in the next step.
Quiet(r) ==
    /\ pc[r] = "quiet"
    /\ Goto(r, IF state = "ACTIVE" THEN "quieten" ELSE "record")
    /\ UNCHANGED <<up, state, accepting, records, to, result, operator, health, faults>>

Quieten(r) ==
    /\ pc[r] = "quieten"
    /\ Move(r, "READY", "record", "leave")
    /\ UNCHANGED <<up, accepting, records, to, result, operator, health, faults>>

\* _record_dispatch_reconstruction; what follows awaits the integrations.  The
\* package takes the intents of the product: router.register raises if it was
\* detached meanwhile.
Record(r) ==
    /\ pc[r] = "record"
    /\ IF product[to[r]] = "DETACHED"
         THEN Goto(r, "leave") /\ UNCHANGED package
         ELSE /\ package' = [package EXCEPT ![r] =
                               [status |-> row[r], phases |-> phase[r]]]
              /\ Goto(r, "publish")
    /\ UNCHANGED <<up, state, accepting, product, contract, row, phase, to, result,
                   operator, health, faults>>

Publish(r) ==
    /\ LoopFree
    /\ pc[r] = "publish"
    /\ Goto(r, "leave")
    /\ UNCHANGED <<up, state, accepting, records, to, result, operator, health, faults>>

\* Mutant of Leave: without finally.
LeaveAlone(r) ==
    /\ pc[r] = "leave"
    /\ Goto(r, "done")
    /\ UNCHANGED <<up, state, accepting, records, to, result, operator, health, faults>>

\* finally: looked at here, changed in the next step.
Leave(r) ==
    /\ pc[r] = "leave"
    /\ Goto(r, IF state = "ACTIVE" THEN "leaving" ELSE "done")
    /\ UNCHANGED <<up, state, accepting, records, to, result, operator, health, faults>>

Leaving(r) ==
    /\ pc[r] = "leaving"
    /\ Move(r, "READY", "done", "done")
    /\ UNCHANGED <<up, accepting, records, to, result, operator, health, faults>>

\* The coroutine is cancelled where it awaits; finally runs.
Cancel(r) ==
    /\ Strike("cancel")
    /\ LoopFree
    /\ pc[r] \in {"transport", "fallback", "publish"}
    /\ Goto(r, "leave")
    /\ UNCHANGED <<up, state, accepting, records, to, result, operator, health>>

-----------------------------------------------------------------------------
(* The supervisor's thread: check_attachment_health.                        *)

\* Between two cycles, or after an exception: the cycle is over.
Rest == hpc' = "idle" /\ seen' = [p \in Product |-> None] /\ at' = None

\* Done with p: on to the next product.
Pass(p) ==
    /\ seen' = [seen EXCEPT ![p] = None]
    /\ hpc' = IF \A q \in Product : seen'[q] = None THEN "idle" ELSE "check"
    /\ at' = None

\* Mutant of Tick: a product that is degraded is not checked.
TickAttached ==
    /\ up /\ accepting
    /\ hpc = "idle"
    /\ \E p \in Product : product[p] = "ATTACHED"
    /\ hpc' = "check"
    /\ seen' = [p \in Product |-> IF product[p] = "ATTACHED" THEN "ATTACHED" ELSE None]
    /\ UNCHANGED <<up, state, accepting, records, request, operator, at, faults>>

\* persistent_tick returns unless the runtime accepts work; the cycle lists the
\* products that are attached or degraded.
Tick ==
    /\ up /\ accepting
    /\ hpc = "idle"
    /\ \E p \in Product : product[p] # "DETACHED"
    /\ hpc' = "check"
    /\ seen' = [p \in Product |-> IF product[p] = "DETACHED" THEN None ELSE product[p]]
    /\ UNCHANGED <<up, state, accepting, records, request, operator, at, faults>>

\* What an endpoint may say of its health: nothing, or with a status code and a
\* body in which the product is well in the words of its contract, in words that
\* the translator knows, or not at all.
Reply ==
    [answered : BOOLEAN, ok : BOOLEAN,
     body : {"well", "alias", "ill", "text_known", "text"}]

\* translate_health_payload: a status by another name or value, and a text with
\* a rule, become what the contract expects.
Translated(c, body) ==
    IF c.translator /\ body \in {"alias", "text_known"} THEN "well" ELSE body

\* validate_health_contract
Fits(c, body) ==
    /\ c.format # "unsupported"
    /\ c.format = "json" => body \notin {"text_known", "text"}
    /\ c.values => body = "well"

\* check_manifest_health
Judged(c, reply) ==
    IF c.endpoint = "none" THEN "not_configured"
    ELSE IF c.endpoint = "relative" THEN "unknown"
    ELSE IF reply.answered /\ reply.ok /\ Fits(c, Translated(c, reply.body))
      THEN "healthy"
    ELSE "unhealthy"

Verdicts(p) == {Judged(contract[p], reply) : reply \in Reply}

\* Without an endpoint to ask nothing is concluded.
Unknown(p) ==
    /\ hpc = "check"
    /\ seen[p] # None
    /\ Verdicts(p) \subseteq {"not_configured", "unknown"}
    /\ Pass(p)
    /\ UNCHANGED <<up, state, accepting, records, request, operator, faults>>

\* The health endpoint answers well.
Healthy(p) ==
    /\ hpc = "check"
    /\ seen[p] # None
    /\ "healthy" \in Verdicts(p)
    /\ IF seen[p] = "DEGRADED"
         THEN hpc' = "attach" /\ at' = p /\ UNCHANGED seen
         ELSE Pass(p)
    /\ UNCHANGED <<up, state, accepting, records, request, operator, faults>>

\* The health endpoint does not answer, or badly.
Unhealthy(p) ==
    /\ Strike("unhealthy")
    /\ hpc = "check"
    /\ seen[p] # None
    /\ "unhealthy" \in Verdicts(p)
    /\ IF seen[p] = "ATTACHED"
         THEN hpc' = "mark" /\ at' = p /\ UNCHANGED seen
         ELSE Pass(p)
    /\ UNCHANGED <<up, state, accepting, records, request, operator>>

Mark ==
    /\ hpc = "mark"
    /\ SetProduct(at, "DEGRADED")
    /\ hpc' = "look"
    /\ UNCHANGED <<up, state, accepting, contract, row, phase, package, request, operator,
                   seen, at, faults>>

LookHealth ==
    /\ hpc = "look"
    /\ IF state \in {"READY", "ACTIVE"}
         THEN hpc' = "degrade" /\ UNCHANGED <<seen, at>>
         ELSE Pass(at)
    /\ UNCHANGED <<up, state, accepting, records, request, operator, faults>>

\* The thread changes the state, or ends its cycle with the exception.
MoveHealth(s) == IF Legal(s) THEN state' = s /\ Pass(at) ELSE UNCHANGED state /\ Rest

DegradeHealth ==
    /\ hpc = "degrade"
    /\ MoveHealth("DEGRADED")
    /\ UNCHANGED <<up, accepting, records, request, operator, faults>>

\* attach: "Runtime is not accepting attachments", or the product is ATTACHED
\* again, and its intents are registered unless it was detached meanwhile.
AttachHealth ==
    /\ hpc = "attach"
    /\ IF accepting
         THEN SetProduct(at, "ATTACHED") /\ hpc' = "register" /\ UNCHANGED <<seen, at>>
         ELSE UNCHANGED product /\ Rest
    /\ UNCHANGED <<up, state, accepting, contract, row, phase, package, request, operator,
                   faults>>

RegisterHealth ==
    /\ hpc = "register"
    /\ IF product[at] = "DETACHED" THEN Rest
                                  ELSE hpc' = "all" /\ UNCHANGED <<seen, at>>
    /\ UNCHANGED <<up, state, accepting, records, request, operator, faults>>

\* DEGRADED is left if all are ATTACHED: the state is looked at, the products
\* are listed, the state is changed.
AllHealth ==
    /\ hpc = "all"
    /\ IF state = "DEGRADED" THEN hpc' = "listing" /\ UNCHANGED <<seen, at>>
                            ELSE Pass(at)
    /\ UNCHANGED <<up, state, accepting, records, request, operator, faults>>

ListHealth ==
    /\ hpc = "listing"
    /\ IF AllAttached THEN hpc' = "restore" /\ UNCHANGED <<seen, at>> ELSE Pass(at)
    /\ UNCHANGED <<up, state, accepting, records, request, operator, faults>>

RestoreHealth ==
    /\ hpc = "restore"
    /\ MoveHealth("READY")
    /\ UNCHANGED <<up, accepting, records, request, operator, faults>>

-----------------------------------------------------------------------------
(* The operator, on the event loop; and the process.                        *)

Operate(l) == opc' = l /\ ops < MaxOps /\ ops' = ops + 1
Proceed(l) == opc' = l /\ UNCHANGED <<load, ops>>

\* The process is gone, and what was only in its memory.
Gone ==
    /\ up' = FALSE
    /\ accepting' = FALSE
    /\ pc' = [r \in Request |-> IF pc[r] = "idle" THEN "idle" ELSE "done"]
    /\ opc' = "idle"
    /\ again' = FALSE
    /\ load' = {}
    /\ Rest
    /\ UNCHANGED <<records, to, result>>

Attach(p) ==
    /\ LoopFree
    /\ accepting
    /\ SetProduct(p, "ATTACHED")
    /\ Operate("attached")
    /\ UNCHANGED <<up, state, accepting, contract, row, phase, package, request, again,
                   load, health, faults>>

Detach(p) ==
    /\ LoopFree
    /\ accepting
    /\ SetProduct(p, "DETACHED")
    /\ Operate("attached")
    /\ UNCHANGED <<up, state, accepting, contract, row, phase, package, request, again,
                   load, health, faults>>

\* Where the operation goes after a product: to the next one of the sources.
Onward == IF load = {} THEN "idle" ELSE "load"

\* attach and detach end with a look at the products, as in the thread.
All ==
    /\ opc = "attached"
    /\ Proceed(IF state = "DEGRADED" THEN "listing" ELSE Onward)
    /\ UNCHANGED <<up, state, accepting, records, request, again, health, faults>>

List ==
    /\ opc = "listing"
    /\ Proceed(IF AllAttached THEN "restoring" ELSE Onward)
    /\ UNCHANGED <<up, state, accepting, records, request, again, health, faults>>

Restore ==
    /\ opc = "restoring"
    /\ state' = IF Legal("READY") THEN "READY" ELSE state
    /\ Proceed(Onward)
    /\ UNCHANGED <<up, accepting, records, request, again, health, faults>>

\* stop, at shutdown or for a restart.  The supervisor's thread is joined for
\* two seconds only: a cycle may go on.
Stop(b) ==
    /\ LoopFree
    /\ again' = b
    /\ Operate("drain")
    /\ UNCHANGED <<up, state, accepting, records, request, load, health, faults>>

Drain ==
    /\ opc = "drain"
    /\ state' = IF state \in {"DRAINING", "INITIALIZING"} THEN state ELSE "DRAINING"
    /\ Proceed("stop")
    /\ UNCHANGED <<up, accepting, records, request, again, health, faults>>

Stopped ==
    /\ opc = "stop"
    /\ state' = "STOPPED"
    /\ UNCHANGED <<ops, faults>>
    /\ IF again
         THEN /\ opc' = "initialize"
              /\ accepting' = FALSE
              /\ UNCHANGED <<up, records, request, again, load, health>>
         ELSE Gone

\* start, in a process that stopped.
Initialize ==
    /\ opc = "initialize"
    /\ state' = "INITIALIZING"
    /\ Proceed("start")
    /\ UNCHANGED <<up, accepting, records, request, again, health, faults>>

\* A new process takes the state from the last transition that is recorded.
Boot ==
    /\ ~up
    /\ up' = TRUE
    /\ state' = IF state = "STOPPED" THEN "INITIALIZING" ELSE state
    /\ Operate("start")
    /\ UNCHANGED <<accepting, records, request, again, load, health, faults>>

\* start: ready to accept work, with the sources to load; the process exits if
\* the transition is illegal.
Start ==
    /\ opc = "start"
    /\ IF Legal("READY")
         THEN /\ state' = "READY"
              /\ accepting' = TRUE
              /\ load' = Sources
              /\ opc' = IF Sources = {} THEN "idle" ELSE "load"
              /\ again' = FALSE
              /\ UNCHANGED <<up, records, request, health>>
         ELSE UNCHANGED state /\ Gone
    /\ UNCHANGED <<ops, faults>>

\* _attach_sources, one product after the other, those that were detached too.
Load(p) ==
    /\ opc = "load"
    /\ p \in load
    /\ load' = load \ {p}
    /\ SetProduct(p, "ATTACHED")
    /\ opc' = "attached"
    /\ UNCHANGED <<up, state, accepting, contract, row, phase, package, request, again,
                   health, ops, faults>>

\* The process dies.
Crash ==
    /\ Strike("crash")
    /\ up
    /\ Gone
    /\ UNCHANGED <<state, ops>>

-----------------------------------------------------------------------------

Serve(r) ==
    \/ Create(r) \/ Prepare(r) \/ Look(r) \/ Activate(r) \/ Open(r)
    \/ Answer(r) \/ FallBack(r) \/ Close(r) \/ Degrade(r) \/ Degrading(r) \/ Fail(r)
    \/ Settle(r) \/ WriteReceipt(r) \/ Finish(r) \/ Quiet(r) \/ Quieten(r)
    \/ Record(r) \/ Publish(r) \/ Leave(r) \/ Leaving(r)

Check ==
    \/ Tick \/ Mark \/ LookHealth \/ DegradeHealth
    \/ AttachHealth \/ RegisterHealth \/ AllHealth \/ ListHealth \/ RestoreHealth
    \/ \E p \in Product : Healthy(p) \/ Unknown(p)

Finishing ==
    \/ All \/ List \/ Restore \/ Drain \/ Stopped \/ Initialize \/ Start
    \/ \E p \in Product : Load(p)

Next ==
    \/ \E r \in Request : Serve(r) \/ Cancel(r) \/ \E p \in Product : Admit(r, p)
    \/ Check \/ \E p \in Product : Unhealthy(p)
    \/ \E p \in Product : Attach(p) \/ Detach(p)
    \/ \E b \in BOOLEAN : Stop(b)
    \/ Finishing \/ Boot \/ Crash

Spec == Init /\ [][Next]_vars

\* The event loop runs every coroutine that is ready, the transport has a
\* timeout, and the supervisor ticks.
FairSpec ==
    /\ Spec
    /\ \A r \in Request : SF_vars(Serve(r))
    /\ WF_vars(Check)
    /\ WF_vars(Finishing)

-----------------------------------------------------------------------------
(* Properties.                                                              *)

\* The lifecycle, the records and the locals of both threads have their types.
TypeOK ==
    /\ up \in BOOLEAN /\ accepting \in BOOLEAN /\ again \in BOOLEAN
    /\ state \in State
    /\ product \in [Product -> {"ATTACHED", "DEGRADED", "DETACHED"}]
    /\ contract \in [Product -> Contracts]
    /\ row \in [Request -> {"ABSENT", "ACCEPTED"} \cup Outcome]
    /\ phase \in [Request -> [Phase -> PhaseStatus]]
    /\ package \in [Request -> Package \cup {None}]
    /\ pc \in [Request -> Awaiting \cup Admitted]
    /\ to \in [Request -> Product \cup {None}]
    /\ result \in [Request -> Outcome \cup {None}]
    /\ opc \in Operating
    /\ load \subseteq Product
    /\ hpc \in Checking
    /\ seen \in [Product -> {"ATTACHED", "DEGRADED", None}]
    /\ at \in Product \cup {None}
    /\ ops \in Nat /\ faults \in Nat

\* Whenever the process dies, the outcome of a dispatch has its evidence: a
\* settled row the transport phase that says so, a receipt the row, and a
\* reconstruction package all of it.
OutcomeHasEvidence ==
    \A r \in Request :
        /\ row[r] \in Outcome => phase[r]["transport"] = row[r]
        /\ phase[r]["receipt"] # "ABSENT" => row[r] \in Outcome
        /\ phase[r]["dispatch"] # "ABSENT" =>
              phase[r]["receipt"] = "COMPLETED" /\ phase[r]["dispatch"] = row[r]
        /\ package[r] # None => package[r] = [status |-> row[r], phases |-> phase[r]]
                                /\ row[r] \in Outcome

\* "At least one intent dispatch is executing."
\* (contracts/runtime-state-machine.json:8): the runtime is not left ACTIVE by
\* the last dispatch, whatever the other thread does meanwhile.
ActiveIsBusy ==
    up /\ opc = "idle" /\ state = "ACTIVE" => \E r \in Request : pc[r] \in Admitted

\* A dispatch that has been cancelled while the product had it.
Cancelled(r) == pc[r] = "leave" /\ result[r] = None

\* A dispatch that nobody cancels is settled, also across restarts, unless its
\* process is gone.
EveryDispatchSettles ==
    \A r \in Request :
        pc[r] \in Admitted \ {"leave", "leaving"}
        ~> row[r] \in Outcome \/ Cancelled(r) \/ ~up

\* "degraded product returns to ATTACHED after healthy check"
\* (docs/SLO_AND_CAPACITY.md:13), once its health endpoint answers; a product
\* without one waits for the operator.
ProductRecovers ==
    \A p \in Product :
        product[p] = "DEGRADED" /\ contract[p].endpoint = "absolute"
        ~> product[p] # "DEGRADED" \/ ~up

\* "Every terminal dispatch writes immutable content-addressed artifacts"
\* (review_packets/LIVE_RUNTIME_PACKET.md:70): one that ran to its end has its
\* reconstruction package.
TerminalIsRecorded ==
    \A r \in Request :
        up /\ faults = 0 /\ pc[r] = "done" /\ row[r] \in Outcome => package[r] # None

\* "attachments, sessions, and routes survive restart"
\* (docs/SLO_AND_CAPACITY.md:14): a new process comes up.
StartNeverRefused == opc = "start" => Legal("READY")

=============================================================================
