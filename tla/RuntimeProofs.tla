---------------------------- MODULE RuntimeProofs ----------------------------
(***************************************************************************)
(* Machine-checked proofs about the way of a request: Runtime, its dispatch    *)
(* (for every set of requests, products and contracts and every number of      *)
(* operations and faults), and Routing, how it comes to an intent (for every    *)
(* registry, requests, memory and number of turns).                           *)
(***************************************************************************)
EXTENDS Runtime, Routing, FiniteSetTheorems, WellFoundedInduction, TLAPS


-----------------------------------------------------------------------------
(* The inductive invariant.                                                 *)

\* Where the outcome of a dispatch is not written yet.
Early ==
    {"idle", "create", "prepare", "look", "activate", "open", "transport", "fallback",
     "close", "degrade", "degrading", "fail", "settle"}

\* Where it is written, and the package is not.
Late == {"receipt", "finish", "quiet", "quieten", "record"}

\* What is recorded of a dispatch, and what its coroutine still has to record.
Evidence(r) ==
    /\ row[r] \in Outcome => phase[r]["transport"] = row[r]
    /\ phase[r]["receipt"] # "ABSENT" => row[r] \in Outcome
    /\ phase[r]["dispatch"] # "ABSENT" =>
          phase[r]["receipt"] = "COMPLETED" /\ phase[r]["dispatch"] = row[r]
    /\ package[r] # None => package[r] = [status |-> row[r], phases |-> phase[r]]
                            /\ row[r] \in Outcome
    /\ pc[r] \in Early => /\ phase[r]["receipt"] = "ABSENT" /\ phase[r]["dispatch"] = "ABSENT"
                          /\ package[r] = None /\ row[r] \notin Outcome
    /\ pc[r] = "close" => result[r] = "COMPLETED"
    /\ pc[r] \in {"degrade", "degrading", "fail"} => result[r] = "FAILED"
    /\ pc[r] = "settle" => result[r] \in Outcome /\ phase[r]["transport"] = result[r]
    /\ pc[r] \in Late => row[r] = result[r] /\ row[r] \in Outcome /\ package[r] = None
    /\ pc[r] \in {"receipt", "finish"} => phase[r]["dispatch"] = "ABSENT"
    /\ pc[r] = "finish" => phase[r]["receipt"] = "COMPLETED"

EvidenceOK == \A r \in Request : Evidence(r)

\* ACTIVE is left by the last dispatch; only a process that has just started may
\* find it without one, and leaves it before it accepts work.
BusyOK == up /\ state = "ACTIVE" /\ opc # "start" => \E r \in Request : pc[r] \in Admitted

IInv == EvidenceOK /\ BusyOK

Inv == TypeOK /\ IInv

-----------------------------------------------------------------------------
(* Steps of a dispatch.                                                     *)

\* The steps of a dispatch disturb no other.
Others(r) ==
    \A q \in Request \ {r} :
        /\ pc'[q] = pc[q] /\ to'[q] = to[q] /\ result'[q] = result[q]
        /\ row'[q] = row[q] /\ phase'[q] = phase[q] /\ package'[q] = package[q]

LEMMA OneEvidence ==
    ASSUME EvidenceOK, NEW r \in Request, Others(r), Evidence(r)'
    PROVE  EvidenceOK'
<1> SUFFICES ASSUME NEW q \in Request PROVE Evidence(q)'
  BY DEF EvidenceOK
<1>1. CASE q = r
  BY <1>1
<1>2. CASE q # r
  BY <1>2 DEF EvidenceOK, Evidence, Others
<1> QED
  BY <1>1, <1>2

\* Nothing is recorded and the coroutine is where it was, or has nothing to record.
LEMMA SameEvidence ==
    ASSUME EvidenceOK, UNCHANGED <<row, phase, package, result>>,
           \A r \in Request : pc'[r] = pc[r] \/ pc'[r] \notin Early \cup Late
    PROVE  EvidenceOK'
<1>1. /\ "close" \in Early /\ "degrade" \in Early /\ "degrading" \in Early /\ "fail" \in Early
      /\ "settle" \in Early /\ "receipt" \in Late /\ "finish" \in Late
  BY DEF Early, Late
<1> SUFFICES ASSUME NEW r \in Request PROVE Evidence(r)'
  BY DEF EvidenceOK
<1>2. CASE pc'[r] = pc[r]
  BY <1>2 DEF EvidenceOK, Evidence
<1>3. CASE pc'[r] \notin Early \cup Late
  BY <1>1, <1>3 DEF EvidenceOK, Evidence
<1> QED
  BY <1>2, <1>3

\* The steps that only go on, maybe with another state of the lifecycle.
LEMMA GoOn ==
    ASSUME Inv, NEW r \in Request, NEW l \in Awaiting \cup Admitted, Goto(r, l),
           UNCHANGED <<up, accepting, records, result, operator, health>>, state' \in State,
           faults' \in Nat,
           to' = to \/ \E p \in Product : to' = [to EXCEPT ![r] = p],
           \/ l \notin Early \cup Late
           \/ l \in Early /\ pc[r] \in Early /\ l \notin {"close", "settle", "degrade"}
              /\ (l \in {"degrading", "fail"} => pc[r] \in {"degrade", "degrading"})
           \/ l \in Late /\ pc[r] \in Late /\ l \notin {"receipt", "finish"},
           state' = "ACTIVE" => l \in Admitted \/ (state = "ACTIVE" /\ pc[r] \notin Admitted)
    PROVE  Inv'
<1>1. pc' = [pc EXCEPT ![r] = l] /\ pc' \in [Request -> Awaiting \cup Admitted] /\ pc'[r] = l
  BY DEF Goto, Inv, TypeOK
<1>2. to' \in [Request -> Product \cup {None}] /\ \A q \in Request \ {r} : to'[q] = to[q]
  BY DEF Inv, TypeOK
<1>3. Others(r)
  BY <1>1, <1>2 DEF Others, records, Inv, TypeOK
<1>4. TypeOK'
  BY <1>1, <1>2 DEF Inv, TypeOK, records, operator, health
<1>5. Evidence(r)'
  BY <1>1 DEF Inv, IInv, EvidenceOK, Evidence, records, Early, Late
<1>6. BusyOK'
  <2>1. CASE state' = "ACTIVE" /\ l \in Admitted
    BY <1>1, <2>1 DEF BusyOK
  <2>2. CASE state' = "ACTIVE" /\ state = "ACTIVE" /\ pc[r] \notin Admitted
    BY <1>1, <2>2 DEF Inv, IInv, BusyOK, operator
  <2> QED
    BY <2>1, <2>2 DEF BusyOK
<1> QED
  BY <1>3, <1>4, <1>5, <1>6, OneEvidence DEF Inv, IInv

\* The steps that record something.
LEMMA WriteOn ==
    ASSUME Inv, NEW r \in Request, NEW l \in Admitted, pc' = [pc EXCEPT ![r] = l],
           UNCHANGED <<up, state, accepting, contract, to, operator, health, faults>>,
           TypeOK', Others(r), Evidence(r)'
    PROVE  Inv'
<1>1. pc'[r] = l
  BY DEF Inv, TypeOK
<1>2. BusyOK'
  BY <1>1 DEF BusyOK
<1> QED
  BY <1>2, OneEvidence DEF Inv, IInv

LEMMA WriteRow ==
    ASSUME Inv, NEW r \in Request, Create(r) \/ Settle(r)
    PROVE  Inv'
<1>1. PICK l \in {"prepare", "receipt"}, s \in {"ACCEPTED"} \cup Outcome :
         /\ pc' = [pc EXCEPT ![r] = l] /\ row' = [row EXCEPT ![r] = s]
         /\ \/ l = "prepare" /\ s = "ACCEPTED" /\ pc[r] = "create"
            \/ l = "receipt" /\ s = result[r] /\ pc[r] = "settle"
  <2>1. pc[r] = "settle" => result[r] \in Outcome
    BY DEF Inv, IInv, EvidenceOK, Evidence
  <2> QED
    BY <2>1 DEF Create, Settle, Goto
<1>2. UNCHANGED <<up, state, accepting, contract, to, operator, health, faults, product, phase,
                  package, result>>
  BY DEF Create, Settle
<1>3. l \in Admitted /\ row' \in [Request -> {"ABSENT", "ACCEPTED"} \cup Outcome]
      /\ row'[r] = s /\ pc'[r] = l /\ pc' \in [Request -> Awaiting \cup Admitted]
  BY <1>1 DEF Admitted, Inv, TypeOK
<1>4. TypeOK'
  BY <1>2, <1>3 DEF Inv, TypeOK, operator, health
<1>5. Others(r)
  BY <1>1, <1>2 DEF Others, Inv, TypeOK
<1>6. Evidence(r)'
  <2>1. Evidence(r)
    BY DEF Inv, IInv, EvidenceOK
  <2>2. "ACCEPTED" \notin Outcome
    BY DEF Outcome
  <2>3. CASE l = "prepare"
    BY <1>1, <1>2, <1>3, <2>1, <2>2, <2>3 DEF Evidence, Early, Late
  <2>4. CASE l = "receipt"
    BY <1>1, <1>2, <1>3, <2>1, <2>4 DEF Evidence, Early, Late
  <2> QED
    BY <1>1, <2>3, <2>4
<1> QED
  BY <1>1, <1>2, <1>3, <1>4, <1>5, <1>6, WriteOn

\* A phase of the dispatch is recorded.
LEMMA PhaseType ==
    ASSUME TypeOK, NEW r \in Request, NEW p \in Phase, NEW s \in PhaseStatus, SetPhase(r, p, s)
    PROVE  /\ phase' \in [Request -> [Phase -> PhaseStatus]]
           /\ phase'[r][p] = s
           /\ \A x \in Phase \ {p} : phase'[r][x] = phase[r][x]
           /\ \A q \in Request \ {r} : phase'[q] = phase[q]
<1>1. phase' = [phase EXCEPT ![r] = [phase[r] EXCEPT ![p] = s]]
  BY DEF SetPhase
<1>2. phase[r] \in [Phase -> PhaseStatus] /\ [phase[r] EXCEPT ![p] = s] \in [Phase -> PhaseStatus]
  BY DEF TypeOK
<1>3. phase'[r] = [phase[r] EXCEPT ![p] = s]
  BY <1>1 DEF TypeOK
<1> QED
  BY <1>1, <1>2, <1>3 DEF TypeOK

LEMMA WritePhase ==
    ASSUME Inv, NEW r \in Request,
           Prepare(r) \/ Open(r) \/ Close(r) \/ Fail(r) \/ WriteReceipt(r) \/ Finish(r)
    PROVE  Inv'
<1>0. Evidence(r)
  BY DEF Inv, IInv, EvidenceOK
<1>1. PICK l \in {"look", "transport", "settle", "finish", "quiet", "record"},
           p \in Phase, s \in PhaseStatus :
         /\ pc' = [pc EXCEPT ![r] = l] /\ SetPhase(r, p, s)
         /\ \/ l = "look" /\ p = "prepared" /\ pc[r] = "prepare"
            \/ l = "transport" /\ p = "transport" /\ s = "RUNNING" /\ pc[r] = "open"
            \/ l = "settle" /\ p = "transport" /\ s = result[r] /\ s \in Outcome
               /\ pc[r] \in {"close", "fail"}
            \/ l = "finish" /\ p = "receipt" /\ s = "COMPLETED" /\ pc[r] = "receipt"
            \/ l \in {"quiet", "record"} /\ p = "dispatch" /\ s = result[r] /\ pc[r] = "finish"
  <2>1. /\ "prepared" \in Phase /\ "transport" \in Phase /\ "receipt" \in Phase
        /\ "dispatch" \in Phase
        /\ "COMPLETED" \in PhaseStatus /\ "RUNNING" \in PhaseStatus /\ "FAILED" \in PhaseStatus
        /\ "COMPLETED" \in Outcome /\ "FAILED" \in Outcome /\ Outcome \subseteq PhaseStatus
    BY DEF Phase, PhaseStatus, Outcome
  <2>2. CASE Prepare(r)
    BY <2>1, <2>2 DEF Prepare, Goto
  <2>3. CASE Open(r)
    BY <2>1, <2>3 DEF Open, Goto
  <2>4. CASE Close(r)
    BY <1>0, <2>1, <2>4 DEF Close, Goto, Evidence
  <2>5. CASE Fail(r)
    BY <1>0, <2>1, <2>5 DEF Fail, Goto, Evidence
  <2>6. CASE WriteReceipt(r)
    BY <2>1, <2>6 DEF WriteReceipt, Goto
  <2>7. CASE Finish(r)
    <3>1. result[r] \in Outcome
      BY <1>0, <2>7 DEF Finish, Evidence, Late
    <3> QED
      BY <2>1, <2>7, <3>1 DEF Finish, Goto
  <2> QED
    BY <2>2, <2>3, <2>4, <2>5, <2>6, <2>7
<1>2. UNCHANGED <<up, state, accepting, contract, to, operator, health, faults, product, row,
                  package, result>>
  BY DEF Prepare, Open, Close, Fail, WriteReceipt, Finish
<1>3. /\ phase' \in [Request -> [Phase -> PhaseStatus]]
      /\ phase'[r][p] = s
      /\ \A x \in Phase \ {p} : phase'[r][x] = phase[r][x]
      /\ \A q \in Request \ {r} : phase'[q] = phase[q]
  BY <1>1, PhaseType DEF Inv
<1>4. l \in Admitted /\ pc'[r] = l /\ pc' \in [Request -> Awaiting \cup Admitted]
  BY <1>1 DEF Admitted, Inv, TypeOK
<1>5. TypeOK'
  BY <1>2, <1>3, <1>4 DEF Inv, TypeOK, operator, health
<1>6. Others(r)
  BY <1>1, <1>2, <1>3 DEF Others, Inv, TypeOK
<1>7. Evidence(r)'
  <2>1. "transport" \in Phase /\ "receipt" \in Phase /\ "dispatch" \in Phase
        /\ None = None
    BY DEF Phase
  <2>2. CASE l = "look"
    BY <1>0, <1>1, <1>2, <1>3, <1>4, <2>1, <2>2 DEF Evidence, Early, Late
  <2>3. CASE l = "transport"
    BY <1>0, <1>1, <1>2, <1>3, <1>4, <2>1, <2>3 DEF Evidence, Early, Late
  <2>4. CASE l = "settle"
    BY <1>0, <1>1, <1>2, <1>3, <1>4, <2>1, <2>4 DEF Evidence, Early, Late
  <2>5. CASE l = "finish"
    BY <1>0, <1>1, <1>2, <1>3, <1>4, <2>1, <2>5 DEF Evidence, Early, Late
  <2>6. CASE l \in {"quiet", "record"}
    BY <1>0, <1>1, <1>2, <1>3, <1>4, <2>1, <2>6 DEF Evidence, Early, Late
  <2> QED
    BY <2>2, <2>3, <2>4, <2>5, <2>6
<1> QED
  BY <1>1, <1>2, <1>4, <1>5, <1>6, <1>7, WriteOn

\* The product has answered, in the one way or the other.
LEMMA AnswerInv ==
    ASSUME Inv, NEW r \in Request, Answer(r)
    PROVE  Inv'
<1>0. Evidence(r)
  BY DEF Inv, IInv, EvidenceOK
<1>1. PICK s \in Outcome : /\ result' = [result EXCEPT ![r] = s]
                           /\ Goto(r, IF s = "COMPLETED" THEN "close" ELSE "degrade")
  BY DEF Answer
<1>2. PICK l \in {"close", "degrade"} :
         /\ pc' = [pc EXCEPT ![r] = l]
         /\ (l = "close" => s = "COMPLETED") /\ (l = "degrade" => s = "FAILED")
  BY <1>1 DEF Goto, Outcome
<1>3. UNCHANGED <<up, state, accepting, records, to, operator, health, faults>>
      /\ pc[r] \in {"transport", "fallback"}
  BY DEF Answer
<1>4. /\ l \in Admitted /\ pc'[r] = l /\ pc' \in [Request -> Awaiting \cup Admitted]
      /\ result' \in [Request -> Outcome \cup {None}] /\ result'[r] = s
  BY <1>1, <1>2 DEF Admitted, Inv, TypeOK
<1>5. TypeOK'
  BY <1>3, <1>4 DEF Inv, TypeOK, operator, health, records
<1>6. Others(r)
  BY <1>1, <1>2, <1>3 DEF Others, Inv, TypeOK, records
<1>7. Evidence(r)'
  BY <1>0, <1>2, <1>3, <1>4 DEF Evidence, Early, Late, records
<1> QED
  BY <1>2, <1>3, <1>4, <1>5, <1>6, <1>7, WriteOn DEF records

LEMMA DegradeInv ==
    ASSUME Inv, NEW r \in Request, Degrade(r)
    PROVE  Inv'
<1>0. Evidence(r)
  BY DEF Inv, IInv, EvidenceOK
<1>1. /\ pc[r] = "degrade" /\ pc' = [pc EXCEPT ![r] = "degrading"]
      /\ product' = [product EXCEPT ![to[r]] = "DEGRADED"]
      /\ UNCHANGED <<up, state, accepting, contract, row, phase, package, to, result, operator,
                     health, faults>>
  BY DEF Degrade, Goto, SetProduct
<1>2. "degrading" \in Admitted /\ pc'[r] = "degrading" /\ pc' \in [Request -> Awaiting \cup Admitted]
  BY <1>1 DEF Admitted, Inv, TypeOK
<1>3. TypeOK'
  BY <1>1, <1>2 DEF Inv, TypeOK, operator, health
<1>4. Others(r)
  BY <1>1 DEF Others, Inv, TypeOK
<1>5. Evidence(r)'
  BY <1>0, <1>1, <1>2 DEF Evidence, Early, Late
<1> QED
  BY <1>1, <1>2, <1>3, <1>4, <1>5, WriteOn

\* The package is recorded, of a product that is not detached.
LEMMA RecordInv ==
    ASSUME Inv, NEW r \in Request, Record(r)
    PROVE  Inv'
<1>0. Evidence(r)
  BY DEF Inv, IInv, EvidenceOK
<1>1. /\ pc[r] = "record"
      /\ UNCHANGED <<up, state, accepting, product, contract, row, phase, to, result, operator,
                     health, faults>>
  BY DEF Record
<1>2. CASE Goto(r, "leave") /\ package' = package
  BY <1>1, <1>2, GoOn DEF Admitted, Early, Late, records, Inv, TypeOK
<1>3. CASE /\ package' = [package EXCEPT ![r] = [status |-> row[r], phases |-> phase[r]]]
           /\ Goto(r, "publish")
  <2>1. row[r] \in Outcome
    BY <1>0, <1>1 DEF Evidence, Late
  <2>2. [status |-> row[r], phases |-> phase[r]] \in Package
    BY <2>1 DEF Package, Inv, TypeOK
  <2>3. /\ package' \in [Request -> Package \cup {None}]
        /\ package'[r] = [status |-> row[r], phases |-> phase[r]]
        /\ "publish" \in Admitted /\ pc' = [pc EXCEPT ![r] = "publish"] /\ pc'[r] = "publish"
        /\ pc' \in [Request -> Awaiting \cup Admitted]
    BY <1>3, <2>2 DEF Inv, TypeOK, Goto, Admitted
  <2>4. TypeOK'
    BY <1>1, <2>3 DEF Inv, TypeOK, operator, health
  <2>5. Others(r)
    BY <1>1, <1>3, <2>3 DEF Others, Inv, TypeOK
  <2>6. Evidence(r)'
    BY <1>0, <1>1, <2>1, <2>3 DEF Evidence, Early, Late
  <2> QED
    BY <1>1, <2>3, <2>4, <2>5, <2>6, WriteOn
<1> QED
  BY <1>2, <1>3 DEF Record

\* The lifecycle lets a runtime that is ACTIVE become READY or DEGRADED.
LEMMA ActiveLeaves ==
    ASSUME state = "ACTIVE"
    PROVE  Legal("READY") /\ Legal("DEGRADED") /\ Legal("ACTIVE")
BY DEF Legal, Allowed

\* The steps that look at the lifecycle or wait.
LEMMA LookInv ==
    ASSUME Inv, NEW r \in Request,
           \/ Look(r) \/ FallBack(r) \/ Quiet(r) \/ Publish(r) \/ Leave(r) \/ Cancel(r)
           \/ \E p \in Product : Admit(r, p)
    PROVE  Inv'
<1>1. state \in State /\ faults \in Nat
  BY DEF Inv, TypeOK
<1>2. ASSUME Look(r) PROVE Inv'
  <2>1. PICK l \in {"activate", "open"} : Goto(r, l)
    BY <1>2 DEF Look
  <2>2. l \in Admitted /\ l \in Early /\ l \notin {"close", "settle", "degrade", "degrading", "fail"}
        /\ pc[r] \in Early
    BY <1>2 DEF Look, Admitted, Early
  <2> QED
    BY <1>1, <1>2, <2>1, <2>2, GoOn DEF Look
<1>3. ASSUME FallBack(r) PROVE Inv'
  <2>1. "fallback" \in Admitted /\ "fallback" \in Early /\ pc[r] \in Early
    BY <1>3 DEF FallBack, Admitted, Early
  <2> QED
    BY <1>1, <1>3, <2>1, GoOn DEF FallBack
<1>4. ASSUME Quiet(r) PROVE Inv'
  <2>1. PICK l \in {"quieten", "record"} : Goto(r, l)
    BY <1>4 DEF Quiet
  <2>2. l \in Admitted /\ l \in Late /\ l \notin {"receipt", "finish"} /\ pc[r] \in Late
    BY <1>4 DEF Quiet, Admitted, Late
  <2> QED
    BY <1>1, <1>4, <2>1, <2>2, GoOn DEF Quiet
<1>5. ASSUME Publish(r) \/ Cancel(r) PROVE Inv'
  <2>1. "leave" \in Admitted /\ "leave" \notin Early \cup Late
    BY DEF Admitted, Early, Late
  <2>2. Goto(r, "leave") /\ faults' \in Nat /\ state' = state
        /\ UNCHANGED <<up, accepting, records, to, result, operator, health>>
    BY <1>1, <1>5 DEF Publish, Cancel, Strike
  <2> QED
    BY <1>1, <2>1, <2>2, GoOn
<1>6. ASSUME Leave(r) PROVE Inv'
  <2>1. "leaving" \in Admitted /\ "leaving" \notin Early \cup Late
        /\ "done" \in Awaiting /\ "done" \notin Early \cup Late
    BY DEF Admitted, Awaiting, Early, Late
  <2>2. UNCHANGED <<up, state, accepting, records, to, result, operator, health, faults>>
    BY <1>6 DEF Leave
  <2>3. CASE state = "ACTIVE" /\ Goto(r, "leaving")
    BY <1>1, <2>1, <2>2, <2>3, GoOn
  <2>4. CASE state # "ACTIVE" /\ Goto(r, "done")
    BY <1>1, <2>1, <2>2, <2>4, GoOn
  <2> QED
    BY <1>6, <2>3, <2>4 DEF Leave
<1>7. ASSUME NEW p \in Product, Admit(r, p) PROVE Inv'
  <2>1. "create" \in Admitted /\ "create" \in Early /\ pc[r] \in Early
    BY <1>7 DEF Admit, Admitted, Early
  <2> QED
    BY <1>1, <1>7, <2>1, GoOn DEF Admit
<1> QED
  BY <1>2, <1>3, <1>4, <1>5, <1>6, <1>7

\* The steps of a dispatch that change the state of the lifecycle.
LEMMA MoveInv ==
    ASSUME Inv, NEW r \in Request, Activate(r) \/ Degrading(r) \/ Quieten(r) \/ Leaving(r)
    PROVE  Inv'
<1>1. state \in State /\ faults \in Nat /\ "ACTIVE" \in State /\ "READY" \in State
      /\ "DEGRADED" \in State
  BY DEF Inv, TypeOK, State
<1>2. /\ "done" \in Awaiting /\ "done" \notin Early \cup Late
      /\ "leave" \in Admitted /\ "leave" \notin Early \cup Late
      /\ "open" \in Admitted /\ "open" \in Early /\ "activate" \in Early
      /\ "fail" \in Admitted /\ "fail" \in Early /\ "degrading" \in Early
      /\ "record" \in Admitted /\ "record" \in Late /\ "quieten" \in Late
  BY DEF Awaiting, Admitted, Early, Late
<1>3. UNCHANGED <<up, accepting, records, to, result, operator, health, faults>>
  BY DEF Activate, Degrading, Quieten, Leaving
<1>4. ASSUME Activate(r) PROVE Inv'
  <2>1. CASE Legal("ACTIVE")
    <3>1. state' = "ACTIVE" /\ Goto(r, "open") /\ pc[r] = "activate"
      BY <1>4, <2>1 DEF Activate, Move
    <3> QED
      BY <1>1, <1>2, <1>3, <3>1, GoOn
  <2>2. CASE ~Legal("ACTIVE")
    <3>1. state' = state /\ Goto(r, "done") /\ state # "ACTIVE"
      BY <1>4, <2>2, ActiveLeaves DEF Activate, Move
    <3> QED
      BY <1>1, <1>2, <1>3, <3>1, GoOn
  <2> QED
    BY <2>1, <2>2
<1>5. ASSUME Degrading(r) PROVE Inv'
  <2>1. CASE Legal("DEGRADED")
    <3>1. state' = "DEGRADED" /\ Goto(r, "fail") /\ pc[r] = "degrading"
      BY <1>5, <2>1 DEF Degrading, Move
    <3> QED
      BY <1>1, <1>2, <1>3, <3>1, GoOn
  <2>2. CASE ~Legal("DEGRADED")
    <3>1. state' = state /\ Goto(r, "leave")
      BY <1>5, <2>2 DEF Degrading, Move
    <3> QED
      BY <1>1, <1>2, <1>3, <3>1, GoOn
  <2> QED
    BY <2>1, <2>2
<1>6. ASSUME Quieten(r) PROVE Inv'
  <2>1. CASE Legal("READY")
    <3>1. state' = "READY" /\ Goto(r, "record") /\ pc[r] = "quieten"
      BY <1>6, <2>1 DEF Quieten, Move
    <3> QED
      BY <1>1, <1>2, <1>3, <3>1, GoOn
  <2>2. CASE ~Legal("READY")
    <3>1. state' = state /\ Goto(r, "leave")
      BY <1>6, <2>2 DEF Quieten, Move
    <3> QED
      BY <1>1, <1>2, <1>3, <3>1, GoOn
  <2> QED
    BY <2>1, <2>2
<1>7. ASSUME Leaving(r) PROVE Inv'
  <2>1. Goto(r, "done")
    BY <1>7 DEF Leaving, Move
  <2>2. state' \in State /\ state' # "ACTIVE"
    BY <1>1, <1>7, ActiveLeaves DEF Leaving, Move
  <2> QED
    BY <1>1, <1>2, <1>3, <2>1, <2>2, GoOn
<1> QED
  BY <1>4, <1>5, <1>6, <1>7

-----------------------------------------------------------------------------
(* Steps of the supervisor's thread and of the operator.                    *)

\* The thread and the operator leave the dispatches alone, and never make the
\* runtime ACTIVE.
LEMMA ElsewhereInv ==
    ASSUME Inv, TypeOK', UNCHANGED <<row, phase, package, request>>,
           state' = "ACTIVE" /\ up' /\ opc' # "start" => state = "ACTIVE" /\ up /\ opc # "start"
    PROVE  Inv'
<1>1. EvidenceOK'
  BY SameEvidence DEF Inv, IInv, request
<1>2. BusyOK'
  BY DEF Inv, IInv, BusyOK, request
<1> QED
  BY <1>1, <1>2 DEF Inv, IInv

\* What a step of the thread does to its own state.
HealthType ==
    /\ hpc \in Checking
    /\ seen \in [Product -> {"ATTACHED", "DEGRADED", None}]
    /\ at \in Product \cup {None}

LEMMA RestType ==
    ASSUME Rest
    PROVE  HealthType'
BY DEF Rest, HealthType, Checking

LEMMA PassType ==
    ASSUME TypeOK, NEW p, Pass(p)
    PROVE  HealthType'
<1>1. hpc' \in {"idle", "check"}
  BY DEF Pass
<1> QED
  BY <1>1 DEF Pass, HealthType, TypeOK, Checking

\* The thread changes the products or the state, and nothing else.
LEMMA ThreadInv ==
    ASSUME Inv, HealthType', product' \in [Product -> {"ATTACHED", "DEGRADED", "DETACHED"}],
           state' = state \/ state' \in State \ {"ACTIVE"}, faults' \in Nat,
           UNCHANGED <<up, accepting, contract, row, phase, package, request, operator>>
    PROVE  Inv'
<1>1. TypeOK'
  BY DEF Inv, TypeOK, HealthType, request, operator
<1> QED
  BY <1>1, ElsewhereInv DEF operator

LEMMA MoveHealthInv ==
    ASSUME Inv, NEW s \in State \ {"ACTIVE"}, MoveHealth(s),
           UNCHANGED <<up, accepting, records, request, operator, faults>>
    PROVE  Inv'
<1>1. HealthType'
  BY RestType, PassType DEF MoveHealth, Inv
<1>2. state' = state \/ state' = s
  BY DEF MoveHealth
<1> QED
  BY <1>1, <1>2, ThreadInv DEF records, Inv, TypeOK

LEMMA CheckInv ==
    ASSUME Inv, Check \/ \E p \in Product : Unhealthy(p)
    PROVE  Inv'
<1>0. TypeOK /\ faults \in Nat
  BY DEF Inv, TypeOK
<1>1. ASSUME DegradeHealth \/ RestoreHealth PROVE Inv'
  BY <1>1, MoveHealthInv DEF DegradeHealth, RestoreHealth, State
<1>2. ASSUME Tick PROVE Inv'
  <2>1. HealthType'
    BY <1>0, <1>2 DEF Tick, HealthType, Checking, TypeOK
  <2> QED
    BY <1>0, <1>2, <2>1, ThreadInv DEF Tick, records, TypeOK
<1>3. ASSUME NEW p \in Product, Unknown(p) PROVE Inv'
  <2>1. HealthType'
    BY <1>0, <1>3, PassType DEF Unknown
  <2> QED
    BY <1>0, <1>3, <2>1, ThreadInv DEF Unknown, records, TypeOK
<1>4. ASSUME NEW p \in Product, Healthy(p) PROVE Inv'
  <2>1. HealthType'
    <3>1. CASE Pass(p)
      BY <1>0, <3>1, PassType
    <3>2. CASE hpc' = "attach" /\ at' = p /\ UNCHANGED seen
      BY <1>0, <3>2 DEF HealthType, Checking, TypeOK
    <3> QED
      BY <1>4, <3>1, <3>2 DEF Healthy
  <2> QED
    BY <1>0, <1>4, <2>1, ThreadInv DEF Healthy, records, TypeOK
<1>5. ASSUME NEW p \in Product, Unhealthy(p) PROVE Inv'
  <2>1. HealthType'
    <3>1. CASE Pass(p)
      BY <1>0, <3>1, PassType
    <3>2. CASE hpc' = "mark" /\ at' = p /\ UNCHANGED seen
      BY <1>0, <3>2 DEF HealthType, Checking, TypeOK
    <3> QED
      BY <1>5, <3>1, <3>2 DEF Unhealthy
  <2>2. faults' \in Nat
    BY <1>0, <1>5 DEF Unhealthy, Strike
  <2> QED
    BY <1>0, <1>5, <2>1, <2>2, ThreadInv DEF Unhealthy, records, TypeOK
<1>6. ASSUME Mark PROVE Inv'
  <2>1. HealthType'
    BY <1>0, <1>6 DEF Mark, HealthType, Checking, TypeOK
  <2> QED
    BY <1>0, <1>6, <2>1, ThreadInv DEF Mark, SetProduct, TypeOK
<1>7. ASSUME AttachHealth PROVE Inv'
  <2>1. HealthType' /\ product' \in [Product -> {"ATTACHED", "DEGRADED", "DETACHED"}]
    <3>1. CASE SetProduct(at, "ATTACHED") /\ hpc' = "register" /\ UNCHANGED <<seen, at>>
      BY <1>0, <3>1 DEF HealthType, Checking, TypeOK, SetProduct
    <3>2. CASE UNCHANGED product /\ Rest
      BY <1>0, <3>2, RestType DEF TypeOK
    <3> QED
      BY <1>7, <3>1, <3>2 DEF AttachHealth
  <2> QED
    BY <1>0, <1>7, <2>1, ThreadInv DEF AttachHealth
<1>8. ASSUME LookHealth \/ RegisterHealth \/ AllHealth \/ ListHealth PROVE Inv'
  <2>1. HealthType'
    <3>1. CASE Pass(at) \/ Rest
      BY <1>0, <3>1, PassType, RestType
    <3>2. CASE hpc' \in {"degrade", "all", "listing", "restore"} /\ UNCHANGED <<seen, at>>
      BY <1>0, <3>2 DEF HealthType, Checking, TypeOK
    <3> QED
      BY <1>8, <3>1, <3>2 DEF LookHealth, RegisterHealth, AllHealth, ListHealth
  <2>2. UNCHANGED <<up, state, accepting, records, request, operator, faults>>
    BY <1>8 DEF LookHealth, RegisterHealth, AllHealth, ListHealth
  <2> QED
    BY <1>0, <2>1, <2>2, ThreadInv DEF records, TypeOK
<1> QED
  BY <1>1, <1>2, <1>3, <1>4, <1>5, <1>6, <1>7, <1>8 DEF Check

\* Attach, detach, load and what ends them, stop and start again.
LEMMA OperatorInv ==
    ASSUME Inv,
           \/ All \/ List \/ Restore \/ Drain \/ Initialize \/ Boot
           \/ \E b \in BOOLEAN : Stop(b)
           \/ \E p \in Product : Attach(p) \/ Detach(p) \/ Load(p)
    PROVE  Inv'
<1>0. TypeOK
  BY DEF Inv
<1>1. ASSUME NEW p \in Product, Attach(p) \/ Detach(p) PROVE Inv'
  <2>1. TypeOK'
    BY <1>0, <1>1 DEF Attach, Detach, TypeOK, SetProduct, Operate, Operating, request, health
  <2> QED
    BY <1>1, <2>1, ElsewhereInv DEF Attach, Detach, LoopFree
<1>2. ASSUME NEW p \in Product, Load(p) PROVE Inv'
  <2>1. TypeOK'
    BY <1>0, <1>2 DEF Load, TypeOK, SetProduct, Operating, request, health
  <2> QED
    BY <1>2, <2>1, ElsewhereInv DEF Load
<1>3. ASSUME All \/ List PROVE Inv'
  <2>1. opc' \in Operating /\ UNCHANGED <<load, ops>> /\ opc # "start"
        /\ UNCHANGED <<up, state, accepting, records, request, again, health, faults>>
    BY <1>3 DEF All, List, Proceed, Onward, Operating
  <2>2. TypeOK'
    BY <1>0, <2>1 DEF TypeOK, request, health, records
  <2> QED
    BY <2>1, <2>2, ElsewhereInv DEF records
<1>4. ASSUME Restore \/ Drain \/ Initialize PROVE Inv'
  <2>1. /\ opc' \in Operating /\ UNCHANGED <<load, ops>> /\ opc # "start"
        /\ state' = state \/ state' \in State \ {"ACTIVE"}
        /\ UNCHANGED <<up, accepting, records, request, again, health, faults>>
    BY <1>4 DEF Restore, Drain, Initialize, Proceed, Onward, Operating, State
  <2>2. TypeOK'
    BY <1>0, <2>1 DEF TypeOK, request, health, records
  <2> QED
    BY <2>1, <2>2, ElsewhereInv DEF records
<1>5. ASSUME NEW b \in BOOLEAN, Stop(b) PROVE Inv'
  <2>1. TypeOK'
    BY <1>0, <1>5 DEF Stop, TypeOK, Operate, Operating, request, health, records
  <2> QED
    BY <1>5, <2>1, ElsewhereInv DEF Stop, LoopFree, records
<1>6. ASSUME Boot PROVE Inv'
  <2>1. state' \in State
    BY <1>0, <1>6 DEF Boot, TypeOK, State
  <2>2. TypeOK' /\ opc' = "start"
    BY <1>0, <1>6, <2>1 DEF Boot, TypeOK, Operate, Operating, request, health, records
  <2> QED
    BY <1>6, <2>2, ElsewhereInv DEF Boot, records
<1> QED
  BY <1>1, <1>2, <1>3, <1>4, <1>5, <1>6

\* A process that is gone leaves the records to the next one.
LEMMA GoneInv ==
    ASSUME Inv, Gone, state' \in State, ops' = ops, faults' \in Nat
    PROVE  Inv'
<1>1. HealthType'
  BY RestType DEF Gone
<1>2. /\ up' = FALSE /\ accepting' = FALSE /\ opc' = "idle" /\ again' = FALSE /\ load' = {}
      /\ UNCHANGED <<records, to, result>>
      /\ pc' = [r \in Request |-> IF pc[r] = "idle" THEN "idle" ELSE "done"]
  BY DEF Gone
<1>3. pc' \in [Request -> Awaiting \cup Admitted]
  BY <1>2 DEF Awaiting
<1>4. TypeOK'
  BY <1>1, <1>2, <1>3 DEF Inv, TypeOK, HealthType, records, Operating
<1>5. EvidenceOK'
  <2>1. "done" \notin Early \cup Late
    BY DEF Early, Late
  <2>2. \A r \in Request : pc'[r] = pc[r] \/ pc'[r] \notin Early \cup Late
    BY <1>2, <2>1
  <2> QED
    BY <1>2, <2>2, SameEvidence DEF Inv, IInv, records
<1>6. BusyOK'
  BY <1>2 DEF BusyOK
<1> QED
  BY <1>4, <1>5, <1>6 DEF Inv, IInv

LEMMA ProcessInv ==
    ASSUME Inv, Stopped \/ Start \/ Crash
    PROVE  Inv'
<1>0. TypeOK /\ "STOPPED" \in State /\ "READY" \in State
  BY DEF Inv, State
<1>1. ASSUME Stopped PROVE Inv'
  <2>1. CASE Gone
    BY <1>0, <1>1, <2>1, GoneInv DEF Stopped, TypeOK
  <2>2. CASE /\ opc' = "initialize" /\ accepting' = FALSE
             /\ UNCHANGED <<up, records, request, again, load, health>>
    <3>1. TypeOK' /\ state' = "STOPPED"
      BY <1>0, <1>1, <2>2 DEF Stopped, TypeOK, Operating, request, health, records
    <3> QED
      BY <2>2, <3>1, ElsewhereInv DEF records
  <2> QED
    BY <1>1, <2>1, <2>2 DEF Stopped
<1>2. ASSUME Start PROVE Inv'
  <2>1. CASE Gone /\ UNCHANGED state
    BY <1>0, <1>2, <2>1, GoneInv DEF Start, TypeOK
  <2>2. CASE /\ state' = "READY" /\ accepting' = TRUE /\ load' = Sources
             /\ opc' = IF Sources = {} THEN "idle" ELSE "load"
             /\ again' = FALSE /\ UNCHANGED <<up, records, request, health>>
    <3>1. opc' \in Operating
      BY <2>2 DEF Operating
    <3>2. TypeOK'
      BY <1>0, <1>2, <2>2, <3>1, SourcesAssumption
      DEF Start, TypeOK, request, health, records
    <3> QED
      BY <2>2, <3>2, ElsewhereInv DEF records
  <2> QED
    BY <1>2, <2>1, <2>2 DEF Start
<1>3. ASSUME Crash PROVE Inv'
  <2>1. faults' \in Nat
    BY <1>0, <1>3 DEF Crash, Strike, TypeOK
  <2> QED
    BY <1>0, <1>3, <2>1, GoneInv DEF Crash, TypeOK
<1> QED
  BY <1>1, <1>2, <1>3

-----------------------------------------------------------------------------
(* What holds of every behaviour.                                           *)

LEMMA InitInv ==
    ASSUME Init
    PROVE  Inv
<1>1. TypeOK
  <2>1. NoPhases \in [Phase -> PhaseStatus]
    BY DEF NoPhases, Phase, PhaseStatus
  <2> QED
    BY <2>1 DEF Init, TypeOK, State, Awaiting, Operating, Checking
<1>2. EvidenceOK
  <2> SUFFICES ASSUME NEW r \in Request PROVE Evidence(r)
    BY DEF EvidenceOK
  <2>1. /\ row[r] = "ABSENT" /\ package[r] = None /\ pc[r] = "idle"
        /\ phase[r]["receipt"] = "ABSENT" /\ phase[r]["dispatch"] = "ABSENT"
    BY DEF Init, NoPhases, Phase
  <2> QED
    BY <2>1 DEF Evidence, Early, Late, Outcome
<1>3. BusyOK
  BY DEF Init, BusyOK
<1> QED
  BY <1>1, <1>2, <1>3 DEF Inv, IInv

LEMMA NextInv ==
    ASSUME Inv, [Next]_vars
    PROVE  Inv'
<1>1. ASSUME NEW r \in Request, Serve(r) \/ Cancel(r) \/ \E p \in Product : Admit(r, p)
      PROVE  Inv'
  BY <1>1, WriteRow, WritePhase, AnswerInv, DegradeInv, RecordInv, LookInv, MoveInv DEF Serve
<1>2. CASE Check \/ \E p \in Product : Unhealthy(p)
  BY <1>2, CheckInv
<1>3. CASE \/ \E p \in Product : Attach(p) \/ Detach(p)
           \/ \E b \in BOOLEAN : Stop(b)
           \/ Finishing \/ Boot \/ Crash
  BY <1>3, OperatorInv, ProcessInv DEF Finishing
<1>4. CASE UNCHANGED vars
  <2>1. TypeOK'
    BY <1>4 DEF Inv, TypeOK, vars, records, request, operator, health
  <2> QED
    BY <1>4, <2>1, ElsewhereInv DEF vars, records, operator
<1> QED
  BY <1>1, <1>2, <1>3, <1>4 DEF Next

\* The lifecycle, the records of dispatches and both threads of Runtime are what
\* their declarations say in every state.
THEOREM TypeCorrect == Spec => []TypeOK
<1>1. Inv => TypeOK
  BY DEF Inv
<1> QED
  BY <1>1, InitInv, NextInv, PTL DEF Spec

\* Whenever the process dies or the health of a product changes, the outcome that
\* dispatch writes has its evidence in the phases and in the package.
THEOREM EvidenceHolds == Spec => []OutcomeHasEvidence
<1>1. Inv => OutcomeHasEvidence
  BY DEF Inv, IInv, EvidenceOK, Evidence, OutcomeHasEvidence
<1> QED
  BY <1>1, InitInv, NextInv, PTL DEF Spec

\* The runtime is ACTIVE only as long as a dispatch is between its entry check and
\* its finally, whatever the supervisor's thread does to the lifecycle meanwhile.
THEOREM ActiveMeansBusy == Spec => []ActiveIsBusy
<1>1. Inv => ActiveIsBusy
  BY DEF Inv, IInv, BusyOK, ActiveIsBusy
<1> QED
  BY <1>1, InitInv, NextInv, PTL DEF Spec

-----------------------------------------------------------------------------
(* Routing: how a request comes to an intent.                                *)

\* A set of candidates with scores, whose order is strict and total.
Scored(score, U) == U \subseteq Candidate /\ \A c \in U : score[c] \in Int

LEMMA CandidateFinite == Candidate \subseteq Int /\ IsFiniteSet(Candidate)
<1>1. Len(Published) \in Nat
  BY RoutingAssumption DEF RoutingAssumption, PublishedAssumption
<1>2. IsFiniteSet(1..Len(Published))
  BY <1>1, FS_Interval
<1> QED
  BY <1>1, <1>2 DEF Candidate

LEMMA AheadIsOrder ==
    ASSUME NEW score, NEW U, Scored(score, U), NEW a \in U, NEW b \in U
    PROVE  /\ a # b => Ahead(score, a, b) \/ Ahead(score, b, a)
           /\ \A c \in U : Ahead(score, a, b) /\ Ahead(score, b, c) => Ahead(score, a, c)
  BY CandidateFinite DEF Scored, Ahead

\* Of finitely many candidates one comes last.
LEMMA OneIsLast ==
    ASSUME NEW score, NEW S, IsFiniteSet(S), Scored(score, S), S # {}
    PROVE  \E x \in S : \A y \in S \ {x} : Ahead(score, y, x)
<1> DEFINE HasLast(U) == \E x \in U : \A y \in U \ {x} : Ahead(score, y, x)
           Bad == {U \in SUBSET S : U # {} /\ ~HasLast(U)}
<1>1. SUFFICES ASSUME Bad # {} PROVE FALSE
  BY <1>1
<1>2. Bad \subseteq FiniteSubsetsOf(S)
  BY FS_Subset DEF FiniteSubsetsOf
<1>3. PICK U \in Bad : \A V \in Bad : <<V, U>> \notin StrictSubsetOrdering(S)
  <2> HIDE DEF Bad
  <2> QED
    BY <1>1, <1>2, FS_StrictSubsetOrderingWellFounded, WFMin
<1>4. PICK x \in U : TRUE
  OBVIOUS
<1>5. U \ {x} \notin Bad
  BY <1>3, <1>4 DEF StrictSubsetOrdering
<1>6. U \subseteq S /\ Scored(score, U)
  BY DEF Scored
<1>7. CASE U \ {x} = {}
  <2>1. HasLast(U)
    BY <1>4, <1>7
  <2> QED
    BY <2>1
<1>8. CASE U \ {x} # {}
  <2>1. PICK y \in U \ {x} : \A z \in (U \ {x}) \ {y} : Ahead(score, z, y)
    BY <1>5, <1>6, <1>8
  <2>2. CASE Ahead(score, x, y)
    <3>1. \A z \in U \ {y} : Ahead(score, z, y)
      BY <2>1, <2>2
    <3> QED
      BY <2>1, <3>1
  <2>3. CASE Ahead(score, y, x)
    <3>1. ASSUME NEW z \in U \ {x} PROVE Ahead(score, z, x)
      BY <1>4, <1>6, <2>1, <2>3, <3>1, AheadIsOrder
    <3> QED
      BY <1>4, <3>1
  <2> QED
    BY <1>4, <1>6, <2>1, <2>2, <2>3, AheadIsOrder
<1> QED
  BY <1>7, <1>8

\* What is in the order of the scores.
Sorted(score, s) == \A m, n \in DOMAIN s : m < n => Ahead(score, s[m], s[n])

\* Finitely many candidates have an order by their scores.
LEMMA OrderExists ==
    ASSUME NEW score, NEW S, IsFiniteSet(S), Scored(score, S)
    PROVE  \E s \in SetToSeqs(S) : Sorted(score, s)
<1> DEFINE Bad == {U \in SUBSET S : ~\E s \in SetToSeqs(U) : Sorted(score, s)}
<1>1. SUFFICES ASSUME Bad # {} PROVE FALSE
  BY <1>1
<1>2. Bad \subseteq FiniteSubsetsOf(S)
  BY FS_Subset DEF FiniteSubsetsOf
<1>3. PICK U \in Bad : \A V \in Bad : <<V, U>> \notin StrictSubsetOrdering(S)
  <2> HIDE DEF Bad
  <2> QED
    BY <1>1, <1>2, FS_StrictSubsetOrderingWellFounded, WFMin
<1>4. U \subseteq S /\ Scored(score, U) /\ IsFiniteSet(U)
  BY FS_Subset DEF Scored
<1>5. CASE U = {}
  <2>1. Cardinality(U) = 0
    BY <1>5, FS_EmptySet
  <2>2. 1..0 = {}
    OBVIOUS
  <2> DEFINE e == [i \in {} |-> i]
  <2>3. e \in SetToSeqs(U) /\ Sorted(score, e)
    BY <2>1, <2>2 DEF SetToSeqs, Sorted
  <2> QED
    BY <2>3
<1>6. CASE U # {}
  <2>1. PICK x \in U : \A y \in U \ {x} : Ahead(score, y, x)
    BY <1>4, <1>6, OneIsLast
  <2>2. U \ {x} \in SUBSET S /\ U \ {x} \notin Bad
    BY <1>3, <2>1 DEF StrictSubsetOrdering
  <2>3. PICK s \in SetToSeqs(U \ {x}) : Sorted(score, s)
    BY <2>2
  <2>4. /\ Cardinality(U) \in Nat /\ Cardinality(U \ {x}) \in Nat
        /\ Cardinality(U) = Cardinality(U \ {x}) + 1
    <3>1. IsFiniteSet(U \ {x}) /\ Cardinality(U \ {x}) = Cardinality(U) - 1
      BY <1>4, FS_RemoveElement
    <3>2. Cardinality(U) \in Nat
      BY <1>4, FS_CardinalityType
    <3>3. Cardinality(U \ {x}) \in Nat
      BY <3>1, FS_CardinalityType
    <3> QED
      BY <3>1, <3>2, <3>3
  <2> DEFINE n == Cardinality(U \ {x})
             t == [i \in 1..(n + 1) |-> IF i = n + 1 THEN x ELSE s[i]]
  <2>5. s \in [1..n -> U \ {x}] /\ \A i, j \in 1..n : i # j => s[i] # s[j]
    BY <2>3 DEF SetToSeqs
  <2>6. n \in Nat /\ \A i \in 1..(n + 1) : i = n + 1 \/ i \in 1..n
    BY <2>4
  <2> HIDE DEF n
  <2>7. t \in [1..(n + 1) -> U] /\ \A i, j \in 1..(n + 1) : i # j => t[i] # t[j]
    BY <2>5, <2>6
  <2>8. t \in SetToSeqs(U)
    BY <2>4, <2>7 DEF SetToSeqs, n
  <2>9. Sorted(score, t)
    <3> SUFFICES ASSUME NEW i \in 1..(n + 1), NEW j \in 1..(n + 1), i < j
                 PROVE  Ahead(score, t[i], t[j])
      BY DEF Sorted
    <3>1. i \in 1..n /\ t[i] = s[i] /\ s[i] \in U \ {x}
      BY <2>5, <2>6
    <3>2. CASE j = n + 1
      BY <2>1, <3>1, <3>2
    <3>3. CASE j \in 1..n
      BY <2>3, <2>5, <2>6, <3>1, <3>3 DEF Sorted
    <3> QED
      BY <2>6, <3>2, <3>3
  <2> QED
    BY <2>8, <2>9
<1> QED
  BY <1>5, <1>6

-----------------------------------------------------------------------------
\* What manifests publish, and what a request has.
LEMMA PublishedType ==
    ASSUME NEW c \in Candidate
    PROVE  /\ P(c) \in Publisher /\ P(c) # Nil /\ C(c) # Nil
           /\ Required(c) \subseteq Field /\ IsFiniteSet(Required(c))
           /\ Published[c].schema \in [Required(c) -> Type]
           /\ IsFiniteSet(Published[c].text)
           /\ Published[c].scopes \in Nat /\ Latency[P(c)] \in Nat
<1>1. PublishedAssumption /\ Latency \in [Publisher -> Nat]
  BY RoutingAssumption DEF RoutingAssumption
<1>2. P(c) \in Publisher
  BY DEF Publisher, P
<1>3. Published[c].schema \in Schemas /\ Published[c].scopes \in Nat
      /\ IsFiniteSet(Required(c)) /\ IsFiniteSet(Published[c].text) /\ Nil \notin {P(c), C(c)}
  BY <1>1 DEF PublishedAssumption
<1> QED
  BY <1>1, <1>2, <1>3 DEF Required, Schemas

\* The request of a turn of a client that asks in words.
Worded == req \in Requests /\ req.path # "dispatch"

LEMMA RequestType ==
    ASSUME Worded
    PROVE  /\ IsFiniteSet(req.words) /\ IsFiniteSet(req.assignment)
           /\ DOMAIN req.gives \subseteq Field
           /\ \A f \in DOMAIN req.gives : req.gives[f] \in Kind
<1>1. RequestAssumption
  BY RoutingAssumption DEF RoutingAssumption
<1>2. req.gives \in Kinds
  BY <1>1 DEF Worded, RequestAssumption
<1>3. IsFiniteSet(req.words) /\ IsFiniteSet(req.assignment)
  BY <1>1 DEF Worded, RequestAssumption
<1> QED
  BY <1>2, <1>3 DEF Kinds

\* Scores are whole numbers, which is what makes them an order.
LEMMA OverlapType ==
    ASSUME NEW left, NEW right, IsFiniteSet(left)
    PROVE  Overlap(left, right) \in Int
<1>1. Cardinality(left \cap right) \in Nat
  BY FS_Intersection, FS_CardinalityType
<1>2. Cardinality(left) \in Nat
  BY FS_CardinalityType
<1>3. left # {} => Cardinality(left) # 0
  BY FS_EmptySet
<1> QED
  BY <1>1, <1>2, <1>3 DEF Overlap

LEMMA ClampType ==
    ASSUME NEW n \in Int
    PROVE  Clamp(n) \in Int
  BY DEF Clamp, Larger, Lesser

LEMMA ResultFinite ==
    ASSUME Worded
    PROVE  IsFiniteSet(RequiredResult)
<1> DEFINE rest == req.words \ UNION {Actions[n].words : n \in DOMAIN Actions}
<1>1. IsFiniteSet(rest)
  BY RequestType, FS_Difference
<1> HIDE DEF rest
<1>2. \A a : IsFiniteSet({a} \cup rest)
  BY <1>1, FS_AddElement
<1> QED
  BY <1>2 DEF RequiredResult, rest

LEMMA ExpectationType ==
    ASSUME Worded, NEW c \in Candidate
    PROVE  Expectation(c) \in Int
<1>1. Overlap(req.words, Published[c].text) \in Int
  BY RequestType, OverlapType
<1>2. Overlap(RequiredResult, Published[c].text) \in Int
  BY ResultFinite, OverlapType
<1> QED
  BY <1>1, <1>2 DEF Expectation, Larger

LEMMA SchemaFitType ==
    ASSUME NEW c \in Candidate
    PROVE  SchemaFit(c) \in Int
<1>1. IsFiniteSet(Required(c)) /\ Missing(c, Explicit) \subseteq Required(c)
  BY PublishedType DEF Missing
<1>2. Cardinality(Missing(c, Explicit)) \in Nat
  BY <1>1, FS_Subset, FS_CardinalityType
<1>3. Cardinality(Required(c)) \in Nat
  BY <1>1, FS_CardinalityType
<1>4. Required(c) # {} => Cardinality(Required(c)) # 0
  BY <1>1, FS_EmptySet
<1> QED
  BY <1>2, <1>3, <1>4 DEF SchemaFit

LEMMA FitType ==
    ASSUME Worded, NEW c \in Candidate
    PROVE  Fit(c) \in Int
<1> DEFINE over == Overlap(req.assignment \cup req.words, Published[c].text)
           target == IF Published[c].target THEN 10000 ELSE 0
           there == IF snapshot[c] = "ATTACHED" THEN 10000 ELSE 0
           scoped == Lesser(10000, 4500 + 1500 * Published[c].scopes)
           slow == Lesser((10000 * Latency[P(c)]) \div 25000, 1000)
           wanted == Expectation(c)
           schema == SchemaFit(c)
           sum == (34 * wanted + 12 * over + 18 * schema + 12 * target
                   + 16 * there + 8 * scoped) \div 100 - slow
<1>1. IsFiniteSet(req.assignment \cup req.words)
  BY RequestType, FS_Union
<1>2. over \in Int /\ wanted \in Int /\ schema \in Int
  BY <1>1, OverlapType, ExpectationType, SchemaFitType
<1>3. target \in Int /\ there \in Int
  OBVIOUS
<1>4. scoped \in Int /\ slow \in Int
  BY PublishedType DEF Lesser
<1>5. sum \in Int
  <2> HIDE DEF over, target, there, scoped, slow, wanted, schema
  <2> QED
    BY <1>2, <1>3, <1>4
<1>6. Clamp(sum) \in Int
  <2> HIDE DEF sum
  <2> QED
    BY <1>5, ClampType
<1>7. Fit(c) = Clamp(sum)
  BY DEF Fit
<1> HIDE DEF sum
<1> QED
  BY <1>6, <1>7

LEMMA ScoreType ==
    ASSUME Worded, NEW c \in Candidate
    PROVE  Score(c) \in Int
<1> DEFINE points(condition, n) == IF condition THEN n ELSE 0
           words == Overlap(req.words, Published[c].text)
           outcome == (18 * Overlap(RequiredResult, Published[c].text)) \div 100
           fit == Lesser((18 * Fit(c)) \div 100, 1800)
           slow == Lesser((10000 * Latency[P(c)]) \div 20000, 1200)
           p1 == points(req.product = P(c) \/ (req.product = Nil /\ active = P(c)), 2200)
           p2 == points(req.capability = C(c), 1800)
           p3 == points(active = P(c), 1400)
           p4 == points(last = P(c), 500)
           p5 == points(req.question /\ "query" \in Required(c), 2300)
           p6 == points(Symbols # {} /\ Required(c) \cap SymbolField # {}, 1800)
           p7 == points(analysis.candidate = c, 1600)
           p8 == points(snapshot[c] # "ATTACHED", 5000)
           sum == words + outcome + p1 + p2 + p3 + p4 + p5 + p6 + fit + p7 - p8 - slow
<1>1. words \in Int /\ Overlap(RequiredResult, Published[c].text) \in Int /\ Fit(c) \in Int
  <2>1. words \in Int
    BY RequestType, OverlapType
  <2>2. Overlap(RequiredResult, Published[c].text) \in Int
    BY ResultFinite, OverlapType
  <2>3. Fit(c) \in Int
    BY FitType
  <2> QED
    BY <2>1, <2>2, <2>3
<1>2. outcome \in Int /\ fit \in Int
  BY <1>1 DEF Lesser
<1>3. slow \in Int
  BY PublishedType DEF Lesser
<1>4. \A condition : \A n \in Int : points(condition, n) \in Int
  OBVIOUS
<1>5. /\ p1 \in Int /\ p2 \in Int /\ p3 \in Int /\ p4 \in Int
      /\ p5 \in Int /\ p6 \in Int /\ p7 \in Int /\ p8 \in Int
  OBVIOUS
<1>6. sum \in Int
  <2> HIDE DEF words, outcome, fit, slow, p1, p2, p3, p4, p5, p6, p7, p8
  <2> QED
    BY <1>1, <1>2, <1>3, <1>5
<1>7. Clamp(sum) \in Int
  <2> HIDE DEF sum
  <2> QED
    BY <1>6, ClampType
<1>8. Score(c) = Clamp(sum)
  BY DEF Score
<1> HIDE DEF sum
<1> QED
  BY <1>7, <1>8

-----------------------------------------------------------------------------
(* What is chosen is in the snapshot.                                       *)

LEMMA OrderedType ==
    ASSUME snapshot \in UNION {[S -> AttachmentState \ {"DETACHED"}] : S \in SUBSET Candidate},
           NEW score, \A c \in DOMAIN snapshot : score[c] \in Int
    PROVE  /\ Ordered(score) \in Seq(DOMAIN snapshot)
           /\ Len(Ordered(score)) = Cardinality(DOMAIN snapshot)
           /\ Sorted(score, Ordered(score))
<1>1. DOMAIN snapshot \subseteq Candidate
  OBVIOUS
<1>2. IsFiniteSet(DOMAIN snapshot) /\ Scored(score, DOMAIN snapshot)
  BY <1>1, CandidateFinite, FS_Subset DEF Scored
<1> DEFINE order == Ordered(score)
           n == Cardinality(DOMAIN snapshot)
<1>3. \E s \in SetToSeqs(DOMAIN snapshot) : Sorted(score, s)
  BY <1>2, OrderExists
<1>4. order \in SetToSeqs(DOMAIN snapshot) /\ Sorted(score, order)
  BY <1>3 DEF Ordered, Sorted
<1>5. order \in [1..n -> DOMAIN snapshot] /\ n \in Nat
  BY <1>2, <1>4, FS_CardinalityType DEF SetToSeqs
<1>6. order \in Seq(DOMAIN snapshot) /\ Len(order) = n
  <2> HIDE DEF order, n
  <2> QED
    BY <1>5
<1> QED
  BY <1>4, <1>6

\* The turn of a client that asks in words, with a snapshot of the registry.
Choosing ==
    /\ Worded
    /\ snapshot \in UNION {[S -> AttachmentState \ {"DETACHED"}] : S \in SUBSET Candidate}

LEMMA DecisionType ==
    ASSUME Choosing
    PROVE  /\ Decision.status \in {"no-match", "needs-more-signal", "matched"}
           /\ Decision.candidate \in DOMAIN snapshot \cup {0}
<1> DEFINE fit == [c \in DOMAIN snapshot |-> Fit(c)]
           order == Ordered(fit)
<1>1. \A c \in DOMAIN snapshot : fit[c] \in Int
  BY FitType DEF Choosing
<1>2. order \in Seq(DOMAIN snapshot)
  <2> HIDE DEF fit
  <2> QED
    BY <1>1, OrderedType DEF Choosing
<1>3. order # <<>> => order[1] \in DOMAIN snapshot
  <2> HIDE DEF order
  <2> QED
    BY <1>2
<1> QED
  BY <1>3 DEF Decision

LEMMA ScoresOrdered ==
    ASSUME Choosing
    PROVE  Ordered(Scores) \in Seq(DOMAIN snapshot)
<1>1. \A c \in DOMAIN snapshot : Scores[c] \in Int
  BY ScoreType DEF Choosing, Scores
<1> QED
  BY <1>1, OrderedType DEF Choosing

LEMMA SelectedType ==
    ASSUME Choosing
    PROVE  Selected \subseteq DOMAIN snapshot
<1> DEFINE order == Ordered(Scores)
<1>1. order # <<>> => order[1] \in DOMAIN snapshot
  <2> HIDE DEF order
  <2>1. order \in Seq(DOMAIN snapshot)
    BY ScoresOrdered DEF order
  <2> QED
    BY <2>1
<1> QED
  BY <1>1 DEF Selected

LEMMA FallbacksType ==
    ASSUME Choosing
    PROVE  Fallbacks \in Seq(DOMAIN snapshot)
<1> DEFINE order == Ordered(Scores)
<1>1. order \in Seq(DOMAIN snapshot) /\ Len(order) \in Nat
  BY ScoresOrdered
<1>2. Lesser(4, Len(order)) \in 0..Len(order)
  BY <1>1 DEF Lesser
<1>3. SubSeq(order, 2, Lesser(4, Len(order))) \in Seq(DOMAIN snapshot)
  <2> HIDE DEF order
  <2> QED
    BY <1>1, <1>2
<1> QED
  BY <1>3 DEF Fallbacks

-----------------------------------------------------------------------------
(* What is remembered and made of it.                                       *)

LEMMA ValuesType ==
    ASSUME NEW m
    PROVE  m \in Values <=> m \in [DOMAIN m -> Value] /\ DOMAIN m \subseteq Field
  BY DEF Values

\* What is not of a later turn than n.
Timely(m, n) == \A f \in DOMAIN m : m[f].from <= n

LEMMA OverType ==
    ASSUME NEW f \in Values, NEW g \in Values
    PROVE  Over(f, g) \in Values /\ DOMAIN Over(f, g) = DOMAIN f \cup DOMAIN g
<1> DEFINE h == Over(f, g)
<1>1. DOMAIN h = DOMAIN f \cup DOMAIN g
  BY DEF Over
<1>2. h \in [DOMAIN h -> Value] /\ DOMAIN h \subseteq Field
  BY ValuesType DEF Over
<1> QED
  BY <1>1, <1>2 DEF Values

LEMMA OverTimely ==
    ASSUME NEW f, NEW g, NEW n, Timely(f, n), Timely(g, n)
    PROVE  Timely(Over(f, g), n)
  BY DEF Over, Timely

LEMMA NoValuesType == NoValues \in Values /\ DOMAIN NoValues = {} /\ \A n : Timely(NoValues, n)
  BY DEF Values, NoValues, Timely

\* What the session has under a name of the field itself is found.
LEMMA SlotType ==
    ASSUME slots \in Values, NEW f \in Field
    PROVE  /\ f \in DOMAIN slots => Slot(f) = {slots[f]}
           /\ \A v \in Slot(f) : \E g \in DOMAIN slots : v = slots[g]
<1>1. Kin[f] \in Seq(Field) /\ Kin[f] # <<>> /\ Kin[f][1] = f
  BY RoutingAssumption DEF RoutingAssumption, KinAssumption
<1>2. 1 \in DOMAIN Kin[f] /\ \A m \in DOMAIN Kin[f] : 1 <= m
  BY <1>1
<1>3. ASSUME f \in DOMAIN slots PROVE Slot(f) = {slots[f]}
  <2> DEFINE found == {n \in DOMAIN Kin[f] : Kin[f][n] \in DOMAIN slots}
  <2>1. 1 \in found /\ \A m \in found : 1 <= m
    BY <1>1, <1>2, <1>3
  <2>2. \A k \in found : (\A m \in found : k <= m) => k = 1
    <3>1. found \subseteq Int
      BY <1>1
    <3> HIDE DEF found
    <3> QED
      BY <2>1, <3>1
  <2>3. {k \in found : \A m \in found : k <= m} = {1}
    <3> HIDE DEF found
    <3> QED
      BY <2>1, <2>2
  <2>4. Slot(f) = {slots[Kin[f][n]] : n \in {k \in found : \A m \in found : k <= m}}
    BY DEF Slot
  <2> HIDE DEF found
  <2> QED
    BY <1>1, <2>3, <2>4
<1>4. \A v \in Slot(f) : \E g \in DOMAIN slots : v = slots[g]
  BY DEF Slot
<1> QED
  BY <1>3, <1>4

\* The session and the message, as of the turn.
Remembering ==
    /\ Worded /\ turn \in 1..MaxTurns
    /\ slots \in Values /\ Timely(slots, turn - 1)

LEMMA TurnType ==
    ASSUME Remembering
    PROVE  turn \in Nat /\ MaxTurns \in Nat /\ turn > 0 /\ turn \in 0..MaxTurns
  BY RoutingAssumption DEF RoutingAssumption, Remembering

\* What is found for a field is of an earlier turn or has the type of the schema.
LEMMA InferType ==
    ASSUME Remembering, NEW c \in Candidate, NEW f \in Required(c), NEW v \in Infer(c, f)
    PROVE  /\ v \in Value /\ v.from <= turn
           /\ v.from # turn \/ v.type = Published[c].schema[f]
<1>1. f \in Field /\ Published[c].schema[f] \in Type
  BY PublishedType
<1>2. turn \in Nat /\ turn \in 0..MaxTurns
  BY TurnType
<1>3. CASE v \in Slot(f)
  <2>1. PICK g \in DOMAIN slots : v = slots[g]
    BY <1>1, <1>3, SlotType DEF Remembering
  <2>2. v \in Value /\ v.from <= turn - 1
    BY <2>1, ValuesType DEF Remembering, Timely
  <2>3. v.from \in Int
    BY <2>2 DEF Value
  <2> QED
    BY <1>2, <2>2, <2>3
<1>4. CASE v = [from |-> turn, type |-> Published[c].schema[f]]
  BY <1>1, <1>2, <1>4 DEF Value, Kind
<1> QED
  BY <1>3, <1>4 DEF Infer

LEMMA BuiltType ==
    ASSUME Remembering, NEW c \in Candidate, NEW given \in Values, Timely(given, turn)
    PROVE  /\ Built(c, given) \in Values /\ Timely(Built(c, given), turn)
           /\ Missing(c, given) \subseteq Field
           /\ Missing(c, given) = {} =>
                \A f \in Required(c) :
                    /\ f \in DOMAIN Built(c, given)
                    /\ \/ f \in DOMAIN given /\ Built(c, given)[f] = given[f]
                       \/ Built(c, given)[f].from # turn
                       \/ Built(c, given)[f].type = Published[c].schema[f]
<1> DEFINE F == Required(c) \ (Missing(c, given) \cup DOMAIN given)
           found == [f \in F |-> CHOOSE v \in Infer(c, f) : TRUE]
<1>1. Required(c) \subseteq Field
  BY PublishedType
<1>2. ASSUME NEW f \in F PROVE found[f] \in Infer(c, f) /\ f \in Required(c)
  BY DEF Missing
<1>3. ASSUME NEW f \in F
      PROVE  /\ found[f] \in Value /\ found[f].from <= turn
             /\ found[f].from # turn \/ found[f].type = Published[c].schema[f]
  <2> HIDE DEF found
  <2> QED
    BY <1>2, InferType
<1>4. found \in Values
  <2>1. found \in [F -> Value] /\ F \in SUBSET Field
    BY <1>1, <1>3
  <2> QED
    BY <2>1 DEF Values
<1>5. Timely(found, turn)
  BY <1>3 DEF Timely
<1>6. Built(c, given) = Over(given, found)
  BY DEF Built
<1>7. Built(c, given) \in Values /\ Timely(Built(c, given), turn)
  <2> HIDE DEF found
  <2> QED
    BY <1>4, <1>5, <1>6, OverType, OverTimely
<1>8. ASSUME Missing(c, given) = {}, NEW f \in Required(c)
      PROVE  /\ f \in DOMAIN Built(c, given)
             /\ \/ f \in DOMAIN given /\ Built(c, given)[f] = given[f]
                \/ Built(c, given)[f].from # turn
                \/ Built(c, given)[f].type = Published[c].schema[f]
  <2>1. DOMAIN found = F /\ (f \in DOMAIN given \/ f \in F)
    BY <1>8
  <2>2. f \in DOMAIN Over(given, found)
        /\ Over(given, found)[f] = IF f \in DOMAIN given THEN given[f] ELSE found[f]
    <3> HIDE DEF found, F
    <3> QED
      BY <2>1 DEF Over
  <2> QED
    <3> HIDE DEF found, F
    <3> QED
      BY <1>3, <1>6, <2>1, <2>2
<1> QED
  BY <1>1, <1>7, <1>8 DEF Missing

\* Of what is given only what the client gives is of the turn.
Hinted == /\ choice.hints \in Values /\ Timely(choice.hints, 0)
          /\ analysis.hints \in Values /\ Timely(analysis.hints, 0)

LEMMA GivenType ==
    ASSUME Remembering, Hinted
    PROVE  /\ Given \in Values /\ Timely(Given, turn)
           /\ \A f \in DOMAIN Given : f \in DOMAIN req.gives \/ Given[f].from # turn
<1>1. turn \in Nat /\ turn > 0 /\ turn \in 0..MaxTurns
  BY TurnType
<1>2. Explicit \in Values /\ DOMAIN Explicit = DOMAIN req.gives /\ Timely(Explicit, turn)
  <2>1. DOMAIN req.gives \subseteq Field /\ \A f \in DOMAIN req.gives : req.gives[f] \in Kind
    BY RequestType DEF Remembering
  <2> QED
    BY <1>1, <2>1 DEF Explicit, Values, Value, Timely
<1> DEFINE hints == Over(choice.hints, analysis.hints)
<1>3. hints \in Values /\ Timely(hints, 0)
  BY OverType, OverTimely DEF Hinted
<1>4. \A f \in DOMAIN hints : hints[f].from \in Nat /\ hints[f].from <= 0
  <2> HIDE DEF hints
  <2>1. \A f \in DOMAIN hints : hints[f] \in Value
    BY <1>3, ValuesType
  <2>2. \A v \in Value : v.from \in Nat
    BY <1>1 DEF Value
  <2> QED
    BY <1>3, <2>1, <2>2 DEF Timely
<1>5. Timely(hints, turn)
  <2> HIDE DEF hints
  <2> QED
    BY <1>1, <1>4 DEF Timely
<1> HIDE DEF hints
<1>6. Given = Over(Explicit, hints)
  BY DEF Given, hints
<1>7. Given \in Values /\ Timely(Given, turn)
  BY <1>2, <1>3, <1>5, <1>6, OverType, OverTimely
<1>8. ASSUME NEW f \in DOMAIN Given, f \notin DOMAIN req.gives PROVE Given[f].from # turn
  BY <1>1, <1>2, <1>4, <1>6, <1>8 DEF Over
<1> QED
  BY <1>7, <1>8

\* Every required value is there, and can be wrong only if it is not from the message.
SoundOf(c, values) ==
    \A f \in Required(c) :
        /\ f \in DOMAIN values
        /\ \/ Satisfies(Published[c].schema[f], values[f].type)
           \/ values[f].from # turn
           \/ f \in DOMAIN req.gives

LEMMA BuiltSound ==
    ASSUME Remembering, Hinted, NEW c \in Candidate, Missing(c, Given) = {}
    PROVE  SoundOf(c, Built(c, Given))
<1>1. Given \in Values /\ Timely(Given, turn)
  BY GivenType
<1>2. ASSUME NEW f \in Required(c)
      PROVE  /\ f \in DOMAIN Built(c, Given)
             /\ \/ f \in DOMAIN Given /\ Built(c, Given)[f] = Given[f]
                \/ Built(c, Given)[f].from # turn
                \/ Built(c, Given)[f].type = Published[c].schema[f]
  BY <1>1, BuiltType
<1>3. \A f \in DOMAIN Given : f \in DOMAIN req.gives \/ Given[f].from # turn
  BY GivenType
<1> QED
  BY <1>2, <1>3 DEF SoundOf, Satisfies

-----------------------------------------------------------------------------
(* The inductive invariant.                                                 *)

\* Which requests come where.
PathOK ==
    /\ stage # "idle" => req \in Requests /\ turn > 0
    /\ stage \notin {"idle", "await"} => req.path # "dispatch"
    /\ stage \in {"rank", "resolve", "build", "send"} => req.path = "turn"
    /\ stage \in {"converge", "execute"} => req.path # "turn"

\* What has been chosen when it is used.
ChoiceOK ==
    /\ stage = "build" \/ (stage \in {"send", "await"} /\ req.path = "turn") =>
          Pick \in DOMAIN snapshot
    /\ stage = "await" \/ (stage = "send" /\ req.path = "turn") => choice.plan # <<>>
    /\ stage = "send" => SoundOf(choice.plan[1], payload)
    /\ stage \in {"review", "rank", "resolve", "build"} => missing = {}

\* What is remembered is of an earlier turn, and what is known is remembered.
MemoryOK ==
    /\ \A f \in known : f \in DOMAIN slots /\ slots[f].type # "empty"
    /\ Timely(slots, IF stage = "idle" THEN turn ELSE turn - 1)
    /\ Timely(payload, turn)
    /\ Timely(choice.hints, 0) /\ Timely(analysis.hints, 0)

\* A refusal ends the turn, and nothing that it depends on changes before the next.
RaisedOK == raised => stage = "idle" /\ RefusedForCause

RoutingInv == RoutingTypeOK /\ PathOK /\ ChoiceOK /\ MemoryOK /\ RaisedOK

LEMMA InTurn ==
    ASSUME RoutingInv, stage # "idle", req.path # "dispatch"
    PROVE  Choosing /\ Remembering /\ Hinted /\ DOMAIN snapshot \subseteq Candidate
<1>1. Worded /\ turn \in 1..MaxTurns
  BY RoutingAssumption DEF RoutingInv, RoutingTypeOK, PathOK, Worded, RoutingAssumption
<1>2. snapshot \in UNION {[S -> AttachmentState \ {"DETACHED"}] : S \in SUBSET Candidate}
  BY DEF RoutingInv, RoutingTypeOK
<1>3. slots \in Values /\ Timely(slots, turn - 1)
  BY DEF RoutingInv, RoutingTypeOK, MemoryOK
<1>4. Hinted
  BY DEF RoutingInv, RoutingTypeOK, MemoryOK, Hinted
<1>5. DOMAIN snapshot \subseteq Candidate
  BY <1>2
<1> QED
  BY <1>1, <1>2, <1>3, <1>4, <1>5 DEF Choosing, Remembering

LEMMA Later ==
    ASSUME NEW m \in Values, NEW n \in Int, NEW k \in Int, n <= k, Timely(m, n)
    PROVE  Timely(m, k)
<1>1. \A f \in DOMAIN m : m[f].from \in Int
  BY ValuesType, RoutingAssumption DEF Value, RoutingAssumption
<1> QED
  BY <1>1 DEF Timely

\* What is kept of a payload are values of it.
LEMMA KeptType ==
    ASSUME NEW built \in Values, NEW n, Timely(built, n)
    PROVE  Kept(built) \in Values /\ Timely(Kept(built), n)
<1> DEFINE D == {g \in DOMAIN built : built[g].type # "object"}
<1>1. Kept(built) = [f \in D |-> built[f]]
  BY DEF Kept
<1>2. D \subseteq DOMAIN built
  OBVIOUS
<1> HIDE DEF D
<1>3. Kept(built) \in [D -> Value] /\ D \in SUBSET Field
  BY <1>1, <1>2, ValuesType
<1>4. Kept(built) \in Values
  BY <1>3 DEF Values
<1>5. Timely(Kept(built), n)
  BY <1>1, <1>2 DEF Timely
<1> QED
  BY <1>4, <1>5

\* The turn ends with an answer, and the session remembers its payload.
LEMMA TurnEnds ==
    ASSUME RoutingInv, stage # "idle", UNCHANGED <<active, turn, req, snapshot, analysis>>,
           attachment' \in [Publisher -> AttachmentState],
           NEW built \in Values, Timely(built, turn),
           NEW selected \in SUBSET Candidate, Answered(built, selected),
           choice' \in [resolver : {"none", "deterministic", "ai-fallback"},
                        pick : DOMAIN snapshot \cup {0}, plan : Seq(Candidate), hints : Values],
           Timely(choice'.hints, 0), payload' \in Values, Timely(payload', turn),
           missing' \in SUBSET Field, raised' = raised
    PROVE  RoutingInv'
<1>1. stage' = "idle" /\ raised = FALSE /\ turn \in Nat /\ turn \in Int
  BY RoutingAssumption DEF Answered, RoutingInv, RoutingTypeOK, RaisedOK, RoutingAssumption
<1>2. slots \in Values /\ Timely(slots, turn)
  <2>1. slots \in Values /\ Timely(slots, turn - 1)
    BY DEF RoutingInv, RoutingTypeOK, MemoryOK
  <2> QED
    BY <1>1, <2>1, Later
<1> DEFINE kept == Kept(built)
<1>3. kept \in Values /\ Timely(kept, turn) /\ slots' = Over(kept, slots)
  BY KeptType DEF Answered
<1>9. slots' \in Values /\ DOMAIN slots' = DOMAIN kept \cup DOMAIN slots /\ Timely(slots', turn)
  <2> HIDE DEF kept
  <2> QED
    BY <1>2, <1>3, OverType, OverTimely
<1>4. last' \in Publisher \cup {Nil}
  <2>1. CASE selected = {}
    BY <2>1 DEF Answered
  <2>2. CASE selected # {}
    <3>1. {P(c) : c \in selected} # {} /\ {P(c) : c \in selected} \subseteq Publisher
      BY <2>2 DEF P, Publisher
    <3> QED
      BY <2>2, <3>1 DEF Answered
  <2> QED
    BY <2>1, <2>2
<1>5. known' = Learnt(built) /\ known \subseteq Field /\ DOMAIN built \subseteq Field
  BY ValuesType DEF Answered, RoutingInv, RoutingTypeOK
<1>10. ASSUME NEW f \in known' PROVE f \in DOMAIN slots' /\ slots'[f].type # "empty"
  <2>1. CASE f \in DOMAIN built /\ built[f].type \in {"text", "list", "number"}
    <3>1. f \in DOMAIN kept /\ kept[f] = built[f]
      BY <2>1 DEF Kept
    <3> HIDE DEF kept
    <3>2. slots'[f] = kept[f]
      BY <1>3, <3>1 DEF Over
    <3> QED
      BY <1>9, <2>1, <3>1, <3>2
  <2>2. CASE f \in known /\ ~(f \in DOMAIN built /\ built[f].type # "object")
    <3>1. f \in DOMAIN slots /\ slots[f].type # "empty"
      BY <2>2 DEF RoutingInv, MemoryOK
    <3>2. f \notin DOMAIN kept
      BY <2>2 DEF Kept
    <3> HIDE DEF kept
    <3>3. slots'[f] = slots[f]
      BY <1>3, <3>1, <3>2 DEF Over
    <3> QED
      BY <1>9, <3>1, <3>3
  <2>3. f \in DOMAIN built => built[f].type \in Kind
    BY ValuesType DEF Value
  <2> QED
    BY <1>5, <2>1, <2>2, <2>3 DEF Learnt, Kind, Type
<1>6. RoutingTypeOK'
  <2>1. known' \in SUBSET Field
    BY <1>5 DEF Learnt
  <2> QED
    BY <1>1, <1>4, <1>9, <2>1 DEF RoutingInv, RoutingTypeOK, Stage
<1>7. MemoryOK'
  BY <1>1, <1>9, <1>10 DEF RoutingInv, MemoryOK, Timely
<1>8. PathOK' /\ ChoiceOK' /\ RaisedOK'
  BY <1>1 DEF PathOK, ChoiceOK, RaisedOK
<1> QED
  BY <1>6, <1>7, <1>8 DEF RoutingInv

-----------------------------------------------------------------------------
(* The steps.                                                              *)

LEMMA RoutingStarts == RoutingInit => RoutingInv
<1> SUFFICES ASSUME RoutingInit PROVE RoutingInv
  OBVIOUS
<1>1. RoutingTypeOK
  <2>1. snapshot \in UNION {[S -> AttachmentState \ {"DETACHED"}] : S \in SUBSET Candidate}
    <3>1. NoValues \in [{} -> AttachmentState \ {"DETACHED"}]
      BY DEF NoValues
    <3> QED
      BY <3>1 DEF RoutingInit
  <2>2. /\ attachment \in [Publisher -> AttachmentState] /\ active \in Publisher \cup {Nil}
        /\ turn \in 0..MaxTurns /\ stage \in Stage /\ req \in Requests \cup {NoRequest}
    BY RoutingAssumption DEF RoutingInit, AttachmentState, Stage, RoutingAssumption
  <2>3. /\ analysis \in [status : {"none", "no-match", "needs-more-signal", "matched"},
                         candidate : DOMAIN snapshot \cup {0}, hints : Values]
        /\ choice \in [resolver : {"none", "deterministic", "ai-fallback"},
                       pick : DOMAIN snapshot \cup {0}, plan : Seq(Candidate), hints : Values]
    BY NoValuesType DEF RoutingInit, NoAnalysis, NoChoice
  <2>4. /\ payload \in Values /\ missing \in SUBSET Field /\ raised \in BOOLEAN
        /\ slots \in Values /\ last \in Publisher \cup {Nil} /\ known \in SUBSET Field
    BY NoValuesType DEF RoutingInit
  <2> QED
    BY <2>1, <2>2, <2>3, <2>4 DEF RoutingTypeOK
<1>2. PathOK /\ ChoiceOK /\ RaisedOK
  BY DEF RoutingInit, PathOK, ChoiceOK, RaisedOK
<1>3. MemoryOK
  BY NoValuesType DEF RoutingInit, MemoryOK, NoAnalysis, NoChoice
<1> QED
  BY <1>1, <1>2, <1>3 DEF RoutingInv

LEMMA AskInv ==
    ASSUME RoutingInv, NEW r \in Requests, Ask(r)
    PROVE  RoutingInv'
<1>1. /\ stage' = "review" /\ turn' = turn + 1 /\ req' = r /\ r.path # "dispatch"
      /\ turn \in Nat /\ turn < MaxTurns /\ turn' \in 0..MaxTurns /\ turn' > 0
  BY RoutingAssumption DEF Ask, RoutingInv, RoutingTypeOK, RoutingAssumption
<1>2. snapshot' \in UNION {[S -> AttachmentState \ {"DETACHED"}] : S \in SUBSET Candidate}
  <2> DEFINE scope == IF r.product # Nil THEN r.product ELSE active
             S == Discover(scope, r.capability)'
  <2>1. snapshot' = [c \in S |-> attachment'[P(c)]]
    BY DEF Ask
  <2>2. S \subseteq Candidate /\ \A c \in S : attachment'[P(c)] # "DETACHED"
    BY DEF Discover
  <2>3. \A c \in S : attachment'[P(c)] \in AttachmentState
    BY <2>2 DEF Ask, Publisher, P
  <2> HIDE DEF S
  <2>4. snapshot' \in [S -> AttachmentState \ {"DETACHED"}]
    BY <2>1, <2>2, <2>3
  <2> QED
    BY <2>2, <2>4
<1>3. analysis' = NoAnalysis /\ choice' = NoChoice /\ payload' = NoValues
      /\ missing' = {} /\ raised' = FALSE
  BY DEF Ask
<1>4. /\ analysis' \in [status : {"none", "no-match", "needs-more-signal", "matched"},
                        candidate : DOMAIN snapshot' \cup {0}, hints : Values]
      /\ choice' \in [resolver : {"none", "deterministic", "ai-fallback"},
                      pick : DOMAIN snapshot' \cup {0}, plan : Seq(Candidate), hints : Values]
  BY <1>3, NoValuesType DEF NoAnalysis, NoChoice
<1>5. RoutingTypeOK'
  BY <1>1, <1>2, <1>3, <1>4, NoValuesType DEF Ask, RoutingInv, RoutingTypeOK, Stage, memoryVars
<1>6. MemoryOK'
  <2>1. Timely(slots, turn) /\ \A f \in known : f \in DOMAIN slots /\ slots[f].type # "empty"
    BY DEF Ask, RoutingInv, MemoryOK
  <2>2. turn' - 1 = turn
    BY <1>1
  <2> QED
    BY <1>1, <1>3, <2>1, <2>2, NoValuesType DEF Ask, MemoryOK, memoryVars, NoAnalysis, NoChoice, Timely
<1>7. PathOK' /\ ChoiceOK' /\ RaisedOK'
  BY <1>1, <1>3 DEF PathOK, ChoiceOK, RaisedOK
<1> QED
  BY <1>5, <1>6, <1>7 DEF RoutingInv

LEMMA DispatchInv ==
    ASSUME RoutingInv, NEW r \in Requests, Dispatch(r)
    PROVE  RoutingInv'
<1>1. /\ stage' \in {"idle", "await"} /\ turn' = turn + 1 /\ req' = r /\ req'.path = "dispatch"
      /\ turn \in Nat /\ turn < MaxTurns /\ turn' \in 0..MaxTurns /\ turn' > 0
  BY RoutingAssumption DEF Dispatch, RoutingInv, RoutingTypeOK, RoutingAssumption
<1>2. /\ snapshot' = NoValues /\ analysis' = NoAnalysis /\ payload' = NoValues /\ missing' = {}
      /\ raised' \in BOOLEAN /\ (raised' => stage' = "idle")
  BY DEF Dispatch
<1>3. PICK plan \in Seq(Candidate) :
         choice' = [NoChoice EXCEPT !.plan = plan] /\ (stage' = "await" => plan # <<>>)
  <2> DEFINE found == Route(r.product, r.capability, r.intent)'
  <2>1. found \subseteq Candidate
    BY DEF Route, Discover
  <2>2. choice' = [NoChoice EXCEPT !.plan = IF found = {} THEN <<>>
                                            ELSE <<CHOOSE c \in found : TRUE>>]
        /\ (stage' = "await" => found # {})
    BY DEF Dispatch
  <2> HIDE DEF found
  <2> DEFINE plan == IF found = {} THEN <<>> ELSE <<CHOOSE c \in found : TRUE>>
  <2>3. plan \in Seq(Candidate) /\ (found # {} => plan # <<>>)
    BY <2>1
  <2>4. choice' = [NoChoice EXCEPT !.plan = plan]
    BY <2>2
  <2> HIDE DEF plan
  <2> QED
    BY <2>2, <2>3, <2>4
<1>4. choice'.hints = NoValues
      /\ choice' \in [resolver : {"none", "deterministic", "ai-fallback"},
                      pick : DOMAIN snapshot' \cup {0}, plan : Seq(Candidate), hints : Values]
  BY <1>3, NoValuesType DEF NoChoice
<1>5. analysis' \in [status : {"none", "no-match", "needs-more-signal", "matched"},
                     candidate : DOMAIN snapshot' \cup {0}, hints : Values]
  BY <1>2, NoValuesType DEF NoAnalysis
<1>6. snapshot' \in UNION {[S -> AttachmentState \ {"DETACHED"}] : S \in SUBSET Candidate}
  <2>1. NoValues \in [{} -> AttachmentState \ {"DETACHED"}]
    BY DEF NoValues
  <2> QED
    BY <1>2, <2>1
<1>7. RoutingTypeOK'
  BY <1>1, <1>2, <1>4, <1>5, <1>6, NoValuesType
     DEF Dispatch, RoutingInv, RoutingTypeOK, Stage, memoryVars
<1>8. MemoryOK'
  <2>1. Timely(slots, turn) /\ slots \in Values
        /\ (\A f \in known : f \in DOMAIN slots /\ slots[f].type # "empty")
        /\ UNCHANGED <<slots, last, known>>
    BY DEF Dispatch, RoutingInv, RoutingTypeOK, MemoryOK, memoryVars
  <2>2. turn' - 1 = turn /\ turn \in Int /\ turn' \in Int /\ turn <= turn'
    BY <1>1
  <2>3. Timely(slots, turn')
    BY <2>1, <2>2, Later
  <2>4. Timely(slots', IF stage' = "idle" THEN turn' ELSE turn' - 1)
    BY <2>1, <2>2, <2>3
  <2>5. \A f \in known' : f \in DOMAIN slots' /\ slots'[f].type # "empty"
    BY <2>1
  <2>6. Timely(payload', turn') /\ Timely(choice'.hints, 0) /\ Timely(analysis'.hints, 0)
    BY <1>2, <1>4, NoValuesType DEF NoAnalysis
  <2> QED
    BY <2>4, <2>5, <2>6 DEF MemoryOK, Timely
<1>9. PathOK' /\ ChoiceOK' /\ RaisedOK'
  <2>1. stage' = "await" => choice'.plan # <<>>
    BY <1>3 DEF NoChoice
  <2> QED
    BY <1>1, <1>2, <2>1 DEF PathOK, ChoiceOK, RaisedOK, RefusedForCause
<1> QED
  BY <1>7, <1>8, <1>9 DEF RoutingInv

\* What a language model gives is of no turn.
LEMMA HintsType ==
    ASSUME NEW c \in Candidate, NEW fields \in SUBSET Required(c), NEW kinds \in [fields -> HintKinds]
    PROVE  Hints(kinds) \in Values /\ Timely(Hints(kinds), 0)
<1>1. fields \subseteq Field /\ \A f \in fields : kinds[f] \in Kind
  BY PublishedType, RoutingAssumption DEF RoutingAssumption
<1>2. 0 \in 0..MaxTurns
  BY RoutingAssumption DEF RoutingAssumption
<1>3. Hints(kinds) = [f \in fields |-> [from |-> 0, type |-> kinds[f]]]
  BY DEF Hints
<1>4. \A f \in fields : Hints(kinds)[f] \in Value /\ Hints(kinds)[f].from <= 0
  BY <1>1, <1>2, <1>3 DEF Value
<1>5. Hints(kinds) \in [fields -> Value] /\ fields \in SUBSET Field
  BY <1>1, <1>3, <1>4
<1>6. Hints(kinds) \in Values
  BY <1>5 DEF Values
<1>7. Timely(Hints(kinds), 0)
  BY <1>3, <1>4 DEF Timely
<1> QED
  BY <1>6, <1>7

\* The steps of a turn that leave the memory of the session alone.
LEMMA TurnGoesOn ==
    ASSUME RoutingInv, stage # "idle", stage' # "idle", RoutingTypeOK', PathOK', ChoiceOK',
           UNCHANGED <<turn, slots, known, raised>>,
           Timely(payload', turn), Timely(choice'.hints, 0), Timely(analysis'.hints, 0)
    PROVE  RoutingInv'
<1>1. raised = FALSE
  BY DEF RoutingInv, RoutingTypeOK, RaisedOK
<1>2. MemoryOK'
  BY DEF RoutingInv, MemoryOK, Timely
<1> QED
  BY <1>1, <1>2 DEF RoutingInv, RaisedOK

LEMMA AnalyzeInv ==
    ASSUME RoutingInv, Analyze
    PROVE  RoutingInv'
<1>1. stage = "review" /\ Choosing /\ DOMAIN snapshot \subseteq Candidate
  BY InTurn DEF Analyze, RoutingInv, PathOK
<1>2. analysis' \in [status : {"none", "no-match", "needs-more-signal", "matched"},
                     candidate : DOMAIN snapshot \cup {0}, hints : Values]
      /\ Timely(analysis'.hints, 0)
  <2>1. CASE analysis' = [status |-> Decision.status, candidate |-> Decision.candidate,
                          hints |-> NoValues]
    BY <1>1, <2>1, DecisionType, NoValuesType
  <2>2. ASSUME NEW c \in Candidate, NEW fields \in SUBSET Required(c),
               NEW kinds \in [fields -> HintKinds], Known(c),
               analysis' = [status |-> "matched", candidate |-> c, hints |-> Hints(kinds)]
        PROVE  analysis' \in [status : {"none", "no-match", "needs-more-signal", "matched"},
                              candidate : DOMAIN snapshot \cup {0}, hints : Values]
               /\ Timely(analysis'.hints, 0)
    <3>1. Hints(kinds) \in Values /\ Timely(Hints(kinds), 0)
      BY HintsType
    <3> QED
      BY <2>2, <3>1 DEF Known
  <2> QED
    BY <2>1, <2>2 DEF Analyze
<1>3. /\ stage' \in {"rank", "converge"} /\ (stage' = "rank" <=> req.path = "turn")
      /\ UNCHANGED <<attachment, active, turn, req, snapshot, choice, payload, missing, raised,
                     slots, last, known>>
  BY DEF Analyze, memoryVars
<1>4. RoutingTypeOK'
  BY <1>2, <1>3 DEF RoutingInv, RoutingTypeOK, Stage
<1>5. PathOK' /\ ChoiceOK'
  BY <1>1, <1>3 DEF RoutingInv, PathOK, ChoiceOK
<1> QED
  BY <1>1, <1>2, <1>3, <1>4, <1>5, TurnGoesOn DEF RoutingInv, MemoryOK

LEMMA SelectInv ==
    ASSUME RoutingInv, Select
    PROVE  RoutingInv'
<1>1. stage = "rank" /\ Choosing /\ DOMAIN snapshot \subseteq Candidate
      /\ UNCHANGED <<attachment, active, turn, req, snapshot, analysis, payload, missing, raised>>
  BY InTurn DEF Select, RoutingInv, PathOK
<1>2. CASE Selected # {}
  <2>1. PICK c \in DOMAIN snapshot : choice' = [resolver |-> "deterministic", pick |-> c,
                                              plan |-> <<>>, hints |-> NoValues]
    <3>1. (CHOOSE c \in Selected : TRUE) \in DOMAIN snapshot
      BY <1>1, <1>2, SelectedType
    <3> QED
      BY <1>2, <3>1 DEF Select
  <2>2. stage' = "build" /\ UNCHANGED <<slots, last, known>>
    BY <1>2 DEF Select, Goes, memoryVars
  <2>3. Timely(choice'.hints, 0)
        /\ choice' \in [resolver : {"none", "deterministic", "ai-fallback"},
                        pick : DOMAIN snapshot \cup {0}, plan : Seq(Candidate), hints : Values]
    BY <2>1, NoValuesType
  <2>4. RoutingTypeOK'
    BY <1>1, <2>2, <2>3 DEF RoutingInv, RoutingTypeOK, Stage
  <2>5. PathOK' /\ ChoiceOK'
    BY <1>1, <2>1, <2>2 DEF RoutingInv, PathOK, ChoiceOK, Pick
  <2> QED
    BY <1>1, <2>2, <2>3, <2>4, <2>5, TurnGoesOn DEF RoutingInv, MemoryOK
<1>3. CASE Selected = {} /\ req.allow /\ DOMAIN snapshot # {}
  <2>1. stage' = "resolve" /\ UNCHANGED <<choice, slots, last, known>>
    BY <1>3 DEF Select, Goes, memoryVars
  <2>2. RoutingTypeOK'
    BY <1>1, <2>1 DEF RoutingInv, RoutingTypeOK, Stage
  <2>3. PathOK' /\ ChoiceOK'
    BY <1>1, <2>1 DEF RoutingInv, PathOK, ChoiceOK
  <2> QED
    BY <1>1, <2>1, <2>2, <2>3, TurnGoesOn DEF RoutingInv, MemoryOK
<1>4. CASE Answered(NoValues, {}) /\ UNCHANGED choice
  BY <1>1, <1>4, TurnEnds, NoValuesType DEF RoutingInv, RoutingTypeOK, MemoryOK
<1> QED
  BY <1>2, <1>3, <1>4 DEF Select

LEMMA ResolveInv ==
    ASSUME RoutingInv, Resolve
    PROVE  RoutingInv'
<1>1. stage = "resolve" /\ DOMAIN snapshot \subseteq Candidate
      /\ UNCHANGED <<attachment, active, turn, req, snapshot, analysis, payload, missing, raised>>
  BY InTurn DEF Resolve, RoutingInv, PathOK
<1>2. ASSUME NEW c \in Candidate, NEW fields \in SUBSET Required(c),
             NEW kinds \in [fields -> HintKinds], Known(c), Goes("build"),
             choice' = [resolver |-> "ai-fallback", pick |-> c, plan |-> <<>>, hints |-> Hints(kinds)]
      PROVE  RoutingInv'
  <2> DEFINE hints == Hints(kinds)
  <2>1. hints \in Values /\ Timely(hints, 0)
    BY HintsType
  <2> HIDE DEF hints
  <2>2. choice' = [resolver |-> "ai-fallback", pick |-> c, plan |-> <<>>, hints |-> hints]
    BY <1>2 DEF hints
  <2>3. stage' = "build" /\ UNCHANGED <<slots, last, known>>
    BY <1>2 DEF Goes, memoryVars
  <2>4. Timely(choice'.hints, 0) /\ c \in DOMAIN snapshot
        /\ choice' \in [resolver : {"none", "deterministic", "ai-fallback"},
                        pick : DOMAIN snapshot \cup {0}, plan : Seq(Candidate), hints : Values]
    BY <1>2, <2>1, <2>2 DEF Known
  <2>5. RoutingTypeOK'
    BY <1>1, <2>3, <2>4 DEF RoutingInv, RoutingTypeOK, Stage
  <2>6. PathOK' /\ ChoiceOK'
    BY <1>1, <2>2, <2>3, <2>4 DEF RoutingInv, PathOK, ChoiceOK, Pick
  <2> QED
    BY <1>1, <2>3, <2>4, <2>5, <2>6, TurnGoesOn DEF RoutingInv, MemoryOK
<1>3. CASE Answered(NoValues, {}) /\ UNCHANGED choice
  BY <1>1, <1>3, TurnEnds, NoValuesType DEF RoutingInv, RoutingTypeOK, MemoryOK
<1> QED
  BY <1>2, <1>3 DEF Resolve

LEMMA BuildInv ==
    ASSUME RoutingInv, Build
    PROVE  RoutingInv'
<1>1. /\ stage = "build" /\ Choosing /\ Remembering /\ Hinted
      /\ DOMAIN snapshot \subseteq Candidate /\ Pick \in DOMAIN snapshot
      /\ UNCHANGED <<attachment, active, turn, req, snapshot, analysis, raised>>
  BY InTurn DEF Build, RoutingInv, PathOK, ChoiceOK
<1>2. CASE Answered(NoValues, {Pick}) /\ UNCHANGED <<payload, missing, choice>>
  BY <1>1, <1>2, TurnEnds, NoValuesType DEF RoutingInv, RoutingTypeOK, MemoryOK
<1>3. CASE snapshot[Pick] = "ATTACHED"
  <2>1. payload' = Built(Pick, Given) /\ missing' = Missing(Pick, Given)
        /\ choice' = [choice EXCEPT !.plan = <<Pick>> \o Fallbacks]
    BY <1>3 DEF Build
  <2>2. Given \in Values /\ Timely(Given, turn)
    BY <1>1, GivenType
  <2>3. payload' \in Values /\ Timely(payload', turn) /\ missing' \in SUBSET Field
    BY <1>1, <2>1, <2>2, BuiltType
  <2> DEFINE rest == Fallbacks
             plan == <<Pick>> \o rest
  <2>4. plan \in Seq(Candidate) /\ plan # <<>> /\ plan[1] = Pick
    <3>1. rest \in Seq(Candidate)
      BY <1>1, FallbacksType
    <3> HIDE DEF rest
    <3> QED
      BY <1>1, <3>1
  <2> HIDE DEF plan
  <2>5. choice' = [choice EXCEPT !.plan = plan]
    BY <2>1 DEF plan
  <2>6. /\ choice'.plan = plan /\ choice'.pick = Pick /\ choice'.hints = choice.hints
        /\ choice' \in [resolver : {"none", "deterministic", "ai-fallback"},
                        pick : DOMAIN snapshot \cup {0}, plan : Seq(Candidate), hints : Values]
    BY <2>4, <2>5 DEF RoutingInv, RoutingTypeOK, Pick
  <2>7. Timely(choice'.hints, 0)
    BY <2>6 DEF RoutingInv, MemoryOK
  <2>8. CASE missing' = {} /\ Goes("send")
    <3>1. stage' = "send" /\ UNCHANGED <<slots, last, known>>
      BY <2>8 DEF Goes, memoryVars
    <3>2. RoutingTypeOK'
      BY <1>1, <2>3, <2>6, <3>1 DEF RoutingInv, RoutingTypeOK, Stage
    <3>3. SoundOf(Pick, payload')
      BY <1>1, <2>1, <2>8, BuiltSound
    <3>4. SoundOf(choice.plan[1], payload)'
      BY <1>1, <2>4, <2>6, <3>3 DEF SoundOf
    <3>5. PathOK' /\ ChoiceOK'
      BY <1>1, <2>4, <2>6, <3>1, <3>4 DEF RoutingInv, PathOK, ChoiceOK, Pick
    <3> QED
      BY <1>1, <2>3, <2>7, <3>1, <3>2, <3>5, TurnGoesOn DEF RoutingInv, MemoryOK
  <2>9. CASE Answered(payload', {Pick})
    <3>1. attachment' \in [Publisher -> AttachmentState]
      BY <1>1 DEF RoutingInv, RoutingTypeOK
    <3> QED
      BY <1>1, <2>3, <2>6, <2>7, <2>9, <3>1, TurnEnds
  <2> QED
    BY <1>3, <2>8, <2>9 DEF Build
<1> QED
  BY <1>2, <1>3 DEF Build

\* The next fallback is sent, or the turn ends without one.
LEMMA NextFallbackInv ==
    ASSUME RoutingInv, stage \in {"send", "await"}, req.path = "turn", NextFallback,
           attachment' \in [Publisher -> AttachmentState],
           UNCHANGED <<active, turn, req, snapshot, analysis, missing>>
    PROVE  RoutingInv'
<1>1. /\ Choosing /\ Remembering /\ Hinted
      /\ DOMAIN snapshot \subseteq Candidate /\ Pick \in DOMAIN snapshot
      /\ choice.plan \in Seq(Candidate) /\ missing \in SUBSET Field /\ raised' = raised
  BY InTurn DEF RoutingInv, RoutingTypeOK, ChoiceOK, NextFallback
<1>2. Given \in Values /\ Timely(Given, turn)
  BY <1>1, GivenType
<1>3. ASSUME NEW n \in 2..Len(choice.plan), Usable(choice.plan[n]),
             choice' = [choice EXCEPT !.plan = SubSeq(@, n, Len(@))],
             payload' = Built(choice.plan[n], Given), Goes("send")
      PROVE  RoutingInv'
  <2> DEFINE plan == SubSeq(choice.plan, n, Len(choice.plan))
             c == choice.plan[n]
  <2>1. plan \in Seq(Candidate) /\ plan # <<>> /\ plan[1] = c /\ c \in Candidate
    <3>1. choice.plan \in Seq(Candidate) /\ n \in 2..Len(choice.plan) /\ Len(choice.plan) \in Nat
      BY <1>1
    <3>2. c \in Candidate
      BY <3>1
    <3>3. plan \in Seq(Candidate)
      BY <3>1
    <3>4. Len(plan) = Len(choice.plan) - n + 1
      BY <3>1
    <3>5. plan # <<>>
      <4> HIDE DEF plan
      <4> QED
        BY <3>1, <3>3, <3>4
    <3>6. plan[1] = c
      BY <3>1
    <3> QED
      BY <3>2, <3>3, <3>5, <3>6
  <2> HIDE DEF plan
  <2>2. choice' = [choice EXCEPT !.plan = plan]
    BY <1>3 DEF plan
  <2>3. /\ choice'.plan = plan /\ choice'.pick = Pick /\ choice'.hints = choice.hints
        /\ choice' \in [resolver : {"none", "deterministic", "ai-fallback"},
                        pick : DOMAIN snapshot \cup {0}, plan : Seq(Candidate), hints : Values]
    BY <2>1, <2>2 DEF RoutingInv, RoutingTypeOK, Pick
  <2>4. payload' = Built(c, Given) /\ Missing(c, Given) = {}
    BY <1>3 DEF Usable
  <2> HIDE DEF c
  <2>5. payload' \in Values /\ Timely(payload', turn) /\ SoundOf(c, payload')
    BY <1>1, <1>2, <2>1, <2>4, BuiltType, BuiltSound
  <2>6. SoundOf(choice.plan[1], payload)'
    BY <2>1, <2>3, <2>5 DEF SoundOf
  <2>7. stage' = "send" /\ UNCHANGED <<slots, last, known, raised>>
    BY <1>1, <1>3 DEF Goes, memoryVars
  <2>8. RoutingTypeOK'
    BY <1>1, <2>3, <2>5, <2>7 DEF RoutingInv, RoutingTypeOK, Stage
  <2>9. PathOK' /\ ChoiceOK'
    BY <1>1, <2>1, <2>3, <2>6, <2>7 DEF RoutingInv, PathOK, ChoiceOK, Pick
  <2> QED
    BY <2>3, <2>5, <2>7, <2>8, <2>9, TurnGoesOn DEF RoutingInv, MemoryOK
<1>4. CASE payload' = Built(Pick, Given) /\ Answered(payload', {Pick}) /\ UNCHANGED choice
  <2>1. payload' \in Values /\ Timely(payload', turn)
    BY <1>1, <1>2, <1>4, BuiltType
  <2> QED
    BY <1>1, <1>4, <2>1, TurnEnds DEF RoutingInv, RoutingTypeOK, MemoryOK
<1> QED
  BY <1>3, <1>4 DEF NextFallback

\* An exception in a turn that has not been raised before ends it.
LEMMA RaiseInv ==
    ASSUME RoutingInv, stage # "idle", Raise, RefusedForCause',
           attachment' \in [Publisher -> AttachmentState],
           UNCHANGED <<active, turn, req, snapshot, analysis, missing>>
    PROVE  RoutingInv'
<1>1. /\ stage' = "idle" /\ raised' = TRUE
      /\ UNCHANGED <<choice, payload, slots, last, known>>
  BY DEF Raise, memoryVars
<1>2. RoutingTypeOK'
  BY <1>1 DEF RoutingInv, RoutingTypeOK, Stage
<1>3. PathOK' /\ ChoiceOK' /\ RaisedOK'
  BY <1>1 DEF PathOK, ChoiceOK, RaisedOK
<1>4. MemoryOK'
  <2>1. Timely(slots, turn - 1) /\ slots \in Values /\ turn \in Nat
    BY RoutingAssumption DEF RoutingInv, RoutingTypeOK, MemoryOK, RoutingAssumption
  <2>2. Timely(slots, turn)
    BY <2>1, Later
  <2> QED
    BY <1>1, <2>2 DEF RoutingInv, MemoryOK, Timely
<1> QED
  BY <1>2, <1>3, <1>4 DEF RoutingInv

\* A candidate whose product is attached, in a session that is free for it, is found.
LEMMA RouteFinds ==
    ASSUME NEW c \in Candidate, active \in {Nil, P(c)}, attachment[P(c)] = "ATTACHED"
    PROVE  Route(P(c), C(c), I(c)) = {c}
<1> DEFINE matches == {d \in Discover(P(c), C(c)) : I(d) = I(c)}
<1>1. P(c) # Nil /\ C(c) # Nil
  BY PublishedType
<1>2. c \in matches
  BY DEF Discover
<1>3. \A d \in matches : d = c
  BY <1>1, RoutingAssumption DEF Discover, RoutingAssumption, IdentityAssumption
<1>4. matches = {c}
  <2> HIDE DEF matches
  <2> QED
    BY <1>2, <1>3
<1>5. Cardinality(matches) = 1
  <2> HIDE DEF matches
  <2> QED
    BY <1>4, FS_Singleton
<1>6. Route(P(c), C(c), I(c)) = {d \in matches : attachment[P(d)] = "ATTACHED"}
  BY <1>1, <1>5 DEF Route
<1> HIDE DEF matches
<1> QED
  BY <1>4, <1>6

\* A value that does not fit its schema and is not made from the message.
Unfit(c) == \E f \in Required(c) : /\ f \in DOMAIN payload
                                   /\ ~Satisfies(Published[c].schema[f], payload[f].type)
                                   /\ payload[f].from # turn \/ f \in DOMAIN req.gives

\* What is refused at the entry of dispatch is refused for a cause.
LEMMA RefusalHasCause ==
    ASSUME RoutingInv, stage = "send", choice.plan[1] = Pick, Pick \in Candidate,
           ~(Route(P(Pick), C(Pick), I(Pick)) = {Pick} /\ Valid(Pick))
    PROVE  active \notin {Nil, P(Pick)} \/ attachment[P(Pick)] # "ATTACHED" \/ Unfit(Pick)
<1>1. SoundOf(Pick, payload)
  BY DEF RoutingInv, ChoiceOK
<1>2. CASE Route(P(Pick), C(Pick), I(Pick)) # {Pick}
  BY <1>2, RouteFinds
<1>3. CASE ~Valid(Pick)
  BY <1>1, <1>3 DEF Valid, SoundOf, Unfit
<1> QED
  BY <1>2, <1>3

LEMMA SendInv ==
    ASSUME RoutingInv, Send
    PROVE  RoutingInv'
<1> DEFINE c == Head(choice.plan)
<1>1. /\ stage = "send" /\ req.path = "turn" /\ DOMAIN snapshot \subseteq Candidate
      /\ UNCHANGED <<attachment, active, turn, req, snapshot, analysis, missing>>
  BY InTurn DEF Send, RoutingInv, PathOK
<1>2. c = choice.plan[1] /\ c \in Candidate
  <2>1. choice.plan \in Seq(Candidate) /\ choice.plan # <<>>
    BY <1>1 DEF RoutingInv, RoutingTypeOK, ChoiceOK
  <2> QED
    BY <2>1
<1>3. CASE Goes("await") /\ UNCHANGED <<choice, payload, raised>>
  <2>1. stage' = "await" /\ UNCHANGED <<slots, last, known>>
    BY <1>3 DEF Goes, memoryVars
  <2>2. RoutingTypeOK'
    BY <1>1, <1>3, <2>1 DEF RoutingInv, RoutingTypeOK, Stage
  <2>3. PathOK' /\ ChoiceOK'
    BY <1>1, <1>3, <2>1 DEF RoutingInv, PathOK, ChoiceOK, Pick
  <2> QED
    BY <1>1, <1>3, <2>1, <2>2, <2>3, TurnGoesOn DEF RoutingInv, MemoryOK
<1>6. attachment' \in [Publisher -> AttachmentState] /\ attachment[P(c)] \in AttachmentState
  BY <1>1, <1>2 DEF RoutingInv, RoutingTypeOK, P, Publisher
<1>4. CASE c = Pick /\ Raise /\ ~(Route(P(c), C(c), I(c)) = {c} /\ Valid(c))
  <2>1. UNCHANGED <<choice, payload>>
    BY <1>4 DEF Raise
  <2>2. active \notin {Nil, P(Pick)} \/ attachment[P(Pick)] # "ATTACHED" \/ Unfit(Pick)
    BY <1>1, <1>2, <1>4, RefusalHasCause
  <2>3. RefusedForCause'
    BY <1>1, <1>4, <1>6, <2>1, <2>2 DEF RefusedForCause, Pick, Unfit, AttachmentState
  <2> QED
    BY <1>1, <1>4, <1>6, <2>3, RaiseInv
<1>5. CASE NextFallback
  BY <1>1, <1>5, <1>6, NextFallbackInv
<1>7. CASE Uncaught(c) /\ Raise
  <2>1. UNCHANGED <<choice, payload>>
    BY <1>7 DEF Raise
  <2>2. active \notin {Nil, P(c)} \/ attachment[P(c)] = "DETACHED"
    BY <1>2, <1>7 DEF Uncaught, Discover
  <2>3. RefusedForCause'
    BY <1>1, <2>1, <2>2 DEF RefusedForCause
  <2> QED
    BY <1>1, <1>6, <1>7, <2>3, RaiseInv
<1> QED
  BY <1>3, <1>4, <1>5, <1>7 DEF Send

\* The turn ends without an answer for the session to remember.
LEMMA TurnLeft ==
    ASSUME RoutingInv, stage # "idle", Goes("idle"),
           attachment' \in [Publisher -> AttachmentState],
           UNCHANGED <<active, turn, req, snapshot, analysis, choice, payload, missing,
                       raised>>
    PROVE  RoutingInv'
<1>1. stage' = "idle" /\ raised = FALSE /\ UNCHANGED <<slots, last, known>>
  BY DEF Goes, memoryVars, RoutingInv, RoutingTypeOK, RaisedOK
<1>2. RoutingTypeOK'
  BY <1>1 DEF RoutingInv, RoutingTypeOK, Stage
<1>3. PathOK' /\ ChoiceOK' /\ RaisedOK'
  BY <1>1 DEF PathOK, ChoiceOK, RaisedOK
<1>4. MemoryOK'
  <2>1. Timely(slots, turn - 1) /\ slots \in Values /\ turn \in Nat
    BY RoutingAssumption DEF RoutingInv, RoutingTypeOK, MemoryOK, RoutingAssumption
  <2>2. Timely(slots, turn)
    BY <2>1, Later
  <2> QED
    BY <1>1, <2>2 DEF RoutingInv, MemoryOK, Timely
<1> QED
  BY <1>2, <1>3, <1>4 DEF RoutingInv

\* A dispatch that cannot be recorded because its product is DETACHED by now.
LEMMA UnrecordedInv ==
    ASSUME RoutingInv, stage = "await", Unrecorded,
           attachment' \in [Publisher -> AttachmentState],
           attachment'[P(Head(choice.plan))] = "DETACHED",
           UNCHANGED <<active, turn, req, snapshot, analysis, missing>>
    PROVE  RoutingInv'
<1>1. CASE NextFallback /\ req.path = "turn"
  BY <1>1, NextFallbackInv
<1>2. CASE Raise
  <2>1. UNCHANGED choice
    BY <1>2 DEF Raise
  <2>2. RefusedForCause'
    BY <2>1 DEF RefusedForCause
  <2> QED
    BY <1>2, <2>2, RaiseInv
<1> QED
  BY <1>1, <1>2 DEF Unrecorded

LEMMA SucceedInv ==
    ASSUME RoutingInv, Succeed
    PROVE  RoutingInv'
<1>1. stage = "await" /\ attachment' \in [Publisher -> AttachmentState]
      /\ UNCHANGED <<attachment, active, turn, req, snapshot, analysis, missing>>
  BY DEF Succeed, RoutingInv, RoutingTypeOK
<1>2. CASE req.path = "turn" /\ Answered(payload, {Pick}) /\ UNCHANGED <<choice, payload, raised>>
  <2>1. DOMAIN snapshot \subseteq Candidate /\ Pick \in DOMAIN snapshot
    BY <1>1, <1>2, InTurn DEF RoutingInv, ChoiceOK
  <2> QED
    BY <1>1, <1>2, <2>1, TurnEnds DEF RoutingInv, RoutingTypeOK, MemoryOK
<1>3. CASE Goes("idle") /\ UNCHANGED <<choice, payload, raised>>
  BY <1>1, <1>3, TurnLeft
<1>4. CASE attachment[P(Head(choice.plan))] = "DETACHED" /\ Unrecorded
  BY <1>1, <1>4, UnrecordedInv
<1> QED
  BY <1>2, <1>3, <1>4 DEF Succeed

LEMMA TransportFailsInv ==
    ASSUME RoutingInv, TransportFails
    PROVE  RoutingInv'
<1> DEFINE p == P(Head(choice.plan))
<1>1. stage = "await"
      /\ UNCHANGED <<active, turn, req, snapshot, analysis, missing>>
  BY DEF TransportFails
<1>2. PICK s \in {"DEGRADED", "DETACHED"} :
          /\ attachment' = [attachment EXCEPT ![p] = s]
          /\ IF s = "DETACHED" THEN Unrecorded
             ELSE IF req.path = "turn" THEN NextFallback
             ELSE Goes("idle") /\ UNCHANGED <<choice, payload, raised>>
  BY DEF TransportFails
<1>3. attachment' \in [Publisher -> AttachmentState]
  <2> HIDE DEF p
  <2> QED
    BY <1>2 DEF RoutingInv, RoutingTypeOK, AttachmentState
<1>4. CASE s = "DETACHED"
  <2>1. p \in Publisher
    <3>1. choice.plan \in Seq(Candidate) /\ choice.plan # <<>>
      BY <1>1 DEF RoutingInv, RoutingTypeOK, ChoiceOK
    <3>2. Head(choice.plan) \in Candidate
      BY <3>1
    <3> QED
      BY <3>2 DEF P, Publisher
  <2>2. attachment'[p] = "DETACHED"
    <3> HIDE DEF p
    <3> QED
      BY <1>2, <1>4, <2>1 DEF RoutingInv, RoutingTypeOK
  <2> QED
    BY <1>1, <1>2, <1>3, <1>4, <2>2, UnrecordedInv
<1>5. CASE s # "DETACHED" /\ req.path = "turn"
  BY <1>1, <1>2, <1>3, <1>5, NextFallbackInv
<1>6. CASE s # "DETACHED" /\ req.path # "turn"
  BY <1>1, <1>2, <1>3, <1>6, TurnLeft
<1> QED
  BY <1>4, <1>5, <1>6

LEMMA ConvergeInv ==
    ASSUME RoutingInv, Converge
    PROVE  RoutingInv'
<1>1. stage = "converge" /\ req.path # "turn"
      /\ UNCHANGED <<attachment, active, turn, req, snapshot, analysis, missing>>
  BY DEF Converge, RoutingInv, PathOK
<1>2. CASE Goes("execute") /\ UNCHANGED <<choice, payload, raised>>
  <2>1. stage' = "execute" /\ UNCHANGED <<slots, last, known>>
    BY <1>2 DEF Goes, memoryVars
  <2>2. RoutingTypeOK'
    BY <1>1, <1>2, <2>1 DEF RoutingInv, RoutingTypeOK, Stage
  <2>3. PathOK' /\ ChoiceOK'
    BY <1>1, <2>1 DEF RoutingInv, PathOK, ChoiceOK
  <2> QED
    BY <1>1, <1>2, <2>1, <2>2, <2>3, TurnGoesOn DEF RoutingInv, MemoryOK
<1>3. CASE Raise
  <2>1. attachment' \in [Publisher -> AttachmentState] /\ RefusedForCause'
    BY <1>1 DEF RoutingInv, RoutingTypeOK, RefusedForCause
  <2> QED
    BY <1>1, <1>3, <2>1, RaiseInv
<1> QED
  BY <1>2, <1>3 DEF Converge

LEMMA ExecutedInv ==
    ASSUME RoutingInv, Executed
    PROVE  RoutingInv'
<1>1. stage # "idle" /\ Goes("idle") /\ attachment' \in [Publisher -> AttachmentState]
      /\ UNCHANGED <<active, turn, req, snapshot, analysis, choice, payload, missing, raised>>
  BY DEF Executed, turnVars, RoutingInv, RoutingTypeOK
<1> QED
  BY <1>1, TurnLeft

LEMMA ChangeInv ==
    ASSUME RoutingInv, Change
    PROVE  RoutingInv'
<1>1. /\ stage \in {"send", "await", "converge"} /\ attachment' \in [Publisher -> AttachmentState]
      /\ UNCHANGED <<active, turn, stage, req, snapshot, analysis, choice, payload, missing, raised,
                     slots, last, known>>
  BY DEF Change, turnVars, memoryVars, RoutingInv, RoutingTypeOK
<1>2. RoutingTypeOK'
  BY <1>1 DEF RoutingInv, RoutingTypeOK
<1>3. PathOK' /\ ChoiceOK'
  <2>1. stage = "send" => SoundOf(choice.plan[1], payload)'
    BY <1>1 DEF RoutingInv, ChoiceOK, SoundOf
  <2> QED
    BY <1>1, <2>1 DEF RoutingInv, PathOK, ChoiceOK, Pick
<1> QED
  BY <1>1, <1>2, <1>3, TurnGoesOn DEF RoutingInv, MemoryOK

LEMMA StutterInv ==
    ASSUME RoutingInv, UNCHANGED routingVars
    PROVE  RoutingInv'
<1>1. UNCHANGED <<attachment, active, turn, stage, req, snapshot, analysis, choice, payload, missing,
                  raised, slots, last, known>>
  BY DEF routingVars, turnVars, memoryVars
<1>2. RoutingTypeOK' /\ RaisedOK'
  BY <1>1 DEF RoutingInv, RoutingTypeOK, RaisedOK, RefusedForCause, Pick
<1>3. PathOK' /\ ChoiceOK'
  <2>1. stage = "send" => SoundOf(choice.plan[1], payload)'
    BY <1>1 DEF RoutingInv, ChoiceOK, SoundOf
  <2> QED
    BY <1>1, <2>1 DEF RoutingInv, PathOK, ChoiceOK, Pick
<1>4. MemoryOK'
  BY <1>1 DEF RoutingInv, MemoryOK, Timely
<1> QED
  BY <1>2, <1>3, <1>4 DEF RoutingInv

LEMMA RoutingStep == RoutingInv /\ [RoutingNext]_routingVars => RoutingInv'
<1> SUFFICES ASSUME RoutingInv, [RoutingNext]_routingVars PROVE RoutingInv'
  OBVIOUS
<1>1. ASSUME NEW r \in Requests, Ask(r) PROVE RoutingInv'
  BY <1>1, AskInv
<1>2. ASSUME NEW r \in Requests, Dispatch(r) PROVE RoutingInv'
  BY <1>2, DispatchInv
<1>3. CASE Analyze \/ Select \/ Resolve \/ Build
  BY <1>3, AnalyzeInv, SelectInv, ResolveInv, BuildInv
<1>4. CASE Send \/ Succeed \/ TransportFails
  BY <1>4, SendInv, SucceedInv, TransportFailsInv
<1>5. CASE Converge \/ Executed \/ Change
  BY <1>5, ConvergeInv, ExecutedInv, ChangeInv
<1>6. CASE UNCHANGED routingVars
  BY <1>6, StutterInv
<1> QED
  BY <1>1, <1>2, <1>3, <1>4, <1>5, <1>6 DEF RoutingNext

(* The inductive invariant: what a turn has chosen, built and passed over is what  *)
(* companion_message has by then, and the memory is of earlier messages.          *)
THEOREM RoutingInvariant == RoutingSpec => []RoutingInv
  BY RoutingStarts, RoutingStep, PTL DEF RoutingSpec

(* Every component of the state of routing keeps its type.                   *)
THEOREM RoutingTypeCorrect == RoutingSpec => []RoutingTypeOK
<1>1. RoutingInv => RoutingTypeOK
  BY DEF RoutingInv
<1> QED
  BY <1>1, RoutingInvariant, PTL

(* A turn with a selected candidate is refused by dispatch only because the session  *)
(* is bound, the product of the one that was tried has been detached, or the one       *)
(* selected has gone or has a value that does not fit: build_payload_from_message      *)
(* never makes one of the message that is wrong.                                 *)
THEOREM RefusalsHaveCause == RoutingSpec => []RefusedForCause
<1>1. RoutingInv => RefusedForCause
  BY DEF RoutingInv, RaisedOK, RefusedForCause
<1> QED
  BY <1>1, RoutingInvariant, PTL

-----------------------------------------------------------------------------
(* What is sent is certain.                                                 *)

LEMMA OnlyOne ==
    ASSUME NEW matches \in SUBSET Candidate, Cardinality(matches) = 1
    PROVE  \A c, d \in matches : c = d
<1>1. IsFiniteSet(matches)
  BY CandidateFinite, FS_Subset
<1>2. \E x : matches = {x}
  BY <1>1, FS_Singleton
<1> QED
  BY <1>2

LEMMA SentForCertain ==
    ASSUME NEW c \in Candidate, Route(P(c), C(c), I(c)) = {c}
    PROVE  /\ attachment[P(c)] = "ATTACHED" /\ active \in {Nil, P(c)}
           /\ \A d \in Candidate : P(d) = P(c) /\ I(d) = I(c) /\ C(c) \in {Nil, C(d)} => d = c
<1> DEFINE matches == {d \in Discover(P(c), C(c)) : I(d) = I(c)}
<1>1. P(c) # Nil /\ C(c) # Nil
  BY PublishedType
<1>2. /\ active \in {Nil, P(c)} /\ Cardinality(matches) = 1 /\ c \in matches
      /\ attachment[P(c)] = "ATTACHED"
  BY <1>1 DEF Route
<1>3. matches \subseteq Candidate
  BY DEF Discover
<1>4. \A d \in matches : d = c
  <2> HIDE DEF matches
  <2> QED
    BY <1>2, <1>3, OnlyOne
<1>5. ASSUME NEW d \in Candidate, P(d) = P(c), I(d) = I(c), C(c) \in {Nil, C(d)}
      PROVE  d = c
  <2>1. d \in matches
    BY <1>2, <1>5 DEF Discover
  <2> QED
    BY <1>4, <2>1
<1> QED
  BY <1>2, <1>5

LEMMA DispatchedForCertain ==
    ASSUME NEW r \in Requests, Dispatch(r), stage' = "await"
    PROVE  LET c == Head(choice'.plan)
           IN  /\ attachment'[P(c)] = "ATTACHED" /\ active \in {Nil, P(c)}
               /\ \A d \in Candidate :
                     P(d) = P(c) /\ I(d) = I(c) /\ r.capability \in {Nil, C(d)} => d = c
<1> DEFINE found == Route(r.product, r.capability, r.intent)'
           target == IF r.product # Nil THEN r.product ELSE active
           matches == {d \in Candidate : /\ attachment'[P(d)] # "DETACHED"
                                         /\ target \in {Nil, P(d)}
                                         /\ r.capability \in {Nil, C(d)}
                                         /\ I(d) = r.intent}
<1>1. found # {} /\ active' = active
      /\ choice' = [NoChoice EXCEPT !.plan = IF found = {} THEN <<>>
                                             ELSE <<CHOOSE c \in found : TRUE>>]
  BY DEF Dispatch
<1>2. {d \in Discover(target, r.capability)' : I(d) = r.intent} = matches
  <2>1. active' = active
    BY <1>1
  <2> QED
    BY <2>1 DEF Discover
<1>3. /\ found \subseteq {d \in matches : attachment'[P(d)] = "ATTACHED"}
      /\ target # Nil /\ active \in {Nil, target} /\ Cardinality(matches) = 1
  BY <1>1, <1>2 DEF Route, Discover
<1>4. PICK c \in found : Head(choice'.plan) = c
  <2> HIDE DEF found
  <2>1. choice'.plan = <<CHOOSE c \in found : TRUE>>
    BY <1>1 DEF NoChoice
  <2> QED
    BY <1>1, <2>1
<1>5. \A d \in matches : d = c
  <2>1. c \in matches /\ matches \subseteq Candidate
    BY <1>3, <1>4
  <2> HIDE DEF matches
  <2> QED
    BY <1>3, <2>1, OnlyOne
<1>6. /\ c \in Candidate /\ attachment'[P(c)] = "ATTACHED" /\ P(c) = target /\ I(c) = r.intent
  BY <1>3, <1>4
<1>7. ASSUME NEW d \in Candidate, P(d) = P(c), I(d) = I(c), r.capability \in {Nil, C(d)}
      PROVE  d = c
  BY <1>5, <1>6, <1>7
<1> QED
  BY <1>3, <1>4, <1>6, <1>7

(* What dispatch sends, for a message, a fallback or a client that names it, is the   *)
(* one intent that route finds in the registry of that moment.                      *)
THEOREM SendsAreCertain == RoutingSpec => RoutedForCertain
<1> DEFINE Certain ==
             stage # "await" /\ stage' = "await" =>
               LET c == Head(choice'.plan)
                   named == IF req'.path = "dispatch" THEN req'.capability ELSE C(c)
               IN  /\ attachment'[P(c)] = "ATTACHED" /\ active \in {Nil, P(c)}
                   /\ \A d \in Candidate :
                         (P(d) = P(c) /\ I(d) = I(c) /\ named \in {Nil, C(d)}) => d = c
<1>1. ASSUME RoutingInv, [RoutingNext]_routingVars PROVE [Certain]_routingVars
  <2> SUFFICES ASSUME RoutingNext, stage # "await", stage' = "await" PROVE Certain
    BY <1>1
  <2>1. ASSUME NEW r \in Requests, Dispatch(r) PROVE Certain
    <3>1. req'.path = "dispatch" /\ req'.capability = r.capability
      BY <2>1 DEF Dispatch
    <3> QED
      BY <2>1, <3>1, DispatchedForCertain
  <2>2. CASE Send
    <3> DEFINE c == Head(choice.plan)
    <3>1. stage = "send" /\ req.path = "turn" /\ UNCHANGED <<attachment, req>>
      BY <1>1, <2>2 DEF Send, RoutingInv, PathOK
    <3>2. UNCHANGED choice /\ Route(P(c), C(c), I(c)) = {c}
      BY <2>2 DEF Send, Raise, NextFallback, Answered, Goes
    <3>3. c \in Candidate
      BY <3>2 DEF Route, Discover
    <3>4. /\ attachment[P(c)] = "ATTACHED" /\ active \in {Nil, P(c)}
          /\ \A d \in Candidate : P(d) = P(c) /\ I(d) = I(c) /\ C(c) \in {Nil, C(d)} => d = c
      <4> HIDE DEF c
      <4> QED
        BY <3>2, <3>3, SentForCertain
    <3> QED
      BY <3>1, <3>2, <3>4
  <2>3. ASSUME NEW r \in Requests, Ask(r) PROVE FALSE
    BY <2>3 DEF Ask
  <2>4. CASE Analyze \/ Select \/ Resolve \/ Build
    BY <2>4 DEF Analyze, Select, Resolve, Build, Answered, Goes
  <2>5. CASE Succeed \/ TransportFails \/ Converge \/ Executed \/ Change
    BY <2>5 DEF Succeed, TransportFails, Converge, Executed, Change, Goes, Raise
  <2> QED
    BY <2>1, <2>2, <2>3, <2>4, <2>5 DEF RoutingNext
<1> QED
  BY <1>1, RoutingInvariant, PTL DEF RoutingSpec, RoutedForCertain

(* What a turn of companion_message asks for it has not learnt from an earlier        *)
(* payload: summarize_memory keeps scalars and lists of them, and _slot_lookup finds    *)
(* them under the name of the field.                                            *)
THEOREM AsksOnlyUnknown == RoutingSpec => AskedOnlyUnknown
<1>1. ASSUME RoutingInv, [RoutingNext]_routingVars
      PROVE  [stage = "build" => missing' \cap known = {}]_routingVars
  <2> SUFFICES ASSUME RoutingNext, stage = "build" PROVE missing' \cap known = {}
    BY <1>1
  <2>1. Build
    BY DEF RoutingNext, Ask, Dispatch, Analyze, Select, Resolve, Send, Succeed, TransportFails,
           Converge, Executed, Change
  <2>2. CASE missing' = missing
    BY <1>1, <2>2 DEF RoutingInv, ChoiceOK
  <2>3. CASE missing' = Missing(Pick, Given)
    <3>1. Pick \in Candidate /\ slots \in Values
          /\ (\A f \in known : f \in DOMAIN slots /\ slots[f].type # "empty")
      BY <1>1, InTurn DEF RoutingInv, RoutingTypeOK, PathOK, ChoiceOK, MemoryOK
    <3>2. ASSUME NEW f \in missing', f \in known PROVE FALSE
      <4>1. f \in Required(Pick) /\ \A v \in Infer(Pick, f) : v.type = "empty"
        BY <2>3, <3>2 DEF Missing
      <4>2. f \in Field /\ f \in DOMAIN slots
        BY <3>1, <3>2, <4>1, PublishedType
      <4>3. Slot(f) = {slots[f]}
        BY <3>1, <4>2, SlotType
      <4> QED
        BY <3>1, <3>2, <4>1, <4>3 DEF Infer
    <3> QED
      BY <3>2
  <2> QED
    BY <2>1, <2>2, <2>3 DEF Build
<1> QED
  BY <1>1, RoutingInvariant, PTL DEF RoutingSpec, AskedOnlyUnknown
=============================================================================
