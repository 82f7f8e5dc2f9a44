------------------------------ MODULE Routing ------------------------------
(***************************************************************************)
(* How a request comes to the intent of an attached product: the registry of     *)
(* the intent router (mitra_intent/runtime.py), the analysis of what fits         *)
(* (analysis.py), the ranking and choice of a candidate and the payload that is    *)
(* made for it (interaction.py), and what a session remembers of it, over the      *)
(* turns of one session (runtime.py: companion_message, execute_ecosystem,         *)
(* dispatch).                                                               *)
(*                                                                         *)
(* The registry changes at any moment, also while one of the two services with    *)
(* a language model that the resolution may ask is awaited; such a service fails,  *)
(* answers nonsense or names any candidate.                                   *)
(*                                                                         *)
(* Abstractions.  A text is the set of its tokens.  Scores are integers in         *)
(* 1/10000, divisions are rounded down.  A candidate is its place in the order of   *)
(* the identities (product, capability, intent), which breaks ties.  A value is    *)
(* the turn whose message or payload it is from (0: a language model) and its      *)
(* JSON kind, where "empty" is the empty list and "object" what is neither a scalar  *)
(* nor a list of scalars (an object, a null, a list of these).  That a dispatch     *)
(* needs an accepting runtime and an ACTIVE session, what it raises for reasons     *)
(* other than the registry, and the tasks and rows of a turn, are in Conversation    *)
(* and Workspace.  The copy that a summary keeps of "symbols" under the name        *)
(* "symbol" is left out.                                                     *)
(***************************************************************************)
EXTENDS Integers, FiniteSets, Sequences, SequencesExt

CONSTANTS
    Published,     \* the intents that manifests publish, in the order of their identities
    Latency,       \* dispatch_latency_by_product: average in ms
    Actions,       \* _ACTION_ALIASES: sequence of [name, words]
    SymbolWord,    \* tokens that extract_symbols finds
    SymbolField,   \* fields whose name has "symbol" in it
    Kin,           \* the names under which _slot_lookup looks for a field
    Requests,      \* what clients ask
    HintKinds,     \* the kinds of values that language models give
    Threshold,     \* deterministic_intent_threshold
    MaxTurns,      \* bound on the turns of the session
    Nil            \* Python's None

Candidate == 1..Len(Published)
Publisher == {Published[c].product : c \in Candidate}
P(c) == Published[c].product
C(c) == Published[c].capability
I(c) == Published[c].intent
Required(c) == DOMAIN Published[c].schema
Field == DOMAIN Kin
Type == {"text", "list", "number", "object"}
Kind == Type \cup {"empty"}
Value == [from : 0..MaxTurns, type : Kind]
\* What fields are declared as, and what is known of some of them.
Schemas == UNION {[F -> Type] : F \in SUBSET Field}
Values == UNION {[F -> Value] : F \in SUBSET Field}
Kinds == UNION {[F -> Kind] : F \in SUBSET Field}
NoValues == [f \in {} |-> 0]

\* f, and g where f has no value.
Over(f, g) == [x \in DOMAIN f \cup DOMAIN g |-> IF x \in DOMAIN f THEN f[x] ELSE g[x]]

(* A product has one manifest, and attachment refuses one that has a capability or  *)
(* an intent twice (attachment-runtime/mitra_attachment/runtime.py:35-53); its        *)
(* names are strings.  _slot_lookup looks for the field itself first (interaction.py:263).      *)
IdentityAssumption ==
    \A c, d \in Candidate : P(c) = P(d) /\ C(c) = C(d) /\ I(c) = I(d) => c = d
PublishedAssumption ==
    /\ Len(Published) \in Nat
    /\ \A c \in Candidate : /\ Published[c].schema \in Schemas /\ Published[c].scopes \in Nat
                            /\ IsFiniteSet(Required(c)) /\ IsFiniteSet(Published[c].text)
                            /\ Nil \notin {P(c), C(c)}
KinAssumption == \A f \in Field : Kin[f] \in Seq(Field) /\ Kin[f] # <<>> /\ Kin[f][1] = f
RequestAssumption ==
    \A r \in Requests : r.path # "dispatch" =>
        IsFiniteSet(r.words) /\ IsFiniteSet(r.assignment) /\ r.gives \in Kinds
RoutingAssumption ==
    /\ IdentityAssumption /\ PublishedAssumption /\ KinAssumption /\ RequestAssumption
    /\ HintKinds \subseteq Kind
    /\ Latency \in [Publisher -> Nat] /\ Threshold \in 0..10000 /\ MaxTurns \in Nat
ASSUME RoutingAssumption

VARIABLES
    attachment, \* product -> state of its attachment
    active,     \* active_product_id of the session
    turn,       \* number of the turn
    stage,      \* where it is
    req,        \* its request
    snapshot,   \* of the registry: candidate -> attachment_state
    analysis,   \* runtime_analysis: status, candidate and payload hints
    choice,     \* selection: resolver, the pick and its fallbacks yet to run, ai_payload
    payload,    \* final_payload
    missing,    \* missing_fields
    raised,     \* the request was refused by an exception after a choice
    slots,      \* slots of the summary: field -> value
    last,       \* product of its last_selection
    known       \* history: fields of which a payload of an answered turn had a scalar
                \* or a list of scalars, the latest of them not the empty one

turnVars == <<req, snapshot, analysis, choice, payload, missing, raised>>
memoryVars == <<slots, last, known>>
routingVars == <<attachment, active, turn, stage, turnVars, memoryVars>>

AttachmentState == {"ATTACHED", "DEGRADED", "DETACHED"}
Stage == {"idle", "review", "rank", "resolve", "build", "send", "await", "converge", "execute"}

NoRequest == [path |-> "none"]
NoAnalysis == [status |-> "none", candidate |-> 0, hints |-> NoValues]
NoChoice == [resolver |-> "none", pick |-> 0, plan |-> <<>>, hints |-> NoValues]

RoutingTypeOK ==
    /\ attachment \in [Publisher -> AttachmentState] /\ active \in Publisher \cup {Nil}
    /\ turn \in 0..MaxTurns /\ stage \in Stage
    /\ req \in Requests \cup {NoRequest}
    /\ snapshot \in UNION {[S -> AttachmentState \ {"DETACHED"}] : S \in SUBSET Candidate}
    /\ analysis \in [status : {"none", "no-match", "needs-more-signal", "matched"},
                     candidate : DOMAIN snapshot \cup {0}, hints : Values]
    /\ choice \in [resolver : {"none", "deterministic", "ai-fallback"},
                   pick : DOMAIN snapshot \cup {0}, plan : Seq(Candidate), hints : Values]
    /\ payload \in Values /\ missing \in SUBSET Field /\ raised \in BOOLEAN
    /\ slots \in Values /\ last \in Publisher \cup {Nil} /\ known \in SUBSET Field

RoutingInit ==
    /\ attachment = [p \in Publisher |-> "ATTACHED"] /\ active \in Publisher \cup {Nil}
    /\ turn = 0 /\ stage = "idle"
    /\ req = NoRequest /\ snapshot = NoValues
    /\ analysis = NoAnalysis /\ choice = NoChoice
    /\ payload = NoValues /\ missing = {} /\ raised = FALSE
    /\ slots = NoValues /\ last = Nil /\ known = {}

(* ------------------------------ the registry --------------------------- *)

\* discover, with available_only = False.
Discover(p, capability) ==
    {c \in Candidate : /\ attachment[P(c)] # "DETACHED"
                       /\ p \in {Nil, P(c)}
                       /\ capability \in {Nil, C(c)}}

\* Mutant of Route: the first of several capabilities that have the intent is taken.
RouteFirst(p, capability, intent) ==
    LET target == IF p # Nil THEN p ELSE active
        matches == {c \in Discover(target, capability) : I(c) = intent}
    IN  IF target = Nil \/ active \notin {Nil, target} THEN {}
        ELSE {c \in matches : attachment[P(c)] = "ATTACHED" /\ \A d \in matches : c <= d}

\* route: the one intent that it finds, or nothing, which is an exception.
Route(p, capability, intent) ==
    LET target == IF p # Nil THEN p ELSE active
        matches == {c \in Discover(target, capability) : I(c) = intent}
    IN  IF target = Nil \/ active \notin {Nil, target} \/ Cardinality(matches) # 1 THEN {}
        ELSE {c \in matches : attachment[P(c)] = "ATTACHED"}

(* ------------------------------ the message ----------------------------- *)

Lesser(a, b) == IF a < b THEN a ELSE b
Larger(a, b) == IF a > b THEN a ELSE b
Clamp(n) == Larger(0, Lesser(n, 10000))
Overlap(left, right) ==
    IF left = {} THEN 0 ELSE (10000 * Cardinality(left \cap right)) \div Cardinality(left)

Symbols == req.words \cap SymbolWord

\* The tokens of required_result in extract_customer_outcome.
RequiredResult ==
    LET meant == SelectSeq(Actions, LAMBDA a : a.words \cap req.words # {})
        action == IF meant = <<>> THEN "execute" ELSE Head(meant).name
    IN  {action} \cup (req.words \ UNION {Actions[n].words : n \in DOMAIN Actions})

\* _slot_lookup: at most one value.
Slot(field) ==
    LET found == {n \in DOMAIN Kin[field] : Kin[field][n] \in DOMAIN slots}
    IN  {slots[Kin[field][n]] : n \in {k \in found : \A m \in found : k <= m}}

\* What the message itself has for a field of a type.
Says(field, type) ==
    \/ type = "text" /\ (field \in SymbolField => Symbols # {})
    \/ type = "list" /\ field \in SymbolField /\ Symbols # {}
    \/ type = "number" /\ req.number

\* _infer_field_value: at most one value; what is remembered comes first.
Infer(c, field) ==
    IF Slot(field) # {} THEN Slot(field)
    ELSE {v \in {[from |-> turn, type |-> Published[c].schema[field]]} : Says(field, v.type)}

(* build_payload_from_message, where given has the values of the client and of   *)
(* the language models.                                                      *)
Missing(c, given) ==
    {f \in Required(c) \ DOMAIN given : \A v \in Infer(c, f) : v.type = "empty"}
Built(c, given) ==
    Over(given, [f \in Required(c) \ (Missing(c, given) \cup DOMAIN given) |->
                    CHOOSE v \in Infer(c, f) : TRUE])

\* The payload of the request.
Explicit == [f \in DOMAIN req.gives |-> [from |-> turn, type |-> req.gives[f]]]

\* What a language model gives, of whatever kind.
Hints(kinds) == [f \in DOMAIN kinds |-> [from |-> 0, type |-> kinds[f]]]

(* ------------------------------ the analysis ---------------------------- *)

Expectation(c) ==
    Larger(Overlap(req.words, Published[c].text), Overlap(RequiredResult, Published[c].text))
SchemaFit(c) ==
    IF Required(c) = {} THEN 10000
    ELSE 10000 - (10000 * Cardinality(Missing(c, Explicit))) \div Cardinality(Required(c))

\* The confidence of _fit_matrix.
Fit(c) ==
    Clamp((34 * Expectation(c) + 12 * Overlap(req.assignment \cup req.words, Published[c].text)
           + 18 * SchemaFit(c) + 12 * (IF Published[c].target THEN 10000 ELSE 0)
           + 16 * (IF snapshot[c] = "ATTACHED" THEN 10000 ELSE 0)
           + 8 * Lesser(10000, 4500 + 1500 * Published[c].scopes)) \div 100
          - Lesser((10000 * Latency[P(c)]) \div 25000, 1000))

\* Candidates by falling score, the later identity first among equals.
Ahead(score, a, b) == score[a] > score[b] \/ (score[a] = score[b] /\ a > b)
Ordered(score) ==
    CHOOSE s \in SetToSeqs(DOMAIN snapshot) :
        \A m, n \in DOMAIN s : m < n => Ahead(score, s[m], s[n])

\* The gaps that block a candidate, and all of them.
Blocked(c) == snapshot[c] # "ATTACHED" \/ ~Published[c].target
Gaps(c) == Blocked(c) \/ Expectation(c) < 1200 \/ Missing(c, Explicit) # {}

\* The lead of the first over the second.
Lead(order, score) ==
    score[order[1]] - (IF Len(order) > 1 THEN score[order[2]] ELSE 0)

\* _deterministic_decision, and whether analyze leaves it at that.
Decision ==
    LET fit == [c \in DOMAIN snapshot |-> Fit(c)]
        order == Ordered(fit)
    IN  IF order = <<>> THEN [status |-> "no-match", candidate |-> 0, clear |-> FALSE]
        ELSE LET top == order[1]
                 matched == fit[top] >= Threshold /\ ~Blocked(top)
             IN  [status |-> IF matched THEN "matched" ELSE "needs-more-signal",
                  candidate |-> top,
                  clear |-> matched /\ Lead(order, fit) >= 800 /\ ~Gaps(top)]

(* ------------------------------- the choice ----------------------------- *)

\* The confidence of rank; every candidate is in the fit matrix.
Score(c) ==
    LET points(condition, n) == IF condition THEN n ELSE 0
    IN  Clamp(Overlap(req.words, Published[c].text)
              + (18 * Overlap(RequiredResult, Published[c].text)) \div 100
              + points(req.product = P(c) \/ (req.product = Nil /\ active = P(c)), 2200)
              + points(req.capability = C(c), 1800)
              + points(active = P(c), 1400)
              + points(last = P(c), 500)
              + points(req.question /\ "query" \in Required(c), 2300)
              + points(Symbols # {} /\ Required(c) \cap SymbolField # {}, 1800)
              + Lesser((18 * Fit(c)) \div 100, 1800)
              + points(analysis.candidate = c, 1600)
              - points(snapshot[c] # "ATTACHED", 5000)
              - Lesser((10000 * Latency[P(c)]) \div 20000, 1200))

Scores == [c \in DOMAIN snapshot |-> Score(c)]

\* _decide: low-confidence or ambiguous.
Unclear(order, score) ==
    \/ score[order[1]] < Threshold
    \/ Len(order) > 1 /\ Lead(order, score) <= 800

\* _decide: the candidate that is selected, if one is.
Selected ==
    LET score == Scores
        order == Ordered(score)
        targeted == req.product # Nil \/ req.capability # Nil \/ active # Nil
    IN  IF order # <<>> /\ ((targeted /\ Len(order) = 1) \/ ~Unclear(order, score))
        THEN {order[1]} ELSE {}

(* ------------------------------- the turns ------------------------------ *)

\* A message or an ecosystem request; the registry is in any state by then.
Ask(r) ==
    /\ stage = "idle" /\ turn < MaxTurns /\ r.path # "dispatch"
    /\ attachment' \in [Publisher -> AttachmentState] /\ UNCHANGED <<active, memoryVars>>
    /\ turn' = turn + 1
    /\ req' = r
    /\ snapshot' = LET scope == IF r.product # Nil THEN r.product ELSE active
                   IN  [c \in Discover(scope, r.capability)' |-> attachment'[P(c)]]
    /\ analysis' = NoAnalysis /\ choice' = NoChoice
    /\ payload' = NoValues /\ missing' = {} /\ raised' = FALSE
    /\ stage' = "review"

\* An AI that is allowed is asked, unless there is nothing to ask or no doubt.
Reviewed == req.allow /\ req.path = "turn" /\ DOMAIN snapshot # {} /\ ~Decision.clear

\* The AI's answer is in the matrix that it was given.
Known(c) == c \in DOMAIN snapshot

(* analyze: the decision, or what _merge_ai_result makes of an answer of the AI  *)
(* that names a candidate of the matrix with enough confidence.                *)
Analyze ==
    /\ stage = "review"
    /\ \/ analysis' = [status |-> Decision.status, candidate |-> Decision.candidate,
                       hints |-> NoValues]
       \/ /\ Reviewed
          /\ \E c \in Candidate : \E fields \in SUBSET Required(c) : \E kinds \in [fields -> HintKinds] :
                /\ Known(c)
                /\ analysis' = [status |-> "matched", candidate |-> c, hints |-> Hints(kinds)]
    /\ stage' = IF req.path = "turn" THEN "rank" ELSE "converge"
    /\ UNCHANGED <<attachment, active, turn, req, snapshot, choice, payload, missing, raised, memoryVars>>

\* summarize_memory keeps scalars and lists of scalars, the empty one too.
Kept(built) == [f \in {g \in DOMAIN built : built[g].type # "object"} |-> built[f]]

\* What a payload makes known, and what it takes back.
Learnt(built) ==
    (known \ {f \in DOMAIN built : built[f].type = "empty"})
        \cup {f \in DOMAIN built : built[f].type \in {"text", "list", "number"}}

\* The turn is over: it has an answer, and the session remembers it.
Answered(built, selected) ==
    /\ stage' = "idle"
    /\ slots' = Over(Kept(built), slots)
    /\ last' = IF selected = {} THEN Nil ELSE CHOOSE p \in {P(c) : c \in selected} : TRUE
    /\ known' = Learnt(built)

Goes(s) == stage' = s /\ UNCHANGED memoryVars

(* select: _decide, then _ai_fallback for what it leaves undecided.            *)
Select ==
    /\ stage = "rank"
    /\ IF Selected # {}
       THEN /\ choice' = [resolver |-> "deterministic",
                          pick |-> CHOOSE c \in Selected : TRUE, plan |-> <<>>, hints |-> NoValues]
            /\ Goes("build")
       ELSE IF req.allow /\ DOMAIN snapshot # {} THEN Goes("resolve") /\ UNCHANGED choice
       ELSE Answered(NoValues, {}) /\ UNCHANGED choice
    /\ UNCHANGED <<attachment, active, turn, req, snapshot, analysis, payload, missing, raised>>

Resolve ==
    /\ stage = "resolve"
    /\ \/ /\ \E c \in Candidate : \E fields \in SUBSET Required(c) : \E kinds \in [fields -> HintKinds] :
                /\ Known(c)
                /\ choice' = [resolver |-> "ai-fallback", pick |-> c, plan |-> <<>>,
                              hints |-> Hints(kinds)]
          /\ Goes("build")
       \/ UNCHANGED choice /\ Answered(NoValues, {})
    /\ UNCHANGED <<attachment, active, turn, req, snapshot, analysis, payload, missing, raised>>

\* What the client and the two AIs give, the client before the others.
Given == Over(Explicit, Over(choice.hints, analysis.hints))

\* _selected: ranked[1:4], whatever was picked.
Fallbacks ==
    LET ranked == Ordered(Scores)
    IN  SubSeq(ranked, 2, Lesser(4, Len(ranked)))

Pick == choice.pick

(* _attempt_fallback_dispatch skips the pick, what the snapshot has not attached,  *)
(* and what misses an input.                                                *)
Usable(c) == c # Pick /\ snapshot[c] = "ATTACHED" /\ Missing(c, Given) = {}

\* Mutant of Build: what was found for an incomplete payload is forgotten.
BuildForgets ==
    /\ stage = "build"
    /\ IF snapshot[Pick] # "ATTACHED" THEN Answered(NoValues, {Pick}) /\ UNCHANGED <<payload, missing, choice>>
       ELSE /\ payload' = Built(Pick, Given) /\ missing' = Missing(Pick, Given)
            /\ choice' = [choice EXCEPT !.plan = <<Pick>> \o Fallbacks]
            /\ IF missing' = {} /\ req.run THEN Goes("send")
               ELSE /\ stage' = "idle" /\ last' = P(Pick) /\ UNCHANGED slots
                    /\ known' = Learnt(payload')
    /\ UNCHANGED <<attachment, active, turn, req, snapshot, analysis, raised>>

\* Mutant of Build: a payload is run although inputs are missing.
BuildPartial ==
    /\ stage = "build"
    /\ IF snapshot[Pick] # "ATTACHED" THEN Answered(NoValues, {Pick}) /\ UNCHANGED <<payload, missing, choice>>
       ELSE /\ payload' = Built(Pick, Given) /\ missing' = Missing(Pick, Given)
            /\ choice' = [choice EXCEPT !.plan = <<Pick>> \o Fallbacks]
            /\ IF req.run THEN Goes("send") ELSE Answered(payload', {Pick})
    /\ UNCHANGED <<attachment, active, turn, req, snapshot, analysis, raised>>

(* What is selected is UNAVAILABLE in the snapshot, has its inputs asked for, is    *)
(* left for the client to confirm, or is run.                                 *)
Build ==
    /\ stage = "build"
    /\ IF snapshot[Pick] # "ATTACHED" THEN Answered(NoValues, {Pick}) /\ UNCHANGED <<payload, missing, choice>>
       ELSE /\ payload' = Built(Pick, Given) /\ missing' = Missing(Pick, Given)
            /\ choice' = [choice EXCEPT !.plan = <<Pick>> \o Fallbacks]
            /\ IF missing' = {} /\ req.run THEN Goes("send") ELSE Answered(payload', {Pick})
    /\ UNCHANGED <<attachment, active, turn, req, snapshot, analysis, raised>>

Satisfies(type, kind) == kind = type \/ (type = "list" /\ kind = "empty")

\* dispatch validates the payload against the schema of the route.
Valid(c) ==
    \A f \in Required(c) : f \in DOMAIN payload /\ Satisfies(Published[c].schema[f], payload[f].type)

Raise == stage' = "idle" /\ raised' = TRUE /\ UNCHANGED <<choice, payload, memoryVars>>

\* The next usable fallback with its own payload; after the last the turn fails.
NextFallback ==
    LET usable == {n \in 2..Len(choice.plan) : Usable(choice.plan[n])}
    IN  /\ \/ \E n \in usable :
                /\ \A m \in usable : n <= m
                /\ choice' = [choice EXCEPT !.plan = SubSeq(@, n, Len(@))]
                /\ payload' = Built(choice.plan[n], Given)
                /\ Goes("send")
           \/ /\ usable = {}
              /\ payload' = Built(Pick, Given)
              /\ Answered(payload', {Pick})
              /\ UNCHANGED choice
        /\ UNCHANGED raised

(* What the loop over the fallbacks does not catch: a ResourceConflictError of a    *)
(* session that is bound to another product, and the ResourceNotFoundError of        *)
(* lookup_capability, which has nothing of a product that is DETACHED by now.       *)
Uncaught(c) == active \notin {Nil, P(c)} \/ Discover(P(c), C(c)) = {}

(* The entry of dispatch: the router looks for the route in the registry of now.   *)
(* Of the candidate that was picked nothing is caught.                           *)
Send ==
    /\ stage = "send"
    /\ LET c == Head(choice.plan)
       IN  IF Route(P(c), C(c), I(c)) = {c} /\ Valid(c) THEN Goes("await") /\ UNCHANGED <<choice, payload, raised>>
           ELSE IF c = Pick \/ Uncaught(c) THEN Raise ELSE NextFallback
    /\ UNCHANGED <<attachment, active, turn, req, snapshot, analysis, missing>>

\* A client that names the intent itself; its payload is complete.
Dispatch(r) ==
    /\ stage = "idle" /\ turn < MaxTurns /\ r.path = "dispatch"
    /\ turn' = turn + 1 /\ req' = r /\ snapshot' = NoValues /\ analysis' = NoAnalysis
    /\ payload' = NoValues /\ missing' = {}
    /\ attachment' \in [Publisher -> AttachmentState] /\ UNCHANGED <<active, memoryVars>>
    /\ LET found == Route(r.product, r.capability, r.intent)'
       IN  /\ raised' = (found = {})
           /\ stage' = IF found = {} THEN "idle" ELSE "await"
           /\ choice' = [NoChoice EXCEPT !.plan = IF found = {} THEN <<>>
                                                  ELSE <<CHOOSE c \in found : TRUE>>]

(* _dispatch_artifact_set asks the router for the registrations of a DETACHED        *)
(* product: an IntentRoutingError, which only the loop over the fallbacks catches.  *)
Unrecorded == IF req.path = "turn" /\ Head(choice.plan) # Pick THEN NextFallback ELSE Raise

\* The product answers, and dispatch returns if it can record that.
Succeed ==
    /\ stage = "await"
    /\ IF attachment[P(Head(choice.plan))] = "DETACHED" THEN Unrecorded
       ELSE /\ IF req.path = "turn" THEN Answered(payload, {Pick}) ELSE Goes("idle")
            /\ UNCHANGED <<choice, payload, raised>>
    /\ UNCHANGED <<attachment, active, turn, req, snapshot, analysis, missing>>

(* TransportError: the product is DEGRADED, whatever it was, and may be detached by   *)
(* another instance before the failure is recorded.                             *)
TransportFails ==
    /\ stage = "await"
    /\ \E s \in {"DEGRADED", "DETACHED"} :
          /\ attachment' = [attachment EXCEPT ![P(Head(choice.plan))] = s]
          /\ IF s = "DETACHED" THEN Unrecorded
             ELSE IF req.path = "turn" THEN NextFallback
             ELSE Goes("idle") /\ UNCHANGED <<choice, payload, raised>>
    /\ UNCHANGED <<active, turn, req, snapshot, analysis, missing>>

(* execute_ecosystem: the capability that was matched is looked up once more.     *)
Converge ==
    /\ stage = "converge"
    /\ LET c == analysis.candidate
       IN  IF analysis.status = "matched" /\ c \in Discover(P(c), C(c))
           THEN Goes("execute") /\ UNCHANGED <<choice, payload, raised>> ELSE Raise
    /\ UNCHANGED <<attachment, active, turn, req, snapshot, analysis, missing>>

\* Ecosystem executes it.
Executed ==
    /\ stage = "execute" /\ Goes("idle")
    /\ UNCHANGED <<attachment, active, turn, turnVars>>

(* Another request or the supervisor changes the state of an attachment, at any     *)
(* moment: what has changed is told before the registry is read again.           *)
Change ==
    /\ stage \in {"send", "await", "converge"}
    /\ \E p \in Publisher : \E s \in AttachmentState \ {attachment[p]} :
          attachment' = [attachment EXCEPT ![p] = s]
    /\ UNCHANGED <<active, turn, stage, turnVars, memoryVars>>

RoutingNext ==
    \/ \E r \in Requests : Ask(r) \/ Dispatch(r)
    \/ Analyze \/ Select \/ Resolve \/ Build \/ Send \/ Succeed \/ TransportFails
    \/ Converge \/ Executed \/ Change

RoutingSpec == RoutingInit /\ [][RoutingNext]_routingVars

(* ----------------------------- properties ----------------------------- *)

(* What goes to a product is the one intent that the request and the session       *)
(* leave open, in a product that is attached at that moment, however long a         *)
(* language model or a failing product was awaited; an intent of several           *)
(* capabilities is not guessed (docs/FAILURE_MATRIX.md:11-12).                    *)
RoutedForCertain ==
    [][stage # "await" /\ stage' = "await" =>
         LET c == Head(choice'.plan)
             named == IF req'.path = "dispatch" THEN req'.capability ELSE C(c)
         IN  /\ attachment'[P(c)] = "ATTACHED" /\ active \in {Nil, P(c)}
             /\ \A d \in Candidate : (P(d) = P(c) /\ I(d) = I(c) /\ named \in {Nil, C(d)}) => d = c]_routingVars

(* The session does not ask for an input that it has had, were it in a payload that   *)
(* was not complete: if it was a scalar or a list of scalars (an object and a null     *)
(* are forgotten), and no empty list has taken its place (which is asked for again).   *)
AskedOnlyUnknown == [][stage = "build" => missing' \cap known = {}]_routingVars

(* A turn for which a candidate was selected is refused, at the entry of a dispatch    *)
(* or when it cannot be recorded, for one of these causes: the session is bound to     *)
(* another product than that of the candidate tried last, that product is detached, or *)
(* the one tried is the one selected and is not attached any more or is given a value   *)
(* that does not fit its schema, and that is not made from this message.           *)
RefusedForCause ==
    raised /\ req.path = "turn" =>
       LET c == Head(choice.plan)
       IN  \/ active \notin {Nil, P(c)}
           \/ attachment[P(c)] = "DETACHED"
           \/ c = Pick /\ attachment[P(c)] = "DEGRADED"
           \/ c = Pick /\ \E f \in Required(c) :
                 /\ f \in DOMAIN payload
                 /\ ~Satisfies(Published[c].schema[f], payload[f].type)
                 /\ payload[f].from # turn \/ f \in DOMAIN req.gives

(* A message that names a symbol is answered for that symbol                     *)
(* (pratham/tests/test_companion_interaction.py:171).                            *)
FollowsMessage ==
    stage = "await" /\ req.path = "turn" /\ Symbols # {} =>
       \A f \in DOMAIN payload \cap SymbolField \cap Required(Head(choice.plan)) :
          f \in DOMAIN Given \/ payload[f].from = turn
=============================================================================
