---------------------------- MODULE Conversation ----------------------------
(***************************************************************************)
(* Companion messages (runtime.py: companion_message and what it calls) in one  *)
(* session, on the instances of Coordination: a turn is recorded, a capability   *)
(* is chosen for it, a task is opened, the capability is dispatched and, when     *)
(* its transport fails, the next ones of the ranking are; the task is closed,    *)
(* the answer is recorded and the memory of the session is renewed.             *)
(*                                                                         *)
(* A turn holds the event loop of its instance from one await to the next.      *)
(* The end of its task, its answer and the context are separate transactions     *)
(* of the section that follows the last await, hence separate steps.            *)
(*                                                                         *)
(* Abstractions.  What is chosen (Routing) is any candidate of any ranking, and  *)
(* the two awaits of the choice are one.  Products may be attached and degraded   *)
(* at any moment, so that every look at them may find them in either state.  A    *)
(* dispatch (Runtime) is refused at its entry, or awaits the product and then     *)
(* returns, fails, or raises whatever the product has answered.  A summary is     *)
(* the set of the turns that it was made from.                                  *)
(* What a turn will not read again is cleared.                                *)
(***************************************************************************)
EXTENDS Coordination, FiniteSetsExt

CONSTANT Candidates   \* number of intents that the attached products publish

ASSUME CandidatesAssumption == Candidates \in Nat

\* A candidate is its place in the ranking of the message.
Candidate == 1..Candidates

Turn == Task    \* a turn opens at most one task

VARIABLES
    turn,       \* the turns: what companion_message has in its variables
    open,       \* whether the session is ACTIVE
    answers,    \* turns whose answer has a row in companion_messages
    summary,    \* summary_json of the latest row there
    memory,     \* companion_memory in the context of the session
    alone       \* whether no two turns have overlapped so far

sessionVars == <<open, answers, summary, memory, alone>>
vars == <<coordVars, turn, sessionVars>>

\* companion_message awaits the choice in "choose" and a product in "await";
\* "ask" is the entry of dispatch, "close", "answer" and "persist" what follows.
Over == {"done", "raised", "cut"}
TurnStep == {"new", "choose", "ask", "await", "close", "answer", "persist"} \cup Over

\* The statuses of an answer; "UNRUN" stands for NEEDS_CLARIFICATION, UNAVAILABLE
\* and SELECTED, which run nothing.
Reply == {"UNRUN", "COMPLETED", "FAILED"}
ASSUME ReplyAssumption == None \notin Reply

\* before: memory_before; pick: the candidate selected; plan: those that can be
\* asked, asked the one that is, rest those after it; ok: the one whose dispatch
\* returned; failed: those whose did not; heard: history, those that answered;
\* reply: assistant_status.
NewTurn == [step |-> "new", at |-> None, before |-> {}, pick |-> 0, plan |-> {},
            asked |-> 0, rest |-> {}, ok |-> 0, failed |-> {}, heard |-> {},
            reply |-> None]

TypeOK ==
    /\ CoordTypeOK
    /\ \A t \in Turn :
          /\ turn[t].step \in TurnStep
          /\ turn[t].at \in Instance \cup {None}
          /\ turn[t].before \subseteq Turn
          /\ turn[t].plan \subseteq Candidate /\ turn[t].rest \subseteq Candidate
          /\ turn[t].failed \subseteq Candidate /\ turn[t].heard \subseteq Candidate
          /\ turn[t].pick \in 0..Candidates
          /\ turn[t].asked \in 0..Candidates /\ turn[t].ok \in 0..Candidates
          /\ turn[t].reply \in Reply \cup {None}
    /\ open \in BOOLEAN
    /\ answers \subseteq Turn /\ summary \subseteq Turn /\ memory \subseteq Turn /\ alone \in BOOLEAN

Init ==
    /\ CoordInit
    /\ turn = [t \in Turn |-> NewTurn]
    /\ open = TRUE
    /\ answers = {}
    /\ summary = {}
    /\ memory = {}
    /\ alone = TRUE

Running(t) == turn[t].step \notin {"new"} \cup Over

\* A coroutine that has the loop keeps it until it awaits or returns.
Resumed(t, s) == turn[t].step = s /\ pc[turn[t].at]["loop"] = "rest"
Goes(t, s) == turn[t].step = s /\ pc[turn[t].at]["loop"] = "busy"
Hold(t) == At(turn[t].at, "loop", "busy")
Yield(t) == At(turn[t].at, "loop", "rest")

\* The turn is over.
Left(r, s) == [NewTurn EXCEPT !.step = s, !.at = r.at, !.reply = r.reply]

LoopOnly == <<store, accepting, halt, op, sel, ops>>

\* Mutant of Accept: the row of the user's message has no summary.
AcceptBlank(i, t) ==
    /\ turn[t].step = "new" /\ LoopFree(i) /\ accepting[i]
    /\ turn' = [turn EXCEPT ![t].step = "choose", ![t].at = i,
                            ![t].before = summary]
    /\ summary' = {}
    /\ alone' = (alone /\ \A u \in Turn : ~Running(u))
    /\ UNCHANGED <<coordVars, open, answers, memory>>

(* The entry of companion_message, for a session in any state.  The summary is  *)
(* that of the latest row of either role, and the row of the user's message      *)
(* repeats what it found.                                                    *)
Accept(i, t) ==
    /\ turn[t].step = "new" /\ LoopFree(i) /\ accepting[i]
    /\ turn' = [turn EXCEPT ![t].step = "choose", ![t].at = i,
                            ![t].before = summary]
    /\ summary' = turn'[t].before
    /\ alone' = (alone /\ \A u \in Turn : ~Running(u))
    /\ UNCHANGED <<coordVars, open, answers, memory>>

(* Nothing is run: no candidate is good enough or inputs are missing, the one   *)
(* that is selected was not attached, or the message did not ask to run it.     *)
Decline(t) ==
    /\ Resumed(t, "choose")
    /\ turn' = [turn EXCEPT ![t].step = "answer", ![t].reply = "UNRUN"]
    /\ Hold(t)
    /\ UNCHANGED <<LoopOnly, tasks, sessionVars>>

(* _selected: fallback_candidates is ranked[1:4] whatever candidate was picked.  *)
(* _attempt_fallback_dispatch skips the one that failed, those that the          *)
(* snapshot has not attached, and those that need other inputs.               *)
Fallbacks == Candidate \cap 2..4

\* Mutant of Tries: the candidate that failed is not recognised.
TriesAgain(pick, usable) == Fallbacks \cap usable

Tries(pick, usable) == (Fallbacks \cap usable) \ {pick}

(* A candidate is selected that the snapshot has attached and that has its       *)
(* inputs, as those have that are usable as fallbacks.                       *)
Run(t) ==
    /\ Resumed(t, "choose")
    /\ \E usable \in SUBSET Candidate : \E pick \in usable :
          turn' = [turn EXCEPT ![t].step = "ask", ![t].pick = pick, ![t].asked = pick,
                               ![t].plan = {pick} \cup Tries(pick, usable),
                               ![t].rest = Tries(pick, usable)]
    /\ Create(turn[t].at, t)
    /\ Hold(t)
    /\ UNCHANGED <<LoopOnly, sessionVars>>

Asked(t) == turn[t].asked

(* A candidate fails: the next one of the ranking is asked, after the last the   *)
(* task is closed.                                                          *)
Failing(r) ==
    IF r.rest = {}
    THEN [r EXCEPT !.failed = @ \cup {r.asked}, !.step = "close"]
    ELSE [r EXCEPT !.failed = @ \cup {r.asked}, !.step = "ask",
                   !.asked = Min(r.rest), !.rest = @ \ {Min(r.rest)}]

(* The entry of dispatch.  A router that finds no capability of a product that   *)
(* is attached, or a payload against the input schema, is an IntentRoutingError, *)
(* which only the loop over the fallbacks catches.                             *)
Refused(t) ==
    /\ Goes(t, "ask")
    /\ turn[t].failed # {}
    /\ accepting[turn[t].at] /\ open
    /\ turn' = [turn EXCEPT ![t] = Failing(@)]
    /\ UNCHANGED <<coordVars, sessionVars>>

(* Nobody catches the others: a runtime that does not accept, a session that is   *)
(* not ACTIVE or is bound to another product, a product that is DETACHED by now   *)
(* (lookup_capability raises ResourceNotFoundError); nor, of the candidate        *)
(* selected, any refusal.                                                    *)
Raise(t) ==
    /\ Goes(t, "ask")
    /\ turn' = [turn EXCEPT ![t] = Left(@, "raised")]
    /\ Abandon(t)
    /\ Yield(t)
    /\ UNCHANGED <<LoopOnly, sessionVars>>

Send(t) ==
    /\ Goes(t, "ask")
    /\ accepting[turn[t].at] /\ open
    /\ turn' = [turn EXCEPT ![t].step = "await"]
    /\ Yield(t)
    /\ UNCHANGED <<LoopOnly, tasks, sessionVars>>

Answering(r) == [r EXCEPT !.heard = @ \cup {r.asked}]

(* The product has answered and dispatch returns.                            *)
Succeed(t) ==
    /\ Resumed(t, "await")
    /\ turn' = [turn EXCEPT ![t] = [Answering(@) EXCEPT !.step = "close", !.ok = Asked(t)]]
    /\ Hold(t)
    /\ UNCHANGED <<LoopOnly, tasks, sessionVars>>

(* The product has answered and the dispatch is COMPLETED, but the product has    *)
(* been detached meanwhile, and what is recorded of the dispatch asks the router  *)
(* for it: an IntentRoutingError, which the loop over the fallbacks takes for a    *)
(* failure of this one.                                                      *)
Unrecorded(t) ==
    /\ Resumed(t, "await")
    /\ turn[t].failed # {}
    /\ turn' = [turn EXCEPT ![t] = Failing(Answering(@))]
    /\ Hold(t)
    /\ UNCHANGED <<LoopOnly, tasks, sessionVars>>

(* The dispatch raises what nobody catches: of the candidate selected anything    *)
(* but a TransportError, of a fallback anything but that and an IntentRoutingError *)
(* (an illegal transition of the lifecycle, the store).                        *)
Break(t) ==
    /\ Resumed(t, "await")
    /\ turn' = [turn EXCEPT ![t] = Left(@, "raised")]
    /\ Abandon(t)
    /\ UNCHANGED <<store, procs, sessionVars>>

(* TransportError: the product has not answered, or not what its schema says.    *)
Fail(t) ==
    /\ Resumed(t, "await")
    /\ turn' = [turn EXCEPT ![t] = Failing(@)]
    /\ Hold(t)
    /\ UNCHANGED <<LoopOnly, tasks, sessionVars>>

\* Mutant of CloseTask: a task is closed only when the first candidate ran.
CloseTaskFirst(t) ==
    /\ Goes(t, "close")
    /\ LET status == IF turn[t].ok # 0 THEN "COMPLETED" ELSE "FAILED"
       IN  /\ IF turn[t].failed = {} THEN End(t, status) ELSE Abandon(t)
           /\ turn' = [turn EXCEPT ![t].step = "answer", ![t].reply = status]
    /\ UNCHANGED <<store, procs, sessionVars>>

\* update_companion_task, with what the dispatch or the fallbacks came to.
CloseTask(t) ==
    /\ Goes(t, "close")
    /\ LET status == IF turn[t].ok # 0 THEN "COMPLETED" ELSE "FAILED"
       IN  /\ End(t, status)
           /\ turn' = [turn EXCEPT ![t].step = "answer", ![t].reply = status]
    /\ UNCHANGED <<store, procs, sessionVars>>

(* The row of the answer has the memory that summarize_memory makes of           *)
(* memory_before and of this turn.                                          *)
Remembers(t) == turn[t].before \cup {t}

Answer(t) ==
    /\ Goes(t, "answer")
    /\ turn' = [turn EXCEPT ![t].step = "persist"]
    /\ answers' = answers \cup {t}
    /\ summary' = Remembers(t)
    /\ UNCHANGED <<coordVars, open, memory, alone>>

(* _persist_companion_memory; a session that is not ACTIVE refuses it and the    *)
(* answer that is recorded is not returned.                                  *)
Persist(t) ==
    /\ Goes(t, "persist")
    /\ turn' = [turn EXCEPT ![t] = Left(@, IF open THEN "done" ELSE "raised")]
    /\ memory' = IF open THEN Remembers(t) ELSE memory
    /\ Yield(t)
    /\ UNCHANGED <<LoopOnly, tasks, open, answers, summary, alone>>

(* The instances go on; a process that ends takes its turns with it.           *)
Coordinate ==
    /\ CoordNext
    /\ turn' = [t \in Turn |->
                  IF Running(t) /\ pc'[turn[t].at]["loop"] = "down"
                  THEN Left(turn[t], "cut") ELSE turn[t]]
    /\ UNCHANGED <<sessionVars>>

(* Another request closes the session.                                      *)
CloseSession ==
    /\ open /\ open' = FALSE
    /\ UNCHANGED <<coordVars, turn, answers, summary, memory, alone>>

TurnNext(t) ==
    \/ \E i \in Instance : Accept(i, t)
    \/ Decline(t) \/ Run(t) \/ Refused(t) \/ Raise(t) \/ Send(t)
    \/ Succeed(t) \/ Unrecorded(t) \/ Break(t) \/ Fail(t)
    \/ CloseTask(t) \/ Answer(t) \/ Persist(t)

ConversationNext == Coordinate \/ CloseSession \/ \E t \in Turn : TurnNext(t)

ConversationSpec == Init /\ [][ConversationNext]_vars

(* ----------------------------- properties ----------------------------- *)

(* No product is asked for the same capability twice in a turn, not even when   *)
(* the resolver has picked another candidate than the first of its ranking; and  *)
(* after the one selected has answered no other is asked.  (After a fallback has   *)
(* answered another is, when its dispatch could not be recorded.)              *)
AskedOnce ==
    \A t \in Turn : turn[t].step = "await" =>
       /\ Asked(t) \notin turn[t].failed
       /\ turn[t].heard \subseteq turn[t].failed \ {turn[t].pick}

(* An answer tells what happened: COMPLETED that a product answered, and that     *)
(* every one asked before it failed; FAILED that the one selected did not answer   *)
(* and that every fallback that could be tried has been; and the task says the     *)
(* same unless recovery has taken it for interrupted.                          *)
AnswerIsTrue ==
    \A t \in Turn :
       /\ Running(t) /\ turn[t].reply = "COMPLETED" =>
             turn[t].ok \in turn[t].heard \ turn[t].failed
       /\ Running(t) /\ turn[t].reply = "FAILED" =>
             /\ turn[t].ok = 0 /\ turn[t].plan = turn[t].failed
             /\ turn[t].pick \notin turn[t].heard
       /\ turn[t].reply \in {"COMPLETED", "FAILED"}
             => task[t] \in {turn[t].reply, "INTERRUPTED"}
       /\ turn[t].reply = "UNRUN" => task[t] = None

(* "unavailable right now" (runtime.py:1784): what an answer says FAILED of,       *)
(* nobody has answered.  The code does not keep this, for Unrecorded, and no run   *)
(* checks it.                                                                *)
FailedIsUnheard ==
    \A t \in Turn : Running(t) /\ turn[t].reply = "FAILED" => turn[t].heard = {}

(* As long as the turns of a session do not overlap, each finds the memory of    *)
(* all that were answered before it, also after turns that were cut off or       *)
(* ended in an error, on whatever instance they ran.                         *)
MemoryKept == alone => summary = answers
=============================================================================
