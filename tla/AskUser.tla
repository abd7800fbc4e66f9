------------------------------- MODULE AskUser -------------------------------
(***************************************************************************)
(* A run asks a human.  The ask_user tool blocks on a Unix socket; the     *)
(* service's listener (service/ask_user_listener.py) holds the connection  *)
(* open in a thread of its own, shows the question in the trace and, for a *)
(* run that was started from a chat thread, posts it there through the     *)
(* registry of surfaces/pipeline.py; an answer arrives over HTTP or as a   *)
(* message of the thread.  Tool, handler thread, answerers, the submitting *)
(* thread and close() all move independently.                              *)
(***************************************************************************)
EXTENDS Naturals, FiniteSets

CONSTANTS
    Sessions,   \* runs with an open bridge
    Questions,  \* the question ids the tools of those runs draw
    RunOf,      \* RunOf[q]: the run that asks q
    Threads,    \* chat threads
    Home,       \* Home[s]: the thread a run was started from, None for a browser run
    Fallback,   \* Fallback[s]: the thread opened for it in owned_channel, None if not configured
    Answerers,  \* answers that are sent, each by a request thread of its own
    None

ASSUME AskUserAssumption ==
    /\ RunOf \in [Questions -> Sessions]
    /\ Home \in [Sessions -> Threads \cup {None}]
    /\ Fallback \in [Sessions -> Threads \cup {None}]
    /\ None \notin Sessions \cup Questions \cup Threads \cup Answerers

VARIABLES
    \* the tool process of each question, and the answer it was given
    tool, got,
    \* the handler thread of each question and its _Pending: latch and reply
    handler, event, reply, via, traced,
    \* per run: the bridge's life, the _pending dict, what close() still releases
    bridge, pending, victims,
    \* pipeline.py: _target_by_session, _session_by_target, _pending_question
    target, sessionAt, slot, homed,
    \* the last question posted in each thread
    shown,
    \* the answerers: place, run, question aimed at, question meant, thread, verdict
    pc, sess, aim, meant, thread, verdict

toolVars     == <<tool, got>>
handlerVars  == <<handler, event, reply, via, traced>>
bridgeVars   == <<bridge, pending, victims>>
registryVars == <<target, sessionAt, slot, homed>>
answerVars   == <<pc, sess, aim, meant, thread, verdict>>
vars == <<toolVars, handlerVars, bridgeVars, registryVars, shown, answerVars>>

-----------------------------------------------------------------------------
Routing    == {"tracing", "routing", "registering", "posting", "slotting"}
Registered == Routing \cup {"waiting", "sending", "dropping", "leaving"}

ToolTypes ==
    /\ tool \in [Questions -> {"idle", "asking", "answered", "defaulted", "failed"}]
    /\ got \in [Questions -> Answerers \cup {None}]

HandlerTypes ==
    /\ handler \in [Questions -> {"none", "reading", "done", "left"} \cup Registered]
    /\ event \in [Questions -> BOOLEAN]
    /\ reply \in [Questions -> Answerers \cup {None}]
    /\ via \in [Questions -> Threads \cup {None}]
    /\ \A q \in Questions : handler[q] \in {"registering", "posting", "slotting"} => via[q] # None
    /\ traced \in SUBSET Questions

BridgeTypes ==
    /\ bridge \in [Sessions -> {"open", "popped", "stopped", "releasing", "closed"}]
    /\ pending \in SUBSET Questions
    /\ victims \in SUBSET Questions

RegistryTypes ==
    /\ target \in [Sessions -> Threads \cup {None}]
    /\ sessionAt \in [Threads -> Sessions \cup {None}]
    /\ slot \in [Sessions -> Questions \cup {None}]
    /\ homed \in SUBSET Sessions
    /\ shown \in [Threads -> Questions \cup {None}]

AnswerTypes ==
    /\ pc \in [Answerers -> {"idle", "target", "slot", "bridge", "lookup", "reply", "event", "clear", "done"}]
    /\ sess \in [Answerers -> Sessions \cup {None}]
    /\ aim \in [Answerers -> Questions \cup {None}]
    /\ meant \in [Answerers -> Questions \cup {None}]
    /\ thread \in [Answerers -> Threads \cup {None}]
    /\ verdict \in [Answerers -> {"unsent", "accepted", "refused"}]
    /\ \A a \in Answerers :
          /\ pc[a] = "target" => thread[a] # None
          /\ pc[a] \in {"slot", "bridge", "lookup", "reply", "event", "clear"} => sess[a] # None
          /\ pc[a] \in {"bridge", "lookup", "reply", "event", "clear"} => aim[a] # None

TypeOK == ToolTypes /\ HandlerTypes /\ BridgeTypes /\ RegistryTypes /\ AnswerTypes

Init ==
    /\ tool = [q \in Questions |-> "idle"] /\ got = [q \in Questions |-> None]
    /\ handler = [q \in Questions |-> "none"] /\ event = [q \in Questions |-> FALSE]
    /\ reply = [q \in Questions |-> None] /\ via = [q \in Questions |-> None]
    /\ traced = {} /\ pending = {} /\ victims = {}
    /\ bridge = [s \in Sessions |-> "open"]
    /\ target = [s \in Sessions |-> None] /\ sessionAt = [t \in Threads |-> None]
    /\ slot = [s \in Sessions |-> None] /\ homed = {}
    /\ shown = [t \in Threads |-> None]
    /\ pc = [a \in Answerers |-> "idle"] /\ sess = [a \in Answerers |-> None]
    /\ aim = [a \in Answerers |-> None] /\ meant = [a \in Answerers |-> None]
    /\ thread = [a \in Answerers |-> None] /\ verdict = [a \in Answerers |-> "unsent"]

-----------------------------------------------------------------------------
(* tools/examples/ask_user.py, one question over the socket.                *)

Listening(s) == bridge[s] \in {"open", "popped"}

(* A socket that cannot be reached sends the tool to its stdin, which it    *)
(* has read to the end: the answer is the default.                          *)
Ask(q) ==
    /\ tool[q] = "idle"
    /\ tool' = [tool EXCEPT ![q] = IF Listening(RunOf[q]) THEN "asking" ELSE "defaulted"]
    /\ UNCHANGED <<got, handlerVars, bridgeVars, registryVars, shown, answerVars>>

(* No reply within FABRI_ASK_USER_TIMEOUT_S, 300 s unless it is set: the     *)
(* tool hangs up and takes the default.                                     *)
ToolTimesOut(q) ==
    /\ tool[q] = "asking"
    /\ tool' = [tool EXCEPT ![q] = "defaulted"]
    /\ UNCHANGED <<got, handlerVars, bridgeVars, registryVars, shown, answerVars>>

(* The peer closes the connection instead of replying: an error result.     *)
HangUp(q) == tool' = [tool EXCEPT ![q] = IF @ = "asking" THEN "failed" ELSE @]

-----------------------------------------------------------------------------
(* The listener's thread for one connection: _handle_conn, with on_question *)
(* of FabriService in the middle of it.                                     *)

At(q, here, next) ==
    /\ handler[q] = here
    /\ handler' = [handler EXCEPT ![q] = next]

Accept(q) ==
    /\ tool[q] # "idle" /\ Listening(RunOf[q]) /\ At(q, "none", "reading")
    /\ UNCHANGED <<toolVars, event, reply, via, traced, bridgeVars, registryVars, shown, answerVars>>

(* No line within 10 s, from a tool that was held up or has died: the early *)
(* return closes the connection.  What the tool sends then, or has sent and *)
(* nobody read, resets it, which sends the tool to its stdin.               *)
NoLine(q) ==
    /\ At(q, "reading", "done")
    /\ tool' = [tool EXCEPT ![q] = IF @ = "asking" THEN "defaulted" ELSE @]
    /\ UNCHANGED <<got, event, reply, via, traced, bridgeVars, registryVars, shown, answerVars>>

(* The _Pending goes into the dict; whether close() has been here since the *)
(* connection was accepted is not looked at.                                *)
Register(q) ==
    /\ At(q, "reading", "tracing")
    /\ pending' = pending \cup {q}
    /\ UNCHANGED <<toolVars, event, reply, via, traced, bridge, victims, registryVars, shown, answerVars>>

TraceQuestion(q) ==
    /\ At(q, "tracing", "routing")
    /\ traced' = traced \cup {q}
    /\ UNCHANGED <<toolVars, event, reply, via, bridgeVars, registryVars, shown, answerVars>>

(* _route_question_to_surface: the run's thread if it has one by now, else  *)
(* a new thread in the owned channel, else, or if that fails, nowhere.      *)
RouteToTarget(q) ==
    /\ target[RunOf[q]] # None /\ At(q, "routing", "posting")
    /\ via' = [via EXCEPT ![q] = target[RunOf[q]]]
    /\ UNCHANGED <<toolVars, event, reply, traced, bridgeVars, registryVars, shown, answerVars>>

RouteToFallback(q) ==
    /\ target[RunOf[q]] = None /\ Fallback[RunOf[q]] # None
    /\ At(q, "routing", "registering")
    /\ via' = [via EXCEPT ![q] = Fallback[RunOf[q]]]
    /\ UNCHANGED <<toolVars, event, reply, traced, bridgeVars, registryVars, shown, answerVars>>

RouteNowhere(q) ==
    /\ target[RunOf[q]] = None /\ At(q, "routing", "waiting")
    /\ UNCHANGED <<toolVars, event, reply, via, traced, bridgeVars, registryVars, shown, answerVars>>

RegisterTarget_Stale(s, t) ==   \* defect: the previous thread still leads to the run
    /\ sessionAt' = [u \in Threads |-> IF u = t THEN s ELSE sessionAt[u]]
    /\ target' = [target EXCEPT ![s] = t]
    /\ UNCHANGED slot

(* register_target, under its lock.                                         *)
RegisterTarget(s, t) ==
    /\ sessionAt' = [u \in Threads |-> IF u = t THEN s
                                       ELSE IF u = target[s] THEN None ELSE sessionAt[u]]
    /\ target' = [target EXCEPT ![s] = t]
    /\ UNCHANGED slot

RegisterFallback(q) ==
    /\ At(q, "registering", "posting")
    /\ RegisterTarget(RunOf[q], via[q])
    /\ UNCHANGED <<toolVars, event, reply, via, traced, bridgeVars, homed, shown, answerVars>>

(* The question appears in the thread before its id is in the slot.         *)
PostQuestion(q) ==
    /\ At(q, "posting", "slotting")
    /\ shown' = [shown EXCEPT ![via[q]] = q]
    /\ UNCHANGED <<toolVars, event, reply, via, traced, bridgeVars, registryVars, answerVars>>

PostFails(q) ==
    /\ At(q, "posting", "waiting")
    /\ UNCHANGED <<toolVars, event, reply, via, traced, bridgeVars, registryVars, shown, answerVars>>

SetPendingQuestion(q) ==
    /\ At(q, "slotting", "waiting")
    /\ slot' = [slot EXCEPT ![RunOf[q]] = q]
    /\ UNCHANGED <<toolVars, event, reply, via, traced, bridgeVars, target, sessionAt, homed, shown, answerVars>>

HandlerWakes(q) ==
    /\ event[q] /\ At(q, "waiting", IF reply[q] # None THEN "sending" ELSE "dropping")
    /\ UNCHANGED <<toolVars, event, reply, via, traced, bridgeVars, registryVars, shown, answerVars>>

(* 3600 s without an answer: the handler leaves, whether the tool's own time *)
(* is over (300 s by default, but the variable has no upper bound) or not.  *)
HandlerTimesOut(q) ==
    /\ At(q, "waiting", IF reply[q] # None THEN "sending" ELSE "leaving")
    /\ UNCHANGED <<toolVars, event, reply, via, traced, bridgeVars, registryVars, shown, answerVars>>

(* A tool that has hung up, or a connection close() has closed, is an error *)
(* that sendall's except clause swallows.                                   *)
SendReply(q) ==
    /\ At(q, "sending", "dropping")
    /\ IF tool[q] = "asking"
       THEN tool' = [tool EXCEPT ![q] = "answered"] /\ got' = [got EXCEPT ![q] = reply[q]]
       ELSE UNCHANGED toolVars
    /\ UNCHANGED <<event, reply, via, traced, bridgeVars, registryVars, shown, answerVars>>

DropConn_KeepsPending(q) ==   \* defect: the finally clause only closes the connection
    /\ At(q, "dropping", "done") /\ HangUp(q)
    /\ UNCHANGED <<got, event, reply, via, traced, bridgeVars, registryVars, shown, answerVars>>

DropConn(q) ==
    /\ At(q, "dropping", "done") /\ HangUp(q)
    /\ pending' = pending \ {q}
    /\ UNCHANGED <<got, event, reply, via, traced, bridge, victims, registryVars, shown, answerVars>>

(* The same finally clause, for a handler whose time is over.               *)
Leave(q) ==
    /\ At(q, "leaving", "left") /\ HangUp(q)
    /\ pending' = pending \ {q}
    /\ UNCHANGED <<got, event, reply, via, traced, bridge, victims, registryVars, shown, answerVars>>

-----------------------------------------------------------------------------
(* The thread that submitted the run: _run_and_deliver registers the target *)
(* after submit() has launched the child.                                   *)

RegisterHome(s) ==
    /\ Home[s] # None /\ s \notin homed
    /\ homed' = homed \cup {s}
    /\ RegisterTarget(s, Home[s])
    /\ UNCHANGED <<toolVars, handlerVars, bridgeVars, shown, answerVars>>

(* _close_ask and close(): at the end of the run, or when it is cancelled.  *)
PopBridge(s) ==
    /\ bridge[s] = "open" /\ bridge' = [bridge EXCEPT ![s] = "popped"]
    /\ UNCHANGED <<toolVars, handlerVars, pending, victims, registryVars, shown, answerVars>>

(* A connection nobody has accepted is reset with the listening socket; the *)
(* tool takes that as a socket it cannot reach.                             *)
StopServer(s) ==
    /\ bridge[s] = "popped" /\ bridge' = [bridge EXCEPT ![s] = "stopped"]
    /\ tool' = [q \in Questions |-> IF RunOf[q] = s /\ handler[q] = "none" /\ tool[q] = "asking"
                                    THEN "defaulted" ELSE tool[q]]
    /\ UNCHANGED <<got, handlerVars, pending, victims, registryVars, shown, answerVars>>

Mine(s, questions) == {q \in questions : RunOf[q] = s}

TakePending(s) ==
    /\ bridge[s] = "stopped" /\ bridge' = [bridge EXCEPT ![s] = "releasing"]
    /\ victims' = victims \cup Mine(s, pending)
    /\ pending' = pending \ Mine(s, pending)
    /\ UNCHANGED <<toolVars, handlerVars, registryVars, shown, answerVars>>

(* The loop over the questions taken: latch, then connection.               *)
ReleaseEvent(q) ==
    /\ q \in victims /\ ~event[q]
    /\ event' = [event EXCEPT ![q] = TRUE]
    /\ UNCHANGED <<toolVars, handler, reply, via, traced, bridgeVars, registryVars, shown, answerVars>>

ReleaseConn(q) ==
    /\ q \in victims /\ event[q] /\ HangUp(q)
    /\ victims' = victims \ {q}
    /\ UNCHANGED <<got, handlerVars, bridge, pending, registryVars, shown, answerVars>>

CloseEnds(s) ==
    /\ bridge[s] = "releasing" /\ Mine(s, victims) = {}
    /\ bridge' = [bridge EXCEPT ![s] = "closed"]
    /\ UNCHANGED <<toolVars, handlerVars, pending, victims, registryVars, shown, answerVars>>

-----------------------------------------------------------------------------
(* An answer: POST /runs/<id>/answer, or a message in the thread, which     *)
(* deliver_answer takes through the registry first.                         *)

Moves(a, here, next) == pc[a] = here /\ pc' = [pc EXCEPT ![a] = next]

Refuse(a) ==
    /\ pc' = [pc EXCEPT ![a] = "done"]
    /\ verdict' = [verdict EXCEPT ![a] = "refused"]
    /\ UNCHANGED <<sess, aim, meant, thread>>

BrowserAnswers(a, q) ==
    /\ q \in traced \cup pending /\ Moves(a, "idle", "bridge")
    /\ aim' = [aim EXCEPT ![a] = q] /\ meant' = [meant EXCEPT ![a] = q]
    /\ sess' = [sess EXCEPT ![a] = RunOf[q]]
    /\ UNCHANGED <<thread, verdict, toolVars, handlerVars, bridgeVars, registryVars, shown>>

ThreadAnswers(a, t) ==
    /\ shown[t] # None /\ Moves(a, "idle", "target")
    /\ meant' = [meant EXCEPT ![a] = shown[t]]
    /\ thread' = [thread EXCEPT ![a] = t]
    /\ UNCHANGED <<sess, aim, verdict, toolVars, handlerVars, bridgeVars, registryVars, shown>>

FindSession(a) ==
    /\ \/ /\ Moves(a, "target", "slot") /\ sessionAt[thread[a]] # None
          /\ sess' = [sess EXCEPT ![a] = sessionAt[thread[a]]]
          /\ UNCHANGED <<aim, meant, thread, verdict>>
       \/ pc[a] = "target" /\ sessionAt[thread[a]] = None /\ Refuse(a)
    /\ UNCHANGED <<toolVars, handlerVars, bridgeVars, registryVars, shown>>

TakeQuestion_NoGuard(a) ==   \* defect: an empty slot is not refused
    /\ Moves(a, "slot", "bridge")
    /\ aim' = [aim EXCEPT ![a] = slot[sess[a]]]
    /\ UNCHANGED <<sess, meant, thread, verdict>>
    /\ UNCHANGED <<toolVars, handlerVars, bridgeVars, registryVars, shown>>

TakeQuestion_AnyRun(a) ==   \* defect: one slot for all runs
    /\ \E s \in Sessions :
          /\ Moves(a, "slot", "bridge") /\ slot[s] # None
          /\ aim' = [aim EXCEPT ![a] = slot[s]]
          /\ sess' = [sess EXCEPT ![a] = s]
          /\ UNCHANGED <<meant, thread, verdict>>
    /\ UNCHANGED <<toolVars, handlerVars, bridgeVars, registryVars, shown>>

TakeQuestion(a) ==
    /\ \/ /\ Moves(a, "slot", "bridge") /\ slot[sess[a]] # None
          /\ aim' = [aim EXCEPT ![a] = slot[sess[a]]]
          /\ UNCHANGED <<sess, meant, thread, verdict>>
       \/ pc[a] = "slot" /\ slot[sess[a]] = None /\ Refuse(a)
    /\ UNCHANGED <<toolVars, handlerVars, bridgeVars, registryVars, shown>>

FindBridge(a) ==
    /\ \/ /\ Moves(a, "bridge", "lookup") /\ bridge[sess[a]] = "open"
          /\ UNCHANGED <<sess, aim, meant, thread, verdict>>
       \/ pc[a] = "bridge" /\ bridge[sess[a]] # "open" /\ Refuse(a)
    /\ UNCHANGED <<toolVars, handlerVars, bridgeVars, registryVars, shown>>

Lookup_EventFirst(a) ==   \* defect: the event is set before the reply
    /\ \/ /\ Moves(a, "lookup", "reply") /\ aim[a] \in pending
          /\ event' = [event EXCEPT ![aim[a]] = TRUE]
          /\ UNCHANGED <<sess, aim, meant, thread, verdict>>
       \/ pc[a] = "lookup" /\ aim[a] \notin pending /\ Refuse(a) /\ UNCHANGED event
    /\ UNCHANGED <<toolVars, handler, reply, via, traced, bridgeVars, registryVars, shown>>

Lookup(a) ==
    /\ \/ /\ Moves(a, "lookup", "reply") /\ aim[a] \in pending
          /\ UNCHANGED <<sess, aim, meant, thread, verdict>>
       \/ pc[a] = "lookup" /\ aim[a] \notin pending /\ Refuse(a)
    /\ UNCHANGED <<toolVars, handlerVars, bridgeVars, registryVars, shown>>

SetReply(a) ==
    /\ Moves(a, "reply", "event")
    /\ reply' = [reply EXCEPT ![aim[a]] = a]
    /\ UNCHANGED <<toolVars, handler, event, via, traced, bridgeVars, registryVars, shown>>
    /\ UNCHANGED <<sess, aim, meant, thread, verdict>>

SetEvent_Forgotten(a) ==   \* defect: the handler is not woken
    /\ Moves(a, "event", IF thread[a] = None THEN "done" ELSE "clear")
    /\ verdict' = [verdict EXCEPT ![a] = "accepted"]
    /\ UNCHANGED <<toolVars, handlerVars, bridgeVars, registryVars, shown>>
    /\ UNCHANGED <<sess, aim, meant, thread>>

SetEvent(a) ==
    /\ Moves(a, "event", IF thread[a] = None THEN "done" ELSE "clear")
    /\ event' = [event EXCEPT ![aim[a]] = TRUE]
    /\ verdict' = [verdict EXCEPT ![a] = "accepted"]
    /\ UNCHANGED <<toolVars, handler, reply, via, traced, bridgeVars, registryVars, shown>>
    /\ UNCHANGED <<sess, aim, meant, thread>>

(* clear_pending_question: whatever the slot holds by now.                  *)
ClearQuestion(a) ==
    /\ Moves(a, "clear", "done")
    /\ slot' = [slot EXCEPT ![sess[a]] = None]
    /\ UNCHANGED <<toolVars, handlerVars, bridgeVars, target, sessionAt, homed, shown>>
    /\ UNCHANGED <<sess, aim, meant, thread, verdict>>

-----------------------------------------------------------------------------
Routes(q) == \/ TraceQuestion(q) \/ RouteToTarget(q) \/ RouteToFallback(q) \/ RouteNowhere(q)
             \/ RegisterFallback(q) \/ PostQuestion(q) \/ PostFails(q) \/ SetPendingQuestion(q)

Handles(q) == \/ Accept(q) \/ NoLine(q) \/ Register(q) \/ Routes(q)
              \/ HandlerWakes(q) \/ SendReply(q) \/ DropConn(q) \/ Leave(q)

Closes(s) == StopServer(s) \/ TakePending(s) \/ CloseEnds(s)

Releases(q) == ReleaseEvent(q) \/ ReleaseConn(q)

Answers(a) == \/ FindSession(a) \/ TakeQuestion(a) \/ FindBridge(a) \/ Lookup(a)
              \/ SetReply(a) \/ SetEvent(a) \/ ClearQuestion(a)

Next ==
    \/ \E q \in Questions : Ask(q) \/ ToolTimesOut(q) \/ Handles(q) \/ HandlerTimesOut(q) \/ Releases(q)
    \/ \E s \in Sessions : RegisterHome(s) \/ PopBridge(s) \/ Closes(s)
    \/ \E a \in Answerers : Answers(a)
    \/ \E a \in Answerers : \E q \in Questions : BrowserAnswers(a, q)
    \/ \E a \in Answerers : \E t \in Threads : ThreadAnswers(a, t)

Spec == Init /\ [][Next]_vars

(* The threads of the service run; no timeout has to fire, nobody has to    *)
(* answer, and no run has to end.                                           *)
Fairness ==
    /\ \A q \in Questions : WF_vars(Handles(q)) /\ WF_vars(Releases(q))
    /\ \A s \in Sessions : WF_vars(Closes(s))
    /\ \A a \in Answerers : WF_vars(Answers(a))

FairSpec == Spec /\ Fairness

-----------------------------------------------------------------------------
(* Properties.                                                              *)

(* A question in the dict, which is what GET /questions shows, has a thread *)
(* that will serve it; and until close() empties it, none is missing.       *)
PendingIsServed ==
    \A q \in Questions :
        /\ q \in pending => handler[q] \in Registered
        /\ handler[q] \in Registered /\ bridge[RunOf[q]] \in {"open", "popped", "stopped"} =>
              q \in pending

(* A tool gets an error in place of its reply or its default only from      *)
(* close() or from a handler that waited its 3600 s: no answer, however it  *)
(* races with others, with the tool's limit or with close(), makes the      *)
(* handler hang up on a tool that waits.                                    *)
NoAnswerHangsUp ==
    \A q \in Questions : tool[q] = "failed" => ~Listening(RunOf[q]) \/ handler[q] = "left"

(* What GET /questions shows is served, and no answer cuts off its tool.    *)
BridgeIsOrderly == PendingIsServed /\ NoAnswerHangsUp

(* A thread leads to a run only while that thread is the run's own: a run   *)
(* that was moved to another thread is not answered from the old one.       *)
ThreadLeadsHome ==
    \A t \in Threads : \A s \in Sessions : sessionAt[t] = s => target[s] = t

(* What is written in a thread only ever answers a run that was given that  *)
(* thread, however the registry changed between the lookups.                *)
AnswersStayInTheirThread ==
    \A a \in Answerers :
        thread[a] # None /\ aim[a] # None =>
            thread[a] \in {Home[RunOf[aim[a]]], Fallback[RunOf[aim[a]]]}

(* Both: a thread is answered for its own runs only, and for no other.      *)
ThreadsStayApart == ThreadLeadsHome /\ AnswersStayInTheirThread

(* An answer the service has taken gets the tool that still waits for it    *)
(* going again, without any timeout having to fire.                         *)
AcceptedAnswerArrives ==
    \A a \in Answerers : \A q \in Questions :
        verdict[a] = "accepted" /\ aim[a] = q /\ tool[q] = "asking" ~> tool[q] # "asking"

(* ask_user_listener.py:124-126, answer() is false for a question "already  *)
(* answered, timed out, or never asked": an answer that was accepted is the *)
(* one the tool got.                                                        *)
AcceptedMeansReceived ==
    \A a \in Answerers :
        verdict[a] = "accepted" /\ handler[aim[a]] \in {"done", "left"} => got[aim[a]] = a

(* ask_user_listener.py:96, close() is to "release every pending question". *)
CloseReleasesAll ==
    \A q \in Questions : bridge[RunOf[q]] = "closed" /\ handler[q] = "waiting" => event[q]

(* pipeline.py:33-35, "a mid-run question and a finished result both find   *)
(* their way home": a message written under a question answers that         *)
(* question.                                                                *)
MessageAnswersItsQuestion ==
    \A a \in Answerers : verdict[a] = "accepted" => aim[a] = meant[a]

(* slack.py:212, "Please reply in this thread": a question that was posted, *)
(* and that nobody has answered yet, can be answered from its thread.       *)
PostedQuestionCanBeAnswered ==
    \A q \in Questions :
        (/\ handler[q] = "waiting" /\ ~event[q] /\ tool[q] = "asking"
         /\ via[q] # None /\ shown[via[q]] = q
         /\ \A a \in Answerers : pc[a] \in {"idle", "done"})
        => sessionAt[via[q]] = RunOf[q] /\ slot[RunOf[q]] = q

=============================================================================
