--------------------------------- MODULE Turn ---------------------------------
(***************************************************************************)
(* What a run does outside itself: it connects to its MCP server           *)
(* (runtime.py, build_registry), then turn after turn asks the model for a *)
(* step and invokes the calls of the answer through the registry           *)
(* (core/agent.py, tools/registry.py), which refuses some and sends others *)
(* to the server.  The composition of LlmStep and McpCall.                 *)
(***************************************************************************)
EXTENDS LlmStep, McpCall

CONSTANTS
    MaxTurns,  \* agent.max_steps
    MaxCalls   \* bound: calls of a turn

ASSUME TurnAssumption == MaxTurns \in Nat /\ MaxCalls \in Nat \ {0}

VARIABLES
    phase,     \* connect, model, tools, ended
    offered,   \* the server's tools are in the registry
    turns,
    todo,      \* calls of this turn to be made; when connecting, requests
    inFlight,  \* one of them is with the server
    accounted, \* usage_totals
    why        \* how the run ended

turnVars   == <<phase, offered, turns, todo, inFlight, accounted, why>>
systemVars == <<stepVars, mcpVars, turnVars>>

(* The calls of a turn, or the requests of a connection.                   *)
Most == IF MaxCalls > 2 THEN MaxCalls ELSE 2

TurnTypeOK ==
    /\ StepTypeOK /\ McpTypeOK
    /\ phase \in {"connect", "model", "tools", "ended"}
    /\ offered \in BOOLEAN /\ turns \in 0 .. MaxTurns
    /\ todo \in 0 .. Most /\ inFlight \in BOOLEAN
    /\ accounted \in Counts
    /\ why \in {"none", "final", "incomplete", "llm_error", "raised"}

TurnInit ==
    /\ StepInit /\ McpInit
    /\ phase = "connect" /\ offered = FALSE /\ turns = 0 /\ todo = 2 /\ inFlight = FALSE
    /\ accounted = Nothing /\ why = "none"

(* initialize, then tools/list; if either fails the server is left out.    *)
Request ==
    /\ phase = "connect" \/ (phase = "tools" /\ offered)
    /\ todo > 0 /\ ~inFlight /\ inFlight' = TRUE
    /\ Send
    /\ UNCHANGED <<stepVars, phase, offered, turns, todo, accounted, why>>

Connected ==
    /\ phase = "connect" /\ inFlight /\ client = "ready" /\ inFlight' = FALSE
    /\ LET ok == got.kind # "error" IN
       /\ todo' = IF ok THEN todo - 1 ELSE 0
       /\ phase' = IF ok /\ todo > 1 THEN "connect" ELSE "model"
       /\ offered' = (ok /\ todo = 1)
    /\ UNCHANGED <<stepVars, mcpVars, turns, accounted, why>>

Over(how) == phase' = "ended" /\ why' = how

(* A turn of _run_step_loop, if a step is left.                            *)
StartTurn ==
    /\ phase = "model" /\ turns < MaxTurns
    /\ turns' = turns + 1 /\ Step
    /\ UNCHANGED <<mcpVars, phase, offered, todo, inFlight, accounted, why>>

OutOfTurns ==
    /\ phase = "model" /\ at = "idle" /\ turns = MaxTurns
    /\ Over("incomplete")
    /\ UNCHANGED <<stepVars, mcpVars, offered, turns, todo, inFlight, accounted>>

Accumulate(u) == accounted' = IF u = None THEN accounted ELSE Plus(accounted, u)

(* step() is over, and with it what it knew.                               *)
Back ==
    /\ at' = "idle" /\ cap' = 0 /\ failures' = 0
    /\ kept' = None /\ resp' = None /\ usage' = None
    /\ UNCHANGED <<backend, billed>>

(* The answer is accounted for; its calls are made, its text is the end,   *)
(* and nothing at all is an AgentProtocolError.                            *)
Answered ==
    /\ phase = "model" /\ at = "answered"
    /\ Accumulate(usage) /\ Back
    /\ CASE resp.content = "calls" ->
              phase' = "tools" /\ (\E n \in 1 .. MaxCalls : todo' = n) /\ UNCHANGED why
         [] resp.content = "text" -> Over("final") /\ UNCHANGED todo
         [] OTHER -> Over("raised") /\ UNCHANGED todo
    /\ UNCHANGED <<mcpVars, offered, turns, inFlight>>

(* An LLMError ends the run, with the usage it carries.                    *)
StepFailed ==
    /\ phase = "model" /\ at = "error"
    /\ Accumulate(usage) /\ Back /\ Over("llm_error")
    /\ UNCHANGED <<mcpVars, offered, turns, todo, inFlight>>

StepRaised ==
    /\ phase = "model" /\ at = "raised"
    /\ Back /\ Over("raised")
    /\ UNCHANGED <<mcpVars, offered, turns, todo, inFlight, accounted>>

(* ToolRegistry.invoke: unknown, arguments missing, no approver, declined; *)
(* or a tool of another kind.  The server is not asked.                    *)
Elsewhere ==
    /\ phase = "tools" /\ todo > 0 /\ ~inFlight
    /\ todo' = todo - 1
    /\ UNCHANGED <<stepVars, mcpVars, phase, offered, turns, inFlight, accounted, why>>

(* The handler has returned or raised: either way the call has a result.   *)
Returned ==
    /\ phase = "tools" /\ inFlight /\ client = "ready"
    /\ inFlight' = FALSE /\ todo' = todo - 1 /\ got' = Failed
    /\ UNCHANGED <<stepVars, server, pipes, voice, owed, chatter, client, nextId, messages, noise, phase, offered, turns, accounted, why>>

TurnEnds ==
    /\ phase = "tools" /\ todo = 0
    /\ phase' = "model"
    /\ UNCHANGED <<stepVars, mcpVars, offered, turns, todo, inFlight, accounted, why>>

Run ==
    \/ Request \/ Connected \/ StartTurn \/ OutOfTurns \/ Answered \/ StepFailed \/ StepRaised
    \/ Elsewhere \/ Returned \/ TurnEnds
    \/ StepNext /\ UNCHANGED <<mcpVars, turnVars>>
    \/ Client /\ UNCHANGED <<stepVars, turnVars>>

TurnNext == Run \/ (phase # "ended" /\ Server /\ UNCHANGED <<stepVars, turnVars>>)

TurnSpec == TurnInit /\ [][TurnNext]_systemVars

(* The run's process runs, and a provider answers or times out.  Of the    *)
(* server, for which nothing in the code sets a limit, nothing is assumed. *)
FairTurns == TurnSpec /\ WF_systemVars(Run)

-----------------------------------------------------------------------------
(* Properties.                                                             *)

(* Whatever is repeated after transient errors or truncation, with every   *)
(* way to count cached tokens: while a run goes on, and when it ends with  *)
(* an answer, it has accounted for each token that was charged.            *)
ChargesAreReported ==
    (at = "idle" /\ why \notin {"llm_error", "raised"}) => accounted = billed

(* And it acts on whole answers only.                                      *)
AnswersAreSound == ChargesAreReported /\ OnlyWholeAnswers

(* "COGS must reflect what Anthropic charged, not just the kept response", *)
(* llm.py:419, also of a run that fails.                                   *)
CogsReflectCharges == phase = "ended" => accounted = billed

(* However the server talks and whenever it dies, the run ends, unless from *)
(* some time on it waits for a server that lives, or whose heir does.      *)
RunEnds == <>[](phase = "ended" \/ WaitsForServer)

(* The server reads, answers what it is asked, writes what it has begun.   *)
ServerServes == WF_systemVars(Serve /\ UNCHANGED <<stepVars, turnVars>>)

(* With such a server a run does not wait in vain, save for three ways in  *)
(* which both wait for each other.                                         *)
EndsUnlessBlocked == ServerServes => <>[](phase = "ended" \/ Blocked)

(* mcp_client.py:37, a server's "debug output MUST go to stderr": one that *)
(* does, and serves, lets the run end.                                     *)
ServedRunEnds == ServerServes => <>(phase = "ended")
=============================================================================
