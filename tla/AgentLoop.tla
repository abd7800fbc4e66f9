------------------------------- MODULE AgentLoop -------------------------------
(***************************************************************************)
(* One run of an agent (core/agent.py): attempts of at most max_steps      *)
(* steps, planned into items or not, each step a turn of the model that    *)
(* answers or calls tools; the calls of a turn, sub-agents in parallel     *)
(* groups among them; the check of the answer against a schema; the        *)
(* outcome; and the repair loop around the attempts.                       *)
(*                                                                         *)
(* The model, the tools, the sub-agents and the verifier are the           *)
(* environment: they return whatever the code has a case for.  Costs are   *)
(* in units.                                                               *)
(***************************************************************************)
EXTENDS Integers, FiniteSets, Sequences

CONSTANTS
    MaxSteps, MaxItems,      \* agent.max_steps, planner.max_items
    Cap,                     \* agent.max_cost_usd
    Groups, Workers,         \* parallel_group names; tools.max_parallel_spawns
    Schema, Retries, Strategy, \* response_schema is set; response_retries; error_strategy
    MaxAttempts, Verifier, Signatures, \* repair: re-runs, verify_command is set, what it says
    Offered,                 \* the kinds of call the agent's tools make possible
    MaxCalls, CallCost, ChildCost, \* bounds: calls of a turn, units of a model call, of a child
    None

ASSUME AgentAssumption ==
    /\ MaxSteps \in Nat /\ MaxItems \in Nat \ {0} /\ Cap \in Nat /\ Workers \in Nat
    /\ Schema \in BOOLEAN /\ Retries \in Nat /\ Strategy \in {"strict", "warn", "fallback"}
    /\ MaxAttempts \in Nat /\ Verifier \in BOOLEAN
    /\ MaxCalls \in Nat /\ CallCost \in Nat /\ ChildCost \in Nat
    /\ None \notin Signatures
    /\ Groups \cap {"tool", "decompose", "specialist", "spawn"} = {}
    /\ Offered \subseteq Groups \cup {"tool", "decompose", "specialist", "spawn"}

VARIABLES
    pc,
    items, idx, outputs,     \* the plan: items (0: none), processed, done
    limit, used, steps,      \* of this item: steps allowed, used; of those before it
    calls, taken,            \* the calls of this turn; how many results are taken
    own,                     \* cost the attempt has accounted for, children included
    failed, reason, success, hadFailure, total, bad,
    tries,                   \* corrective retries
    attempt, signature,      \* repair loop
    trace, result,           \* terminal and usage events; what run_agent returns
    spent,                   \* history: what the run knows it cost, all attempts
    sick                     \* history: what went wrong with calls of the attempt

control == <<pc, items, idx, outputs, limit, used, steps>>
turn    == <<calls, taken>>
verdict == <<failed, reason, success, hadFailure, total, bad, tries>>
outer   == <<attempt, signature, trace, result>>
money   == <<own, spent>>
vars    == <<control, turn, verdict, outer, money, sick>>

Spawns  == {"spawn"} \cup Groups     \* spawn_subagent, of no group or of one
Agents  == {"specialist"} \cup Spawns \* and those of tools.agents
Kinds   == {"tool", "decompose"} \cup Agents
Over    == {"ok", "unclean", "bad", "lost", "refused"}
NotOk   == {"bad", "lost", "refused"}
Call    == [kind : Kinds, st : {"todo", "running"} \cup Over, cost : 0..ChildCost]
Ended   == {"returned", "raised"}
Outcomes == {"success", "success_with_recovery", "incomplete", "incomplete_with_tool_failure",
             "budget_exceeded", "failed", "invalid_output", "all_tools_failed"}

TypeOK ==
    /\ pc \in {"start", "plan", "items", "step", "calls", "check", "unmet", "end", "verify"} \cup Ended
    /\ items \in 0..MaxItems /\ idx \in 0..items /\ outputs \in 0..idx
    /\ limit \in 0..MaxSteps /\ used \in 0..limit /\ steps \in Nat
    /\ calls \in Seq(Call) /\ taken \in 0..Len(calls)
    /\ own \in Nat /\ spent \in Nat
    /\ failed \in BOOLEAN /\ success \in BOOLEAN /\ hadFailure \in BOOLEAN
    /\ reason \in {"none", "llm", "budget", "schema"}
    /\ total \in Nat /\ bad \in 0..total /\ tries \in 0..Retries
    /\ attempt \in 0..MaxAttempts /\ signature \in Signatures \cup Outcomes \cup {None}
    /\ trace \in Seq({"final", "failed", "incomplete", "usage", "error"})
    /\ result \in [outcome : Outcomes, success : BOOLEAN, cost : Nat] \cup {None}
    /\ sick \in SUBSET {"call", "child", "childFailed"}

Init ==
    /\ pc = "start" /\ items = 0 /\ idx = 0 /\ outputs = 0
    /\ limit = 0 /\ used = 0 /\ steps = 0 /\ calls = <<>> /\ taken = 0
    /\ own = 0 /\ spent = 0 /\ sick = {}
    /\ failed = FALSE /\ reason = "none" /\ success = FALSE
    /\ hadFailure = FALSE /\ total = 0 /\ bad = 0 /\ tries = 0
    /\ attempt = 0 /\ signature = None /\ trace = <<>> /\ result = None

Max2(a, b) == IF a > b THEN a ELSE b

Moves(here, next) == pc = here /\ pc' = next

(* _accumulate: a model call of c units.                                    *)
Pays(c) == own' = own + c /\ spent' = spent + c

(* _budget_breached.                                                        *)
Breached == own >= Cap

Fails(why) == failed' = TRUE /\ reason' = why

-----------------------------------------------------------------------------
(* The attempt: planned or one loop over the task.                          *)

Planned ==   \* planner_mode, or auto and the task is long enough
    /\ Moves("start", "plan")
    /\ UNCHANGED <<items, idx, outputs, limit, used, steps, turn, verdict, outer, money, sick>>

Unplanned ==
    /\ Moves("start", "step") /\ limit' = MaxSteps
    /\ UNCHANGED <<items, idx, outputs, used, steps, turn, verdict, outer, money, sick>>

(* run_plan never returns an empty plan.                                    *)
Plan(n, c) ==
    /\ Moves("plan", "items") /\ items' = n /\ Pays(c)
    /\ UNCHANGED <<idx, outputs, limit, used, steps, turn, verdict, outer, sick>>

PlanFails(c) ==
    /\ Moves("plan", "end") /\ Fails("llm") /\ Pays(c)
    /\ UNCHANGED <<items, idx, outputs, limit, used, steps, turn,
                   success, hadFailure, total, bad, tries, outer, sick>>

Remaining == MaxSteps - steps

ItemBudget_Whole == MaxSteps   \* defect: each item starts with all the steps

ItemBudget_Greedy == Max2(1, Remaining)   \* defect: nothing kept for the others

ItemBudget == Max2(1, Remaining \div Max2(1, items - idx))

StartItem ==
    /\ idx < items /\ Remaining > 0 /\ ~failed /\ Moves("items", "step")
    /\ limit' = ItemBudget /\ used' = 0
    /\ UNCHANGED <<items, idx, outputs, steps, turn, verdict, outer, money, sick>>

PlanEnds ==
    /\ idx = items \/ Remaining <= 0 \/ failed
    /\ Moves("items", "end")
    /\ success' = (outputs > 0 /\ ~failed /\ outputs = items)
    /\ UNCHANGED <<items, idx, outputs, limit, used, steps, turn,
                   failed, reason, hadFailure, total, bad, tries, outer, money, sick>>

-----------------------------------------------------------------------------
(* _run_step_loop.  LoopEnds: what its caller does with what it returns.    *)

LoopEnds(n, ok) ==
    /\ steps' = steps + n
    /\ IF items = 0
       THEN /\ pc' = IF ok THEN "check" ELSE "end"
            /\ UNCHANGED <<idx, outputs>>
       ELSE /\ pc' = "items" /\ idx' = idx + 1
            /\ outputs' = IF ok THEN outputs + 1 ELSE outputs
    /\ used' = 0 /\ limit' = 0

Step == pc = "step" /\ used < limit

OverBudget ==
    /\ Step /\ Breached /\ LoopEnds(used + 1, FALSE) /\ Fails("budget")
    /\ UNCHANGED <<items, turn, success, hadFailure, total, bad, tries, outer, money, sick>>

LlmFails(c) ==
    /\ Step /\ ~Breached /\ LoopEnds(used + 1, FALSE) /\ Fails("llm") /\ Pays(c)
    /\ UNCHANGED <<items, turn, success, hadFailure, total, bad, tries, outer, sick>>

Answers(c) ==
    /\ Step /\ ~Breached /\ LoopEnds(used + 1, TRUE) /\ Pays(c)
    /\ UNCHANGED <<items, turn, verdict, outer, sick>>

(* Neither tool calls nor a text: AgentProtocolError, out of run_agent.     *)
SaysNothing(c) ==
    /\ Step /\ ~Breached /\ pc' = "raised" /\ trace' = Append(trace, "error") /\ Pays(c)
    /\ UNCHANGED <<items, idx, outputs, limit, used, steps, turn, verdict,
                   attempt, signature, result, sick>>

CallsTools_Unchecked(c, ks) ==   \* defect: no look at the budget before the step
    /\ Step /\ pc' = "calls" /\ used' = used + 1 /\ Pays(c)
    /\ calls' = [i \in DOMAIN ks |-> [kind |-> ks[i], st |-> "todo", cost |-> 0]]
    /\ UNCHANGED <<items, idx, outputs, limit, steps, taken, verdict, outer, sick>>

CallsTools(c, ks) ==
    /\ Step /\ ~Breached /\ pc' = "calls" /\ used' = used + 1 /\ Pays(c)
    /\ calls' = [i \in DOMAIN ks |-> [kind |-> ks[i], st |-> "todo", cost |-> 0]]
    /\ UNCHANGED <<items, idx, outputs, limit, steps, taken, verdict, outer, sick>>

OutOfSteps ==
    /\ pc = "step" /\ used = limit /\ LoopEnds(used, FALSE)
    /\ UNCHANGED <<items, turn, verdict, outer, money, sick>>

-----------------------------------------------------------------------------
(* _dispatch_tool_calls: serial calls in order, then the groups one after   *)
(* the other, each over a pool; then the results, in call order.            *)

Serial(i) == calls[i].kind \notin Groups

Siblings(i) == {j \in DOMAIN calls : ~Serial(i) /\ calls[j].kind = calls[i].kind}

GroupBefore(j, i) == \E k \in Siblings(j) : \A l \in Siblings(i) : k < l

Ahead_SerialOnly(i) ==   \* defect: the groups all start at once
    {j \in DOMAIN calls \ {i} : Serial(j) /\ (Serial(i) => j < i)}

Ahead(i) ==
    {j \in DOMAIN calls \ {i} :
        IF Serial(j) THEN Serial(i) => j < i
        ELSE ~Serial(i) /\ j \notin Siblings(i) /\ GroupBefore(j, i)}

MayStart(i) ==
    /\ pc = "calls" /\ taken = 0 /\ calls[i].st = "todo"
    /\ \A j \in Ahead(i) : calls[j].st \in Over
    /\ \A j \in Siblings(i) : j < i => calls[j].st # "todo"
    /\ Cardinality({j \in Siblings(i) : calls[j].st = "running"}) < Max2(1, Workers)

Becomes(i, st) == calls' = [calls EXCEPT ![i].st = st]

Starts(i) ==
    /\ MayStart(i) /\ ~(calls[i].kind \in Spawns /\ Breached)
    /\ Becomes(i, "running")
    /\ UNCHANGED <<control, taken, verdict, outer, money, sick>>

Refused(i) ==
    /\ MayStart(i) /\ calls[i].kind \in Spawns /\ Breached
    /\ Becomes(i, "refused") /\ sick' = sick \cup {"call"}
    /\ UNCHANGED <<control, taken, verdict, outer, money>>

Runs(i) == pc = "calls" /\ calls[i].st = "running"

ToolReturns(i, st) ==
    /\ Runs(i) /\ calls[i].kind = "tool" /\ st \in {"ok", "bad"} /\ Becomes(i, st)
    /\ sick' = IF st = "bad" THEN sick \cup {"call"} ELSE sick
    /\ UNCHANGED <<control, taken, verdict, outer, money>>

DecomposeReturns(i, st, c) ==
    /\ Runs(i) /\ calls[i].kind = "decompose" /\ st \in {"ok", "bad"} /\ Becomes(i, st)
    /\ Pays(c)
    /\ sick' = IF st = "bad" THEN sick \cup {"call"} ELSE sick
    /\ UNCHANGED <<control, taken, verdict, outer>>

(* An LLMError of decompose leaves the turn; its results are dropped.       *)
DecomposeFails(i, c) ==
    /\ Runs(i) /\ calls[i].kind = "decompose"
    /\ LoopEnds(used, FALSE) /\ Fails("llm") /\ Pays(c) /\ calls' = <<>>
    /\ UNCHANGED <<items, taken, success, hadFailure, total, bad, tries, outer, sick>>

(* A sub-agent: clean, not clean, failed with its cost known ("bad") or     *)
(* not ("lost").  Its exit code is 0 for the first two.                     *)
ChildReturns(i, st, c) ==
    /\ Runs(i) /\ calls[i].kind \in Agents
    /\ st \in {"ok", "unclean", "bad", "lost"}
    /\ calls' = [calls EXCEPT ![i].st = st, ![i].cost = IF st = "lost" THEN 0 ELSE c]
    /\ spent' = IF st = "lost" THEN spent ELSE spent + c
    /\ sick' = sick \cup (CASE st = "ok" -> {} [] st = "unclean" -> {"child"}
                            [] st = "bad" -> {"call", "childFailed"} [] st = "lost" -> {"call"})
    /\ UNCHANGED <<control, taken, verdict, outer, own>>

(* A sandbox that raises: a call among siblings becomes an error, any other *)
(* takes the run down.                                                      *)
CallRaises(i) ==
    /\ Runs(i) /\ calls[i].kind # "decompose"
    /\ IF Cardinality(Siblings(i)) > 1
       THEN Becomes(i, "lost") /\ sick' = sick \cup {"call"} /\ UNCHANGED control
       ELSE /\ pc' = "raised"
            /\ UNCHANGED <<items, idx, outputs, limit, used, steps, calls, sick>>
    /\ UNCHANGED <<taken, verdict, outer, money>>

AllOver == \A i \in DOMAIN calls : calls[i].st \in Over

TakeResult_OnlyErrors ==   \* defect: how a child fared is not looked at
    /\ pc = "calls" /\ AllOver /\ taken < Len(calls)
    /\ taken' = taken + 1
    /\ LET call == calls[taken + 1]
       IN /\ own' = own + call.cost
          /\ hadFailure' = (hadFailure \/ call.st \in NotOk)
          /\ total' = total + 1
          /\ bad' = IF call.st \in NotOk THEN bad + 1 ELSE bad
    /\ UNCHANGED <<control, calls, failed, reason, success, tries, outer, spent, sick>>

TakeResult ==
    /\ pc = "calls" /\ AllOver /\ taken < Len(calls)
    /\ taken' = taken + 1
    /\ LET call == calls[taken + 1]
       IN /\ own' = own + call.cost
          /\ hadFailure' = (hadFailure \/ call.st # "ok")
          /\ total' = total + 1
          /\ bad' = IF call.st \in NotOk THEN bad + 1 ELSE bad
    /\ UNCHANGED <<control, calls, failed, reason, success, tries, outer, spent, sick>>

TurnEnds ==
    /\ AllOver /\ taken = Len(calls) /\ Moves("calls", "step")
    /\ calls' = <<>> /\ taken' = 0
    /\ UNCHANGED <<items, idx, outputs, limit, used, steps, verdict, outer, money, sick>>

-----------------------------------------------------------------------------
(* _finalize_structured, of an answer that was not planned.                 *)

Accepted ==
    /\ Moves("check", "end") /\ success' = TRUE
    /\ UNCHANGED <<items, idx, outputs, limit, used, steps, turn,
                   failed, reason, hadFailure, total, bad, tries, outer, money, sick>>

Corrects_Unlimited(c, answered) ==   \* defect: retries are counted, not limited
    /\ pc = "check" /\ Schema /\ tries' = tries + 1 /\ Pays(c)
    /\ pc' = IF answered /\ own + c < Cap THEN "check" ELSE "unmet"
    /\ UNCHANGED <<items, idx, outputs, limit, used, steps, turn,
                   failed, reason, success, hadFailure, total, bad, outer, sick>>

(* A corrective call; without a text in reply, or over the budget, it was   *)
(* the last one.                                                            *)
Corrects(c, answered) ==
    /\ pc = "check" /\ Schema /\ tries < Retries /\ tries' = tries + 1 /\ Pays(c)
    /\ pc' = IF answered /\ own + c < Cap THEN "check" ELSE "unmet"
    /\ UNCHANGED <<items, idx, outputs, limit, used, steps, turn,
                   failed, reason, success, hadFailure, total, bad, outer, sick>>

CorrectionFails(c) ==
    /\ Moves("check", "end") /\ Schema /\ tries < Retries /\ tries' = tries + 1
    /\ Fails("schema") /\ Pays(c)
    /\ UNCHANGED <<items, idx, outputs, limit, used, steps, turn,
                   success, hadFailure, total, bad, outer, sick>>

GivesUp_Anew ==   \* defect: the retries start again
    /\ pc = "check" /\ Schema /\ tries = Retries /\ tries' = 0
    /\ UNCHANGED <<control, turn, failed, reason, success, hadFailure, total, bad, outer, money, sick>>

GivesUp ==
    /\ Moves("check", "unmet") /\ Schema /\ tries = Retries
    /\ UNCHANGED <<items, idx, outputs, limit, used, steps, turn, verdict, outer, money, sick>>

Unmet ==
    /\ Moves("unmet", "end")
    /\ IF Strategy = "strict" THEN Fails("schema") /\ UNCHANGED success
                              ELSE success' = TRUE /\ UNCHANGED <<failed, reason>>
    /\ UNCHANGED <<items, idx, outputs, limit, used, steps, turn,
                   hadFailure, total, bad, tries, outer, money, sick>>

-----------------------------------------------------------------------------
(* The outcome, the terminal event and the usage event.                     *)

Classify ==
    IF failed THEN "failed"
    ELSE IF ~success THEN IF hadFailure THEN "incomplete_with_tool_failure" ELSE "incomplete"
    ELSE IF total >= 2 /\ bad = total THEN "all_tools_failed"
    ELSE IF hadFailure THEN "success_with_recovery" ELSE "success"

Outcome == CASE reason = "schema" -> "invalid_output"
             [] reason = "budget" /\ ~success -> "budget_exceeded"
             [] OTHER -> Classify

Finishes ==
    /\ Moves("end", IF MaxAttempts > 0 THEN "verify" ELSE "returned")
    /\ result' = [outcome |-> Outcome, success |-> success, cost |-> own]
    /\ trace' = trace \o <<IF success THEN "final" ELSE IF failed THEN "failed" ELSE "incomplete", "usage">>
    /\ UNCHANGED <<items, idx, outputs, limit, used, steps, turn, verdict, attempt, signature, money, sick>>

-----------------------------------------------------------------------------
(* _run_with_repair.                                                        *)

Passes == \* the check passes, or is made once more for the trace
    /\ Moves("verify", "returned")
    /\ attempt < MaxAttempts => Verifier \/ result.success
    /\ UNCHANGED <<items, idx, outputs, limit, used, steps, turn, verdict, outer, money, sick>>

Rejects(s) == \* what the verifier says, or the outcome
    /\ pc = "verify" /\ attempt < MaxAttempts
    /\ IF Verifier THEN s \in Signatures ELSE ~result.success /\ s = result.outcome

NoProgress(s) ==
    /\ Rejects(s) /\ s = signature /\ pc' = "returned"
    /\ UNCHANGED <<items, idx, outputs, limit, used, steps, turn, verdict, outer, money, sick>>

(* A new attempt starts from nothing but the trace.                         *)
Repairs(s) ==
    /\ Rejects(s) /\ s # signature
    /\ signature' = s /\ attempt' = attempt + 1 /\ pc' = "start"
    /\ items' = 0 /\ idx' = 0 /\ outputs' = 0 /\ limit' = 0 /\ used' = 0 /\ steps' = 0
    /\ own' = 0 /\ sick' = {}
    /\ failed' = FALSE /\ reason' = "none" /\ success' = FALSE
    /\ hadFailure' = FALSE /\ total' = 0 /\ bad' = 0 /\ tries' = 0
    /\ UNCHANGED <<turn, trace, result, spent>>

-----------------------------------------------------------------------------
Turns == UNION {[1..n -> Offered] : n \in 1..MaxCalls}

Attempt ==
    \/ Planned \/ Unplanned \/ StartItem \/ PlanEnds
    \/ \E c \in 0..CallCost : PlanFails(c) \/ \E n \in 1..MaxItems : Plan(n, c)

Loop ==
    \/ OverBudget \/ OutOfSteps
    \/ \E c \in 0..CallCost :
          \/ LlmFails(c) \/ Answers(c) \/ SaysNothing(c)
          \/ \E ks \in Turns : CallsTools(c, ks)

Dispatch ==
    \/ TakeResult \/ TurnEnds
    \/ \E i \in DOMAIN calls :
          \/ Starts(i) \/ Refused(i) \/ CallRaises(i)
          \/ \E st \in Over : ToolReturns(i, st)
          \/ \E st \in Over, c \in 0..CallCost : DecomposeReturns(i, st, c)
          \/ \E c \in 0..CallCost : DecomposeFails(i, c)
          \/ \E st \in Over, c \in 0..ChildCost : ChildReturns(i, st, c)

Check ==
    \/ Accepted \/ GivesUp \/ Unmet
    \/ \E c \in 0..CallCost : CorrectionFails(c) \/ \E a \in BOOLEAN : Corrects(c, a)

Repair == Finishes \/ Passes \/ \E s \in Signatures \cup Outcomes : NoProgress(s) \/ Repairs(s)

Stops == pc \in Ended /\ UNCHANGED vars

Next == Attempt \/ Loop \/ Dispatch \/ Check \/ Repair \/ Stops

Spec == Init /\ [][Next]_vars

(* Whom the code waits for without a time limit: the verifier it is given,  *)
(* and an ordinary tool, which may be an MCP server's.                      *)
WaitsForVerifier == pc = "verify" /\ Verifier
WaitsForServer   == \E i \in DOMAIN calls : Runs(i) /\ calls[i].kind = "tool"
Waits            == WaitsForVerifier \/ WaitsForServer

(* The process is not starved, and everybody else it calls answers or times *)
(* out.  Of those it waits for without a limit nothing is assumed.          *)
FairSpec == Spec /\ WF_vars(~Waits /\ Next)

-----------------------------------------------------------------------------
(* Properties.                                                              *)

(* However the steps are shared out over the items of a plan, an attempt    *)
(* never takes more than max_steps.                                         *)
StepsWithinBudget == steps + used <= MaxSteps

(* No item is starved: as long as nothing fails, and there were as many     *)
(* steps as items, the plan does not end before every item had its turn.    *)
EveryItemHasATurn ==
    pc = "end" /\ items > 0 /\ ~failed /\ MaxSteps >= items => idx = items

(* The steps of an attempt are shared out so that both hold.                *)
BudgetIsShared == StepsWithinBudget /\ EveryItemHasATurn

(* The outcome "success" is clean: no call of any item failed, and no       *)
(* sub-agent ended with another outcome than "success".                     *)
SuccessIsClean ==
    pc \in {"verify", "returned"} /\ result.outcome = "success" => sick = {}

(* The cap is overrun by no more than one turn, or one planner or           *)
(* corrective call, plus the answer.                                        *)
OverrunIsOneTurn ==
    own <= Cap + CallCost + Max2(CallCost, MaxCalls * Max2(CallCost, ChildCost))

(* However wide the turn, and however many groups it has, no more calls run *)
(* at a time than the pool has workers.                                     *)
PoolBoundsTheTurn == Cardinality({i \in DOMAIN calls : calls[i].st = "running"}) <= Max2(1, Workers)

(* Attempts, items, steps, corrective retries and re-runs all run out: every *)
(* run returns or raises, unless one tool or one check it has called never   *)
(* comes back.                                                               *)
Terminates == <>[](pc \in Ended \/ Waits)

(* README.md:156, "Every run emits a `usage` trace event", and              *)
(* test_e2e_agent_loop.py:263, "every run ends with a `usage` event".       *)
EveryRunEndsWithUsage == pc \in Ended => trace # <<>> /\ trace[Len(trace)] = "usage"

(* agent.py:1366-1367, the budget is checked right before each spawn "so a  *)
(* breached run refuses to launch MORE children".                           *)
BreachStopsSpawns ==
    [][\A i \in DOMAIN calls :
          Starts(i) /\ calls[i].kind \in Spawns => spent < Cap]_vars

(* agent.py:1507-1509, "a parent can never report a cleaner outcome than    *)
(* the worst outcome any of its nested specialist calls actually            *)
(* experienced".                                                            *)
WorstOutcomeIsReported ==
    pc = "returned" /\ "childFailed" \in sick =>
        result.outcome \notin {"success", "success_with_recovery"}

(* agent.py:363-364, rolling children up makes "the parent's                *)
(* `total_cost_usd` the true end-to-end build cost".                        *)
ReportedCostIsSpent == pc = "returned" => result.cost = spent

(* repair-loop.md:161-163, of a cost cap per attempt or in total:           *)
(* "Default should be **total**".                                           *)
CapIsForAllAttempts == [][pc = "step" /\ spent >= Cap => spent' = spent]_vars

(* agent.py:342-343, schema_failed "flips on only under                     *)
(* error_strategy="strict" when retries are exhausted".                     *)
InvalidOutputIsStrict ==
    pc = "returned" /\ result.outcome = "invalid_output" => Strategy = "strict"

=============================================================================
