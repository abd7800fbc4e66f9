---------------------------- MODULE AgentLoopProofs ----------------------------
(***************************************************************************)
(* For any number of steps, items, calls, retries and attempts, any cap    *)
(* and any costs: the steps of an attempt are never overrun, no item of a  *)
(* plan is starved, the success of a plan is that of all its items, a      *)
(* "success" is clean, the cap is overrun by one turn at most, and no more *)
(* calls run at a time than the pool has workers.  For any threads and any *)
(* size of the sandbox pool their commands share: a container is used by   *)
(* one of them at a time, and none is forgotten.                           *)
(***************************************************************************)
EXTENDS AgentLoop, SandboxPool, FiniteSetTheorems, WellFoundedInduction, TLAPS

(* What the plan and the step loop count.                                   *)
CountTypes ==
    /\ items \in Nat /\ idx \in 0..items /\ outputs \in 0..idx
    /\ limit \in Nat /\ used \in 0..limit /\ steps \in Nat
    /\ failed \in BOOLEAN /\ success \in BOOLEAN

(* Where the loop is and what it holds.                                     *)
PhaseInv ==
    /\ pc \in {"start", "plan"} =>
          items = 0 /\ steps = 0 /\ limit = 0 /\ ~failed /\ ~success
    /\ pc \in {"check", "unmet"} => items = 0
    /\ pc = "items" => limit = 0
    /\ pc \in {"items", "step", "calls"} => ~success
    /\ pc \in {"step", "calls"} => ~failed /\ (items > 0 => idx < items)

(* The steps of an item are kept inside what is left.                       *)
StepInv == steps + limit <= MaxSteps

(* What is left suffices for one step of every item that is left.           *)
ShareInv ==
    items > 0 /\ ~failed /\ MaxSteps >= items =>
        /\ pc = "items" => MaxSteps - steps >= items - idx
        /\ pc \in {"step", "calls"} => MaxSteps - steps - limit >= items - idx - 1

IInv ==
    /\ CountTypes /\ PhaseInv /\ StepInv /\ ShareInv
    /\ StepsWithinBudget /\ EveryItemHasATurn

counters == <<items, idx, outputs, limit, used, steps, failed, success>>

(* Integer division shares fairly: who takes the quotient takes no more     *)
(* than there is, and leaves one for each of the others.                    *)
LEMMA FairShare ==
    ASSUME NEW r \in Nat, NEW l \in Nat \ {0}
    PROVE  /\ r \div l \in 0..r
           /\ r >= l => r \div l >= 1 /\ r - (r \div l) >= l - 1
<1> DEFINE q == r \div l
<1>1. q \in Int /\ l * q <= r /\ r < l * (q + 1)
  BY SMTT(30)
<1> HIDE DEF q
<1>2. q >= 0
  <2>1. SUFFICES ASSUME q + 1 <= 0 PROVE FALSE
    BY <1>1
  <2>2. l * (q + 1) <= 0
    BY <1>1, <2>1, SMTT(30)
  <2>3. QED
    BY <1>1, <2>2
<1>3. q <= r
  <2>1. l * q >= q
    BY <1>1, <1>2, SMTT(30)
  <2>2. QED
    BY <1>1, <2>1
<1>4. ASSUME r >= l PROVE q >= 1 /\ r - q >= l - 1
  <2>1. q >= 1
    <3>1. SUFFICES ASSUME q <= 0 PROVE FALSE
      BY <1>1
    <3>2. l * (q + 1) <= l
      BY <1>1, <3>1, SMTT(30)
    <3>3. QED
      BY <1>1, <1>4, <3>2
  <2>2. (l - 1) * (q - 1) >= 0
    BY <1>1, <2>1, SMTT(30)
  <2>3. (l - 1) * (q - 1) = l * q - l - q + 1
    BY <1>1, SMTT(30)
  <2>4. QED
    BY <1>1, <2>1, <2>2, <2>3
<1>5. QED
  BY <1>1, <1>2, <1>3, <1>4 DEF q

(* ItemBudget is at least one step, at most what is left, and leaves one    *)
(* for every item after this one whenever there is one for each.            *)
LEMMA BudgetFits ==
    ASSUME CountTypes, Remaining > 0, idx < items
    PROVE  /\ ItemBudget \in 1..Remaining
           /\ Remaining >= items - idx => Remaining - ItemBudget >= items - idx - 1
<1>1. Remaining \in Nat \ {0} /\ items - idx \in Nat \ {0}
  BY AgentAssumption DEF AgentAssumption, CountTypes, Remaining
<1>2. Max2(1, items - idx) = items - idx
  BY <1>1 DEF Max2
<1> DEFINE r == Remaining
           l == items - idx
           q == r \div l
<1>3. ItemBudget = IF 1 > q THEN 1 ELSE q
  BY <1>2 DEF ItemBudget, Max2
<1> HIDE DEF r, l, q
<1>4. r \in Nat \ {0} /\ l \in Nat \ {0}
  BY <1>1 DEF r, l
<1>5. q \in 0..r /\ (r >= l => q >= 1 /\ r - q >= l - 1)
  BY <1>4, FairShare DEF q
<1>6. ItemBudget \in 1..r /\ (r >= l => r - ItemBudget >= l - 1)
  BY <1>3, <1>4, <1>5
<1>7. QED
  BY <1>6 DEF r, l

(* An attempt starts with all counters at zero.                             *)
Fresh ==
    /\ pc = "start" /\ items = 0 /\ idx = 0 /\ outputs = 0
    /\ limit = 0 /\ used = 0 /\ steps = 0
    /\ failed = FALSE /\ success = FALSE

LEMMA FreshKeeps == Fresh => IInv
<1> SUFFICES ASSUME Fresh PROVE IInv
  OBVIOUS
<1>1. CountTypes
  <2>1. failed \in BOOLEAN /\ success \in BOOLEAN
    BY Zenon DEF Fresh
  <2>2. /\ items = 0 /\ idx = 0 /\ outputs = 0
        /\ limit = 0 /\ used = 0 /\ steps = 0
    BY DEF Fresh
  <2>3. QED
    BY <2>1, <2>2 DEF CountTypes
<1>2. PhaseInv
  BY DEF Fresh, PhaseInv
<1>3. StepInv /\ ShareInv /\ StepsWithinBudget
  BY AgentAssumption DEF AgentAssumption, Fresh, StepInv, ShareInv, StepsWithinBudget
<1>4. EveryItemHasATurn
  BY DEF Fresh, EveryItemHasATurn
<1>5. QED
  BY <1>1, <1>2, <1>3, <1>4 DEF IInv

(* The end of a step loop, for whatever reason it ends.                     *)
LEMMA LoopEndsKeeps ==
    ASSUME IInv, pc \in {"step", "calls"}, NEW n \in 0..limit, NEW ok \in BOOLEAN,
           LoopEnds(n, ok), items' = items, success' = success,
           failed' \in BOOLEAN
    PROVE  IInv'
<1> USE AgentAssumption DEF AgentAssumption
<1>1. /\ CountTypes /\ ~failed /\ ~success /\ steps + limit <= MaxSteps
      /\ items > 0 => idx < items
  BY DEF IInv, PhaseInv, StepInv
<1>2. steps' = steps + n /\ used' = 0 /\ limit' = 0
  BY DEF LoopEnds
<1>3. CASE items = 0
  <2>1. pc' \in {"check", "end"} /\ idx' = idx /\ outputs' = outputs
    BY <1>3 DEF LoopEnds
  <2>2. QED
    BY <1>1, <1>2, <1>3, <2>1
    DEF IInv, CountTypes, PhaseInv, StepInv, ShareInv, StepsWithinBudget,
        EveryItemHasATurn
<1>4. CASE items > 0
  <2>1. pc' = "items" /\ idx' = idx + 1 /\ outputs' \in {outputs, outputs + 1}
    BY <1>4 DEF LoopEnds
  <2>2. CountTypes'
    BY <1>1, <1>2, <1>4, <2>1 DEF CountTypes
  <2>3. ShareInv'
    BY <1>1, <1>2, <1>4, <2>1 DEF IInv, ShareInv, CountTypes
  <2>4. QED
    BY <1>1, <1>2, <1>4, <2>1, <2>2, <2>3
    DEF IInv, CountTypes, PhaseInv, StepInv, StepsWithinBudget,
        EveryItemHasATurn
<1>5. QED
  BY <1>1, <1>3, <1>4 DEF CountTypes

(* A step that counts nothing stays where it was, goes between the calls    *)
(* and the steps of a turn, or leaves the loop.                             *)
LEMMA QuietKeeps ==
    ASSUME IInv, UNCHANGED counters,
           \/ pc' = pc
           \/ pc = "calls" /\ pc' = "step"
           \/ pc = "start" /\ pc' = "plan"
           \/ pc = "check" /\ pc' = "unmet"
           \/ pc' \in {"raised", "verify", "returned"}
    PROVE  IInv'
  BY DEF IInv, counters, CountTypes, PhaseInv, StepInv, ShareInv, StepsWithinBudget,
         EveryItemHasATurn

(* The check of an answer ends.                                             *)
LEMMA CheckKeeps ==
    ASSUME IInv, pc \in {"check", "unmet"}, pc' = "end",
           UNCHANGED <<items, idx, outputs, limit, used, steps>>,
           failed' \in BOOLEAN, success' \in BOOLEAN
    PROVE  IInv'
  BY DEF IInv, CountTypes, PhaseInv, StepInv, ShareInv, StepsWithinBudget,
         EveryItemHasATurn

LEMMA AttemptKeeps == IInv /\ Attempt => IInv'
<1> SUFFICES ASSUME IInv, Attempt PROVE IInv'
  OBVIOUS
<1> USE AgentAssumption DEF AgentAssumption
<1>1. CASE Planned
  BY <1>1, QuietKeeps DEF Planned, Moves, counters, verdict
<1>2. CASE Unplanned
  BY <1>2 DEF Unplanned, Moves, verdict, IInv, CountTypes, PhaseInv, StepInv, ShareInv,
              StepsWithinBudget, EveryItemHasATurn
<1>3. CASE StartItem
  <2>1. /\ CountTypes /\ idx < items /\ Remaining > 0 /\ ~failed
        /\ pc = "items" /\ pc' = "step" /\ limit' = ItemBudget /\ used' = 0
        /\ UNCHANGED <<items, idx, outputs, steps, failed, success>>
    BY <1>3 DEF IInv, StartItem, Moves, verdict
  <2>2. /\ limit' \in 1..Remaining
        /\ Remaining >= items - idx => Remaining - limit' >= items - idx - 1
    BY <2>1, BudgetFits
  <2>3. CountTypes' /\ StepInv' /\ StepsWithinBudget'
    BY <2>1, <2>2 DEF CountTypes, StepInv, StepsWithinBudget, Remaining
  <2>4. ShareInv'
    BY <2>1, <2>2 DEF IInv, CountTypes, ShareInv, Remaining
  <2>5. QED
    BY <2>1, <2>3, <2>4
    DEF IInv, PhaseInv, EveryItemHasATurn
<1>4. CASE PlanEnds
  <2>1. /\ CountTypes
        /\ idx = items \/ Remaining <= 0 \/ failed
        /\ pc = "items" /\ pc' = "end" /\ success' = (outputs > 0 /\ ~failed /\ outputs = items)
        /\ UNCHANGED <<items, idx, outputs, limit, used, steps, failed>>
    BY <1>4 DEF IInv, PlanEnds, Moves
  <2>2. EveryItemHasATurn'
    BY <2>1 DEF IInv, CountTypes, ShareInv, EveryItemHasATurn, Remaining
  <2>3. success' \in BOOLEAN
    BY <2>1
  <2>5. QED
    BY <2>1, <2>2, <2>3
    DEF IInv, CountTypes, PhaseInv, StepInv, ShareInv, StepsWithinBudget
<1>5. ASSUME NEW c \in 0..CallCost, PlanFails(c) PROVE IInv'
  BY <1>5 DEF PlanFails, Moves, Fails, IInv, CountTypes, PhaseInv, StepInv, ShareInv,
              StepsWithinBudget, EveryItemHasATurn
<1>6. ASSUME NEW n \in 1..MaxItems, NEW c \in 0..CallCost, Plan(n, c) PROVE IInv'
  <2>1. /\ pc = "plan" /\ pc' = "items" /\ items' = n
        /\ UNCHANGED <<idx, outputs, limit, used, steps, failed, success>>
    BY <1>6 DEF Plan, Moves, verdict
  <2>2. items = 0 /\ steps = 0 /\ limit = 0 /\ ~failed /\ ~success
    BY <2>1 DEF IInv, PhaseInv
  <2>3. QED
    BY <2>1, <2>2 DEF IInv, CountTypes, PhaseInv, StepInv, ShareInv,
           StepsWithinBudget, EveryItemHasATurn
<1>7. QED
  BY <1>1, <1>2, <1>3, <1>4, <1>5, <1>6 DEF Attempt

LEMMA LoopKeeps == IInv /\ Loop => IInv'
<1> SUFFICES ASSUME IInv, Loop PROVE IInv'
  OBVIOUS
<1>0. CountTypes /\ (pc = "step" => ~failed)
  BY DEF IInv, PhaseInv
<1>1. CASE OverBudget
  <2>1. pc = "step" /\ used + 1 \in 0..limit
    BY <1>0, <1>1 DEF OverBudget, Step, CountTypes
  <2>2. LoopEnds(used + 1, FALSE) /\ items' = items /\ success' = success /\ failed' \in BOOLEAN
    BY <1>1 DEF OverBudget, Fails
  <2>3. QED
    BY <2>1, <2>2, LoopEndsKeeps
<1>2. CASE OutOfSteps
  <2>1. pc = "step" /\ used \in 0..limit
    BY <1>0, <1>2 DEF OutOfSteps, CountTypes
  <2>2. LoopEnds(used, FALSE) /\ items' = items /\ success' = success /\ failed' = failed
    BY <1>2 DEF OutOfSteps, verdict
  <2>3. QED
    BY <1>0, <2>1, <2>2, LoopEndsKeeps DEF CountTypes
<1>3. ASSUME NEW c \in 0..CallCost, LlmFails(c) PROVE IInv'
  <2>1. pc = "step" /\ used + 1 \in 0..limit
    BY <1>0, <1>3 DEF LlmFails, Step, CountTypes
  <2>2. LoopEnds(used + 1, FALSE) /\ items' = items /\ success' = success /\ failed' \in BOOLEAN
    BY <1>3 DEF LlmFails, Fails
  <2>3. QED
    BY <2>1, <2>2, LoopEndsKeeps
<1>4. ASSUME NEW c \in 0..CallCost, Answers(c) PROVE IInv'
  <2>1. pc = "step" /\ used + 1 \in 0..limit
    BY <1>0, <1>4 DEF Answers, Step, CountTypes
  <2>2. LoopEnds(used + 1, TRUE) /\ items' = items /\ success' = success /\ failed' = failed
    BY <1>4 DEF Answers, verdict
  <2>3. QED
    BY <1>0, <2>1, <2>2, LoopEndsKeeps DEF CountTypes
<1>5. ASSUME NEW c \in 0..CallCost, SaysNothing(c) PROVE IInv'
  BY <1>5, QuietKeeps DEF SaysNothing, counters, verdict
<1>6. ASSUME NEW c \in 0..CallCost, NEW ks \in Turns, CallsTools(c, ks) PROVE IInv'
  <2>1. /\ pc = "step" /\ used < limit /\ pc' = "calls" /\ used' = used + 1
        /\ UNCHANGED <<items, idx, outputs, limit, steps, failed, success>>
    BY <1>6 DEF CallsTools, Step, verdict
  <2>2. CountTypes'
    BY <1>0, <2>1 DEF CountTypes
  <2>3. StepsWithinBudget'
    BY <1>0, <2>1, AgentAssumption DEF AgentAssumption, CountTypes, IInv, StepInv, StepsWithinBudget
  <2>4. QED
    BY <2>1, <2>2, <2>3
    DEF IInv, PhaseInv, StepInv, ShareInv, EveryItemHasATurn
<1>7. QED
  BY <1>1, <1>2, <1>3, <1>4, <1>5, <1>6 DEF Loop

LEMMA DispatchKeeps == IInv /\ Dispatch => IInv'
<1> SUFFICES ASSUME IInv, Dispatch PROVE IInv'
  OBVIOUS
<1> USE DEF counters, control, verdict
<1>1. CASE TakeResult
  BY <1>1, QuietKeeps DEF TakeResult
<1>2. CASE TurnEnds
  BY <1>2, QuietKeeps DEF TurnEnds, Moves
<1>3. ASSUME NEW i \in DOMAIN calls, Starts(i) PROVE IInv'
  BY <1>3, QuietKeeps DEF Starts
<1>4. ASSUME NEW i \in DOMAIN calls, Refused(i) PROVE IInv'
  BY <1>4, QuietKeeps DEF Refused
<1>5. ASSUME NEW i \in DOMAIN calls, CallRaises(i) PROVE IInv'
  BY <1>5, QuietKeeps DEF CallRaises
<1>6. ASSUME NEW i \in DOMAIN calls, NEW st \in Over, ToolReturns(i, st) PROVE IInv'
  BY <1>6, QuietKeeps DEF ToolReturns
<1>7. ASSUME NEW i \in DOMAIN calls, NEW st \in Over, NEW c \in 0..CallCost,
             DecomposeReturns(i, st, c)
      PROVE  IInv'
  BY <1>7, QuietKeeps DEF DecomposeReturns
<1>8. ASSUME NEW i \in DOMAIN calls, NEW c \in 0..CallCost, DecomposeFails(i, c) PROVE IInv'
  <2>1. pc = "calls" /\ used \in 0..limit
    BY <1>8 DEF DecomposeFails, Runs, IInv, CountTypes
  <2>2. LoopEnds(used, FALSE) /\ items' = items /\ success' = success /\ failed' \in BOOLEAN
    BY <1>8 DEF DecomposeFails, Fails
  <2>3. QED
    BY <2>1, <2>2, LoopEndsKeeps
<1>9. ASSUME NEW i \in DOMAIN calls, NEW st \in Over, NEW c \in 0..ChildCost,
             ChildReturns(i, st, c)
      PROVE  IInv'
  BY <1>9, QuietKeeps DEF ChildReturns
<1>10. QED
  BY <1>1, <1>2, <1>3, <1>4, <1>5, <1>6, <1>7, <1>8, <1>9 DEF Dispatch

LEMMA CheckedKeeps == IInv /\ Check => IInv'
<1> SUFFICES ASSUME IInv, Check PROVE IInv'
  OBVIOUS
<1> USE DEF Moves, Fails, verdict, control
<1>0. failed \in BOOLEAN /\ success \in BOOLEAN
  BY DEF IInv, CountTypes
<1>1. CASE Accepted
  BY <1>0, <1>1, CheckKeeps DEF Accepted
<1>2. CASE GivesUp
  BY <1>2, QuietKeeps DEF GivesUp, counters
<1>3. CASE Unmet
  BY <1>0, <1>3, CheckKeeps DEF Unmet
<1>4. ASSUME NEW c \in 0..CallCost, CorrectionFails(c) PROVE IInv'
  BY <1>0, <1>4, CheckKeeps DEF CorrectionFails
<1>5. ASSUME NEW c \in 0..CallCost, NEW a \in BOOLEAN, Corrects(c, a) PROVE IInv'
  BY <1>5, QuietKeeps DEF Corrects, counters
<1>6. QED
  BY <1>1, <1>2, <1>3, <1>4, <1>5 DEF Check

LEMMA RepairKeeps == IInv /\ Repair => IInv'
<1> SUFFICES ASSUME IInv, Repair PROVE IInv'
  OBVIOUS
<1> USE DEF Moves, counters, verdict
<1>1. CASE Finishes
  BY <1>1, QuietKeeps DEF Finishes
<1>2. CASE Passes
  BY <1>2, QuietKeeps DEF Passes
<1>3. ASSUME NEW s \in Signatures \cup Outcomes, NoProgress(s) PROVE IInv'
  BY <1>3, QuietKeeps DEF NoProgress
<1>4. ASSUME NEW s \in Signatures \cup Outcomes, Repairs(s) PROVE IInv'
  <2>1. Fresh'
    BY <1>4 DEF Repairs, Fresh
  <2>2. QED
    BY <2>1, FreshKeeps, PTL
<1>5. QED
  BY <1>1, <1>2, <1>3, <1>4 DEF Repair

LEMMA Inductive == Spec => []IInv
<1>1. Init => IInv
  BY FreshKeeps DEF Init, Fresh
<1>2. IInv /\ [Next]_vars => IInv'
  <2>1. ASSUME IInv, Stops \/ UNCHANGED vars PROVE IInv'
    BY <2>1, QuietKeeps DEF Stops, vars, control, verdict, counters
  <2>2. QED
    BY <2>1, AttemptKeeps, LoopKeeps, DispatchKeeps, CheckedKeeps, RepairKeeps DEF Next
<1>3. QED
  BY <1>1, <1>2, PTL DEF Spec

(* The shares of the items add up: an attempt never takes more steps than   *)
(* max_steps, planned or not, however its items end.                        *)
THEOREM StepsBounded == Spec => []StepsWithinBudget
<1>1. IInv => StepsWithinBudget
  BY DEF IInv
<1>2. QED
  BY <1>1, Inductive, PTL

(* No item can use up what the items after it need: a plan of no more items *)
(* than steps only ends, short of a failure, when each has had its turn.    *)
THEOREM NoItemStarves == Spec => []EveryItemHasATurn
<1>1. IInv => EveryItemHasATurn
  BY DEF IInv
<1>2. QED
  BY <1>1, Inductive, PTL

-----------------------------------------------------------------------------
(* Types.  A turn's calls are there only while they are dispatched, or when *)
(* they took the run down, and no result is taken before all are over.      *)
ControlTypes ==
    /\ pc \in {"start", "plan", "items", "step", "calls", "check", "unmet", "end", "verify"} \cup Ended
    /\ items \in 0..MaxItems

TurnTypes ==
    /\ calls \in Seq(Call) /\ taken \in 0..Len(calls)
    /\ pc \notin {"calls", "raised"} => calls = <<>> /\ taken = 0
    /\ taken > 0 => AllOver

MoneyTypes == own \in Nat /\ spent \in Nat

SickTypes == sick \in SUBSET {"call", "child", "childFailed"}

VerdictTypes ==
    /\ failed \in BOOLEAN /\ success \in BOOLEAN /\ hadFailure \in BOOLEAN
    /\ reason \in {"none", "llm", "budget", "schema"}

ScoreTypes == total \in Nat /\ bad \in 0..total /\ tries \in 0..Retries

OuterTypes ==
    /\ attempt \in 0..MaxAttempts /\ signature \in Signatures \cup Outcomes \cup {None}
    /\ trace \in Seq({"final", "failed", "incomplete", "usage", "error"})
    /\ result \in [outcome : Outcomes, success : BOOLEAN, cost : Nat] \cup {None}

TInv ==
    /\ IInv /\ ControlTypes /\ TurnTypes /\ MoneyTypes /\ SickTypes
    /\ VerdictTypes /\ ScoreTypes /\ OuterTypes

(* What a step of a dispatch may do to anything but the turn itself.        *)
DispatchEffect ==
    /\ items' = items /\ UNCHANGED outer
    /\ pc' \in {pc, "step", "raised", "items", "end"}
    /\ \/ UNCHANGED verdict
       \/ Fails("llm") /\ UNCHANGED <<success, hadFailure, total, bad, tries>>
       \/ TakeResult
    /\ \/ UNCHANGED money
       \/ own' = own /\ \E c \in 0..ChildCost : spent' = spent + c
       \/ \E c \in 0..CallCost : Pays(c)
       \/ TakeResult
    /\ sick' \ sick \subseteq {"call", "child", "childFailed"}

LEMMA DispatchDoes == Dispatch => DispatchEffect
<1> SUFFICES ASSUME Dispatch PROVE DispatchEffect
  OBVIOUS
<1> USE AgentAssumption DEF AgentAssumption, DispatchEffect, control, verdict, money, outer
<1>1. CASE TakeResult
  BY <1>1 DEF TakeResult
<1>2. CASE TurnEnds
  BY <1>2 DEF TurnEnds, Moves
<1>3. ASSUME NEW i \in DOMAIN calls, Starts(i) PROVE DispatchEffect
  BY <1>3 DEF Starts
<1>4. ASSUME NEW i \in DOMAIN calls, Refused(i) PROVE DispatchEffect
  BY <1>4 DEF Refused
<1>5. ASSUME NEW i \in DOMAIN calls, CallRaises(i) PROVE DispatchEffect
  <2>1. sick' \in {sick, sick \cup {"call"}} /\ pc' \in {pc, "raised"} /\ items' = items
    BY <1>5 DEF CallRaises
  <2>2. UNCHANGED <<verdict, money, outer>>
    BY <1>5 DEF CallRaises
  <2>3. QED
    BY <2>1, <2>2
<1>6. ASSUME NEW i \in DOMAIN calls, NEW st \in Over, ToolReturns(i, st) PROVE DispatchEffect
  BY <1>6 DEF ToolReturns
<1>7. ASSUME NEW i \in DOMAIN calls, NEW st \in Over, NEW c \in 0..CallCost,
             DecomposeReturns(i, st, c)
      PROVE  DispatchEffect
  BY <1>7 DEF DecomposeReturns
<1>8. ASSUME NEW i \in DOMAIN calls, NEW c \in 0..CallCost, DecomposeFails(i, c)
      PROVE  DispatchEffect
  BY <1>8 DEF DecomposeFails, LoopEnds
<1>9. ASSUME NEW i \in DOMAIN calls, NEW st \in Over, NEW c \in 0..ChildCost,
             ChildReturns(i, st, c)
      PROVE  DispatchEffect
  <2>1. own' = own /\ (spent' = spent \/ spent' = spent + c)
    BY <1>9 DEF ChildReturns
  <2>2. sick' \ sick \subseteq {"call", "child", "childFailed"}
    BY <1>9 DEF ChildReturns
  <2>3. UNCHANGED <<control, verdict, outer>>
    BY <1>9 DEF ChildReturns
  <2>4. QED
    BY <2>1, <2>2, <2>3
<1>10. QED
  BY <1>1, <1>2, <1>3, <1>4, <1>5, <1>6, <1>7, <1>8, <1>9 DEF Dispatch

LEMMA ControlKeeps == ControlTypes /\ Next => ControlTypes'
<1> SUFFICES ASSUME ControlTypes, Next PROVE ControlTypes'
  OBVIOUS
<1> USE AgentAssumption DEF AgentAssumption, ControlTypes, Moves, Ended
<1>1. CASE Attempt
  BY <1>1 DEF Attempt, Planned, Unplanned, StartItem, PlanEnds, PlanFails, Plan
<1>2. CASE Loop
  BY <1>2 DEF Loop, LoopEnds, OverBudget, OutOfSteps, LlmFails, Answers, SaysNothing, CallsTools
<1>3. CASE Dispatch
  BY <1>3, DispatchDoes DEF DispatchEffect
<1>4. CASE Check
  BY <1>4 DEF Check, Accepted, GivesUp, Unmet, CorrectionFails, Corrects
<1>5. CASE Repair
  BY <1>5 DEF Repair, Finishes, Passes, NoProgress, Repairs
<1>6. CASE Stops
  BY <1>6 DEF Stops, vars, control
<1>7. QED
  BY <1>1, <1>2, <1>3, <1>4, <1>5, <1>6 DEF Next

LEMMA MoneyKeeps == MoneyTypes /\ TurnTypes /\ Next => MoneyTypes'
<1> SUFFICES ASSUME MoneyTypes, TurnTypes, Next PROVE MoneyTypes'
  OBVIOUS
<1> USE AgentAssumption DEF AgentAssumption, MoneyTypes, Pays, money
<1>1. CASE Attempt
  BY <1>1 DEF Attempt, Planned, Unplanned, StartItem, PlanEnds, PlanFails, Plan
<1>2. CASE Loop
  <2>1. \/ UNCHANGED money
        \/ \E c \in 0..CallCost : Pays(c)
    BY <1>2 DEF Loop, OverBudget, OutOfSteps, LlmFails, Answers, SaysNothing, CallsTools
  <2>2. QED
    BY <2>1
<1>3. CASE TakeResult
  <2>1. taken + 1 \in 1..Len(calls)
    BY <1>3 DEF TakeResult, TurnTypes
  <2>2. calls[taken + 1] \in Call
    BY <2>1 DEF TurnTypes
  <2>3. calls[taken + 1].cost \in Nat
    BY <2>2 DEF Call
  <2>4. QED
    BY <1>3, <2>3 DEF TakeResult
<1>4. CASE Dispatch /\ ~TakeResult
  BY <1>4, DispatchDoes DEF DispatchEffect
<1>5. CASE Check
  BY <1>5 DEF Check, Accepted, GivesUp, Unmet, CorrectionFails, Corrects
<1>6. CASE Repair
  BY <1>6 DEF Repair, Finishes, Passes, NoProgress, Repairs
<1>7. CASE Stops
  BY <1>7 DEF Stops, vars
<1>8. QED
  BY <1>1, <1>2, <1>3, <1>4, <1>5, <1>6, <1>7 DEF Next

LEMMA SickKeeps == SickTypes /\ Next => SickTypes'
<1> SUFFICES ASSUME SickTypes, Next PROVE SickTypes'
  OBVIOUS
<1> USE DEF SickTypes
<1>1. CASE Attempt
  BY <1>1 DEF Attempt, Planned, Unplanned, StartItem, PlanEnds, PlanFails, Plan
<1>2. CASE Loop
  BY <1>2 DEF Loop, OverBudget, OutOfSteps, LlmFails, Answers, SaysNothing, CallsTools
<1>3. CASE Dispatch
  BY <1>3, DispatchDoes DEF DispatchEffect
<1>4. CASE Check
  BY <1>4 DEF Check, Accepted, GivesUp, Unmet, CorrectionFails, Corrects
<1>5. CASE Repair
  BY <1>5 DEF Repair, Finishes, Passes, NoProgress, Repairs
<1>6. CASE Stops
  BY <1>6 DEF Stops, vars
<1>7. QED
  BY <1>1, <1>2, <1>3, <1>4, <1>5, <1>6 DEF Next

LEMMA VerdictKeeps == VerdictTypes /\ Next => VerdictTypes'
<1> SUFFICES ASSUME VerdictTypes, Next PROVE VerdictTypes'
  OBVIOUS
<1> USE DEF VerdictTypes, Fails, verdict
<1>1. CASE Attempt
  BY <1>1 DEF Attempt, Planned, Unplanned, StartItem, PlanEnds, PlanFails, Plan
<1>2. CASE Loop
  BY <1>2 DEF Loop, OverBudget, OutOfSteps, LlmFails, Answers, SaysNothing, CallsTools
<1>3. CASE Dispatch
  BY <1>3, DispatchDoes DEF DispatchEffect, TakeResult
<1>4. CASE Check
  BY <1>4 DEF Check, Accepted, GivesUp, Unmet, CorrectionFails, Corrects
<1>5. CASE Repair
  BY <1>5 DEF Repair, Finishes, Passes, NoProgress, Repairs
<1>6. CASE Stops
  BY <1>6 DEF Stops, vars
<1>7. QED
  BY <1>1, <1>2, <1>3, <1>4, <1>5, <1>6 DEF Next

LEMMA ScoreKeeps == ScoreTypes /\ Next => ScoreTypes'
<1> SUFFICES ASSUME ScoreTypes, Next PROVE ScoreTypes'
  OBVIOUS
<1> USE AgentAssumption DEF AgentAssumption, ScoreTypes, verdict
<1>1. CASE Attempt
  BY <1>1 DEF Attempt, Planned, Unplanned, StartItem, PlanEnds, PlanFails, Plan
<1>2. CASE Loop
  BY <1>2 DEF Loop, OverBudget, OutOfSteps, LlmFails, Answers, SaysNothing, CallsTools
<1>3. CASE Dispatch
  BY <1>3, DispatchDoes DEF DispatchEffect, TakeResult
<1>4. CASE Check
  BY <1>4 DEF Check, Accepted, GivesUp, Unmet, CorrectionFails, Corrects
<1>5. CASE Repair
  BY <1>5 DEF Repair, Finishes, Passes, NoProgress, Repairs
<1>6. CASE Stops
  BY <1>6 DEF Stops, vars
<1>7. QED
  BY <1>1, <1>2, <1>3, <1>4, <1>5, <1>6 DEF Next

LEMMA OuterKeeps == OuterTypes /\ VerdictTypes /\ MoneyTypes /\ Next => OuterTypes'
<1> SUFFICES ASSUME OuterTypes, VerdictTypes, MoneyTypes, Next PROVE OuterTypes'
  OBVIOUS
<1> USE AgentAssumption DEF AgentAssumption, outer
<1>1. CASE UNCHANGED outer
  BY <1>1 DEF OuterTypes
<1>2. CASE Loop
  <2>1. ASSUME NEW c \in 0..CallCost, SaysNothing(c) PROVE OuterTypes'
    <3>1. trace' = Append(trace, "error") /\ UNCHANGED <<attempt, signature, result>>
      BY <2>1 DEF SaysNothing
    <3>2. QED
      BY <3>1 DEF OuterTypes
  <2>2. QED
    BY <1>1, <1>2, <2>1 DEF Loop, OverBudget, OutOfSteps, LlmFails, Answers, CallsTools
<1>3. CASE Finishes
  <2>1. /\ result' = [outcome |-> Outcome, success |-> success, cost |-> own]
        /\ \E e \in {"final", "failed", "incomplete"} : trace' = trace \o <<e, "usage">>
        /\ UNCHANGED <<attempt, signature>>
    BY <1>3 DEF Finishes
  <2>2. Outcome \in Outcomes
    BY DEF Outcome, Classify, Outcomes, VerdictTypes
  <2>3. result' \in [outcome : Outcomes, success : BOOLEAN, cost : Nat]
    BY <2>1, <2>2 DEF VerdictTypes, MoneyTypes
  <2>4. trace' \in Seq({"final", "failed", "incomplete", "usage", "error"})
    BY <2>1 DEF OuterTypes
  <2>5. QED
    BY <2>1, <2>3, <2>4 DEF OuterTypes
<1>4. ASSUME NEW s \in Signatures \cup Outcomes, Repairs(s) PROVE OuterTypes'
  BY <1>4 DEF Repairs, Rejects, OuterTypes
<1>5. CASE Attempt \/ Dispatch \/ Check \/ Stops
  BY <1>1, <1>5, DispatchDoes
  DEF DispatchEffect, Attempt, Planned, Unplanned, StartItem, PlanEnds, PlanFails, Plan,
      Check, Accepted, GivesUp, Unmet, CorrectionFails, Corrects, Stops, vars
<1>6. CASE Repair
  BY <1>1, <1>3, <1>4, <1>6 DEF Repair, Passes, NoProgress
<1>7. QED
  BY <1>2, <1>5, <1>6 DEF Next

(* The steps that leave a turn, or do not come near one.                    *)
LEMMA NoTurn ==
    ASSUME TurnTypes, UNCHANGED turn, pc \notin {"calls", "raised"}
    PROVE  TurnTypes'
<1>1. calls = <<>> /\ taken = 0 /\ calls' = <<>> /\ taken' = 0
  BY DEF TurnTypes, turn
<1>2. QED
  BY <1>1 DEF TurnTypes

Statuses == {"todo", "running"} \cup Over

LEMMA CallBecomes ==
    ASSUME calls \in Seq(Call)
    PROVE  \A i \in DOMAIN calls, st \in Statuses :
              /\ [calls EXCEPT ![i].st = st] \in Seq(Call)
              /\ \A c \in 0..ChildCost : [calls EXCEPT ![i].st = st, ![i].cost = c] \in Seq(Call)
<1> SUFFICES ASSUME NEW i \in DOMAIN calls, NEW st \in Statuses
             PROVE  /\ [calls EXCEPT ![i].st = st] \in Seq(Call)
                    /\ \A c \in 0..ChildCost : [calls EXCEPT ![i].st = st, ![i].cost = c] \in Seq(Call)
  BY Zenon
<1> USE DEF Statuses
<1>1. i \in 1..Len(calls) /\ calls[i] \in Call
  OBVIOUS
<1>2. [calls EXCEPT ![i].st = st] \in Seq(Call)
  <2>1. [calls[i] EXCEPT !.st = st] \in Call
    BY <1>1 DEF Call
  <2>2. QED
    BY <1>1, <2>1
<1>3. ASSUME NEW c \in 0..ChildCost PROVE [calls EXCEPT ![i].st = st, ![i].cost = c] \in Seq(Call)
  <2> DEFINE new == [calls EXCEPT ![i].st = st]
  <2>1. new[i] \in Call /\ i \in 1..Len(new) /\ new \in Seq(Call)
    BY <1>1, <1>2
  <2>2. [calls EXCEPT ![i].st = st, ![i].cost = c] = [new EXCEPT ![i].cost = c]
    OBVIOUS
  <2> HIDE DEF new
  <2>3. [new[i] EXCEPT !.cost = c] \in Call
    BY <2>1 DEF Call
  <2>4. [new EXCEPT ![i].cost = c] \in Seq(Call)
    BY <2>1, <2>3
  <2>5. QED
    BY <2>2, <2>4
<1>4. QED
  BY <1>2, <1>3, Zenon

(* A call that runs, or may start, keeps results from being taken.          *)
LEMMA CallChanges ==
    ASSUME TurnTypes, NEW i \in DOMAIN calls, calls[i].st \notin Over,
           calls' \in Seq(Call), taken' = taken, pc' \in {"calls", "raised"}
    PROVE  TurnTypes'
<1>1. taken = 0
  BY DEF TurnTypes, AllOver
<1>2. QED
  BY <1>1 DEF TurnTypes

LEMMA TurnKeeps == TurnTypes /\ Next => TurnTypes'
<1> SUFFICES ASSUME TurnTypes, Next PROVE TurnTypes'
  OBVIOUS
<1>a. /\ calls \in Seq(Call) /\ 0 \in 0..ChildCost
      /\ Over \subseteq Statuses /\ {"running", "refused", "lost"} \subseteq Statuses
      /\ "todo" \notin Over /\ "running" \notin Over /\ {"lost", "refused"} \subseteq Over
  BY AgentAssumption DEF AgentAssumption, TurnTypes, Over, Statuses
<1>1. CASE Attempt
  <2>1. UNCHANGED turn /\ pc \notin {"calls", "raised"}
    BY <1>1 DEF Attempt, Planned, Unplanned, StartItem, PlanEnds, PlanFails, Plan, Moves
  <2>2. QED
    BY <2>1, NoTurn
<1>2. CASE Check
  <2>1. UNCHANGED turn /\ pc \notin {"calls", "raised"}
    BY <1>2 DEF Check, Accepted, GivesUp, Unmet, CorrectionFails, Corrects, Moves
  <2>2. QED
    BY <2>1, NoTurn
<1>3. CASE Repair
  <2>1. UNCHANGED turn /\ pc \notin {"calls", "raised"}
    BY <1>3 DEF Repair, Finishes, Passes, NoProgress, Repairs, Rejects, Moves
  <2>2. QED
    BY <2>1, NoTurn
<1>4. CASE Stops
  BY <1>4 DEF Stops, vars, control, turn, TurnTypes, AllOver
<1>5. CASE OverBudget \/ OutOfSteps \/ \E c \in 0..CallCost : LlmFails(c) \/ Answers(c) \/ SaysNothing(c)
  <2>1. UNCHANGED turn /\ pc \notin {"calls", "raised"}
    BY <1>5 DEF OverBudget, OutOfSteps, LlmFails, Answers, SaysNothing, Step
  <2>2. QED
    BY <2>1, NoTurn
<1>6. ASSUME NEW c \in 0..CallCost, NEW ks \in Turns, CallsTools(c, ks) PROVE TurnTypes'
  <2>1. pc = "step" /\ pc' = "calls" /\ taken' = taken
        /\ calls' = [i \in DOMAIN ks |-> [kind |-> ks[i], st |-> "todo", cost |-> 0]]
    BY <1>6 DEF CallsTools, Step
  <2>2. PICK n \in 1..MaxCalls : ks \in [1..n -> Offered]
    BY DEF Turns
  <2>3. \A i \in 1..n : [kind |-> ks[i], st |-> "todo", cost |-> 0] \in Call
    <3>1. Offered \subseteq Kinds /\ 0 \in 0..ChildCost
      BY AgentAssumption DEF AgentAssumption, Kinds, Agents, Spawns
    <3>2. QED
      BY <2>2, <3>1 DEF Call
  <2>4. calls' \in Seq(Call)
    <3>1. n \in Nat /\ DOMAIN ks = 1..n
      BY <2>2, AgentAssumption DEF AgentAssumption
    <3>2. calls' \in [1..n -> Call]
      BY <2>1, <2>3, <3>1
    <3>3. QED
      BY <3>1, <3>2
  <2>5. taken = 0
    BY <2>1 DEF TurnTypes
  <2>6. QED
    BY <2>1, <2>4, <2>5 DEF TurnTypes
<1>7. CASE TakeResult
  <2>1. pc = "calls" /\ pc' = pc /\ calls' = calls /\ taken' = taken + 1
        /\ AllOver /\ taken < Len(calls)
    BY <1>7 DEF TakeResult, control
  <2>2. QED
    BY <2>1 DEF TurnTypes, AllOver
<1>8. CASE TurnEnds
  <2>1. calls' = <<>> /\ taken' = 0
    BY <1>8 DEF TurnEnds
  <2>2. QED
    BY <2>1 DEF TurnTypes
<1>9. ASSUME NEW i \in DOMAIN calls, Starts(i) \/ Refused(i) PROVE TurnTypes'
  <2>1. calls[i].st = "todo" /\ pc = "calls" /\ pc' = pc /\ taken' = taken
    BY <1>9 DEF Starts, Refused, MayStart, control
  <2>2. \E st \in {"running", "refused"} : calls' = [calls EXCEPT ![i].st = st]
    BY <1>9 DEF Starts, Refused, Becomes
  <2>3. calls' \in Seq(Call)
    BY <1>a, <2>2, CallBecomes, Zenon
  <2>4. QED
    BY <1>a, <2>1, <2>3, CallChanges
<1>10. ASSUME NEW i \in DOMAIN calls, CallRaises(i) PROVE TurnTypes'
  <2>1. calls[i].st = "running" /\ pc = "calls" /\ pc' \in {"calls", "raised"} /\ taken' = taken
    BY <1>10 DEF CallRaises, Runs, control
  <2>2. calls' = [calls EXCEPT ![i].st = "lost"] \/ calls' = calls
    BY <1>10 DEF CallRaises, Becomes
  <2>3. calls' \in Seq(Call)
    BY <1>a, <2>2, CallBecomes, Zenon
  <2>4. QED
    BY <1>a, <2>1, <2>3, CallChanges
<1>11. ASSUME NEW i \in DOMAIN calls, NEW st \in Over, ToolReturns(i, st) PROVE TurnTypes'
  <2>1. calls[i].st = "running" /\ pc = "calls" /\ pc' = pc /\ taken' = taken
    BY <1>11 DEF ToolReturns, Runs, control
  <2>2. calls' = [calls EXCEPT ![i].st = st]
    BY <1>11 DEF ToolReturns, Becomes
  <2>3. calls' \in Seq(Call)
    BY <1>a, <2>2, CallBecomes, Zenon
  <2>4. QED
    BY <1>a, <2>1, <2>3, CallChanges
<1>12. ASSUME NEW i \in DOMAIN calls, NEW st \in Over, NEW c \in 0..CallCost,
              DecomposeReturns(i, st, c)
       PROVE  TurnTypes'
  <2>1. calls[i].st = "running" /\ pc = "calls" /\ pc' = pc /\ taken' = taken
    BY <1>12 DEF DecomposeReturns, Runs, control
  <2>2. calls' = [calls EXCEPT ![i].st = st]
    BY <1>12 DEF DecomposeReturns, Becomes
  <2>3. calls' \in Seq(Call)
    BY <1>a, <2>2, CallBecomes, Zenon
  <2>4. QED
    BY <1>a, <2>1, <2>3, CallChanges
<1>13. ASSUME NEW i \in DOMAIN calls, NEW c \in 0..CallCost, DecomposeFails(i, c) PROVE TurnTypes'
  <2>1. calls[i].st = "running" /\ calls' = <<>> /\ taken' = taken
    BY <1>13 DEF DecomposeFails, Runs
  <2>2. taken = 0
    BY <2>1 DEF TurnTypes, AllOver, Over
  <2>3. QED
    BY <2>1, <2>2 DEF TurnTypes
<1>14. ASSUME NEW i \in DOMAIN calls, NEW st \in Over, NEW c \in 0..ChildCost,
              ChildReturns(i, st, c)
       PROVE  TurnTypes'
  <2>1. calls[i].st = "running" /\ pc = "calls" /\ pc' = pc /\ taken' = taken
    BY <1>14 DEF ChildReturns, Runs, control
  <2>2. PICK k \in 0..ChildCost : calls' = [calls EXCEPT ![i].st = st, ![i].cost = k]
    <3>1. calls' = [calls EXCEPT ![i].st = st, ![i].cost = IF st = "lost" THEN 0 ELSE c]
      BY <1>14 DEF ChildReturns
    <3>2. (IF st = "lost" THEN 0 ELSE c) \in 0..ChildCost
      BY <1>a
    <3>3. QED
      BY <3>1, <3>2, Zenon
  <2>3. calls' \in Seq(Call)
    BY <1>a, <2>2, CallBecomes, Zenon
  <2>4. QED
    BY <1>a, <2>1, <2>3, CallChanges
<1>15. CASE Loop
  BY <1>5, <1>6, <1>15 DEF Loop
<1>16. CASE Dispatch
  BY <1>7, <1>8, <1>9, <1>10, <1>11, <1>12, <1>13, <1>14, <1>16 DEF Dispatch
<1>17. QED
  BY <1>1, <1>2, <1>3, <1>4, <1>15, <1>16 DEF Next

LEMMA Typed == Spec => []TInv
<1>1. Init => ControlTypes /\ TurnTypes /\ MoneyTypes /\ SickTypes
  BY AgentAssumption DEF AgentAssumption, Init, ControlTypes, TurnTypes, MoneyTypes, SickTypes
<1>2. Init => VerdictTypes /\ ScoreTypes /\ OuterTypes
  <2>1. Init => VerdictTypes
    BY Zenon DEF Init, VerdictTypes
  <2>5. Init => ScoreTypes
    BY AgentAssumption DEF AgentAssumption, Init, ScoreTypes
  <2>2. <<>> \in Seq({"final", "failed", "incomplete", "usage", "error"}) /\ 0 \in 0..MaxAttempts
    BY AgentAssumption DEF AgentAssumption
  <2>3. Init => OuterTypes
    BY <2>2 DEF Init, OuterTypes
  <2>4. QED
    BY <2>1, <2>3, <2>5
<1>3. TInv /\ [Next]_vars /\ IInv' => TInv'
  <2>1. CASE Next
    BY <2>1, ControlKeeps, TurnKeeps, MoneyKeeps, SickKeeps, VerdictKeeps, ScoreKeeps, OuterKeeps DEF TInv
  <2>2. ASSUME TInv, IInv', UNCHANGED vars PROVE TInv'
    <3>1. ControlTypes' /\ MoneyTypes' /\ SickTypes'
      BY <2>2 DEF TInv, vars, control, money, ControlTypes, MoneyTypes, SickTypes
    <3>2. TurnTypes'
      BY <2>2 DEF TInv, vars, control, turn, TurnTypes, AllOver
    <3>3. VerdictTypes' /\ ScoreTypes' /\ OuterTypes'
      BY <2>2 DEF TInv, vars, verdict, outer, VerdictTypes, ScoreTypes, OuterTypes
    <3>4. QED
      BY <2>2, <3>1, <3>2, <3>3 DEF TInv
  <2>3. QED
    BY <2>1, <2>2
<1>4. IInv /\ Init => (Init => TInv)
  BY <1>1, <1>2 DEF TInv
<1>5. QED
  BY <1>3, <1>4, Inductive, PTL DEF Spec

(* Every variable keeps its type, for any number of retries and attempts;   *)
(* no call is left over from a turn when the next one begins.               *)
THEOREM TypeCorrect == Spec => []TypeOK
<1>1. TInv => TypeOK
  <2> SUFFICES ASSUME TInv PROVE TypeOK
    OBVIOUS
  <2>1. limit \in 0..MaxSteps /\ idx \in 0..items /\ outputs \in 0..idx
        /\ used \in 0..limit /\ steps \in Nat
    BY AgentAssumption DEF AgentAssumption, TInv, IInv, CountTypes, StepInv
  <2>2. QED
    BY <2>1 DEF TInv, TypeOK, ControlTypes, TurnTypes, MoneyTypes, SickTypes,
                VerdictTypes, ScoreTypes, OuterTypes
<1>2. QED
  BY <1>1, Typed, PTL

(* The steps of an attempt are shared out: no more than there are, and none *)
(* of the items of a plan goes without.                                     *)
THEOREM BudgetShared == Spec => []BudgetIsShared
<1>1. StepsWithinBudget /\ EveryItemHasATurn => BudgetIsShared
  BY DEF BudgetIsShared
<1>2. QED
  BY <1>1, StepsBounded, NoItemStarves, PTL

-----------------------------------------------------------------------------
(* One call goes on, or ends, as st; the others stay as they are.           *)
OnlyCall(i, st) ==
    /\ DOMAIN calls' = DOMAIN calls
    /\ calls'[i].st = st /\ calls'[i].kind = calls[i].kind
    /\ \A j \in DOMAIN calls \ {i} : calls'[j] = calls[j]

LEMMA ChangesOneCall ==
    ASSUME TurnTypes, NEW i \in DOMAIN calls, NEW st
    PROVE  /\ calls' = [calls EXCEPT ![i].st = st] => OnlyCall(i, st) /\ calls'[i].cost = calls[i].cost
           /\ \A c : calls' = [calls EXCEPT ![i].st = st, ![i].cost = c] =>
                      OnlyCall(i, st) /\ calls'[i].cost = c
<1>1. i \in 1..Len(calls) /\ calls[i] \in Call
  BY DEF TurnTypes
<1>2. QED
  BY <1>1 DEF OnlyCall, Call

-----------------------------------------------------------------------------
(* The outcome.  What went wrong is on record: as a failure of the attempt, *)
(* as a call that failed or recovered, or in a result not yet taken.        *)
Untaken == \E i \in DOMAIN calls : i > taken /\ calls[i].st \in Over \ {"ok"}

CleanInv ==
    /\ pc \notin {"verify", "returned", "raised"} /\ sick # {} =>
          hadFailure \/ failed \/ (pc = "calls" /\ Untaken)
    /\ SuccessIsClean

(* A step away from the calls that forgets no failure and returns nothing.  *)
LEMMA RecordKept ==
    ASSUME CleanInv, sick' = sick, hadFailure' = hadFailure, failed => failed',
           pc \notin {"calls", "verify", "returned", "raised"}, pc' \notin {"verify", "returned"}
    PROVE  CleanInv'
<1>1. sick # {} => hadFailure \/ failed
  BY DEF CleanInv
<1>2. sick' # {} => hadFailure' \/ failed'
  BY <1>1, Zenon
<1>3. SuccessIsClean'
  BY DEF SuccessIsClean
<1>4. QED
  BY <1>2, <1>3 DEF CleanInv

(* A call goes on or ends: if it ends badly its result is still to be taken. *)
LEMMA CallRecorded ==
    ASSUME CleanInv, TurnTypes, NEW i \in DOMAIN calls, calls[i].st \notin Over,
           pc = "calls", pc' = "calls", taken' = taken, hadFailure' = hadFailure, failed' = failed,
           NEW st, OnlyCall(i, st), sick' = sick \/ st \in Over \ {"ok"}
    PROVE  CleanInv'
<1>1. taken = 0 /\ i \in Nat \ {0}
  BY DEF TurnTypes, AllOver
<1>2. DOMAIN calls' = DOMAIN calls /\ calls'[i].st = st /\ \A j \in DOMAIN calls \ {i} : calls'[j] = calls[j]
  BY DEF OnlyCall
<1>3. CASE st \in Over \ {"ok"}
  <2>1. Untaken'
    BY <1>1, <1>2, <1>3 DEF Untaken
  <2>2. QED
    BY <2>1 DEF CleanInv, SuccessIsClean
<1>4. CASE sick' = sick
  <2>1. Untaken => Untaken'
    BY <1>2 DEF Untaken
  <2>2. QED
    BY <1>4, <2>1 DEF CleanInv, SuccessIsClean
<1>5. QED
  BY <1>3, <1>4

LEMMA CleanKeeps == CleanInv /\ TInv /\ Next => CleanInv'
<1> SUFFICES ASSUME CleanInv, TInv, Next PROVE CleanInv'
  OBVIOUS
<1>0. TurnTypes /\ "todo" \notin Over /\ "running" \notin Over
  BY DEF TInv, Over
<1>1. CASE Attempt
  BY <1>1, RecordKept
  DEF Attempt, Planned, Unplanned, StartItem, PlanEnds, PlanFails, Plan, Moves, Fails, verdict
<1>2. CASE Loop
  <2>1. sick' = sick /\ hadFailure' = hadFailure /\ pc = "step"
    BY <1>2 DEF Loop, OverBudget, OutOfSteps, LlmFails, Answers, SaysNothing, CallsTools, Step, verdict
  <2>4. failed' = failed \/ failed' = TRUE
    BY <1>2 DEF Loop, OverBudget, OutOfSteps, LlmFails, Answers, SaysNothing, CallsTools, Fails, verdict
  <2>5. failed => failed'
    BY <2>4, Zenon
  <2>2. pc' \in {"check", "end", "items", "raised", "calls"}
    BY <1>2 DEF Loop, OverBudget, OutOfSteps, LlmFails, Answers, SaysNothing, CallsTools, LoopEnds
  <2>3. QED
    BY <2>1, <2>2, <2>5, RecordKept
<1>3. CASE Check
  BY <1>3, RecordKept
  DEF Check, Accepted, GivesUp, Unmet, CorrectionFails, Corrects, Moves, Fails, verdict
<1>4. CASE TakeResult
  <2> DEFINE call == calls[taken + 1]
  <2>1. /\ pc = "calls" /\ pc' = "calls" /\ calls' = calls /\ taken' = taken + 1
        /\ sick' = sick /\ failed' = failed /\ hadFailure' = (hadFailure \/ call.st # "ok")
    BY <1>4 DEF TakeResult, control
  <2>2. Untaken => Untaken' \/ call.st # "ok"
    BY <1>0, <2>1 DEF Untaken, TurnTypes
  <2>3. hadFailure \/ call.st # "ok" => hadFailure'
    BY <2>1, Zenon
  <2>4. failed => failed'
    BY <2>1, Zenon
  <2>5. sick' # {} => hadFailure' \/ failed' \/ Untaken'
    BY <2>1, <2>2, <2>3, <2>4 DEF CleanInv
  <2>6. QED
    BY <2>1, <2>5 DEF CleanInv, SuccessIsClean
<1>5. CASE TurnEnds
  <2>1. /\ pc = "calls" /\ pc' = "step" /\ taken = Len(calls)
        /\ UNCHANGED <<sick, failed, hadFailure>>
    BY <1>5 DEF TurnEnds, Moves, verdict
  <2>2. ~Untaken
    BY <1>0, <2>1 DEF Untaken, TurnTypes
  <2>3. QED
    BY <2>1, <2>2 DEF CleanInv, SuccessIsClean
<1>6. ASSUME NEW i \in DOMAIN calls, Starts(i) PROVE CleanInv'
  <2>1. /\ calls[i].st = "todo" /\ pc = "calls" /\ pc' = "calls"
        /\ calls' = [calls EXCEPT ![i].st = "running"]
        /\ UNCHANGED <<taken, hadFailure, failed, sick>>
    BY <1>6 DEF Starts, MayStart, Becomes, control, verdict
  <2>2. QED
    BY <1>0, <2>1, ChangesOneCall, CallRecorded
<1>7. ASSUME NEW i \in DOMAIN calls, Refused(i) PROVE CleanInv'
  <2>1. /\ calls[i].st = "todo" /\ pc = "calls" /\ pc' = "calls"
        /\ calls' = [calls EXCEPT ![i].st = "refused"]
        /\ UNCHANGED <<taken, hadFailure, failed>>
    BY <1>7 DEF Refused, MayStart, Becomes, control, verdict
  <2>2. "refused" \in Over \ {"ok"}
    BY DEF Over
  <2>3. QED
    BY <1>0, <2>1, <2>2, ChangesOneCall, CallRecorded
<1>8. ASSUME NEW i \in DOMAIN calls, CallRaises(i) PROVE CleanInv'
  <2>1. /\ calls[i].st = "running" /\ pc = "calls"
        /\ UNCHANGED <<taken, hadFailure, failed>>
    BY <1>8 DEF CallRaises, Runs, verdict
  <2>2. CASE Cardinality(Siblings(i)) > 1
    <3>1. pc' = "calls" /\ calls' = [calls EXCEPT ![i].st = "lost"]
      BY <1>8, <2>1, <2>2 DEF CallRaises, Becomes, control
    <3>2. "lost" \in Over \ {"ok"}
      BY DEF Over
    <3>3. QED
      BY <1>0, <2>1, <3>1, <3>2, ChangesOneCall, CallRecorded
  <2>3. CASE ~(Cardinality(Siblings(i)) > 1)
    <3>1. pc' = "raised"
      BY <1>8, <2>3 DEF CallRaises
    <3>2. QED
      BY <3>1 DEF CleanInv, SuccessIsClean
  <2>4. QED
    BY <2>2, <2>3
<1>9. ASSUME NEW i \in DOMAIN calls, NEW st \in Over, ToolReturns(i, st) PROVE CleanInv'
  <2>1. /\ calls[i].st = "running" /\ pc = "calls" /\ pc' = "calls" /\ st \in {"ok", "bad"}
        /\ calls' = [calls EXCEPT ![i].st = st]
        /\ UNCHANGED <<taken, hadFailure, failed>>
    BY <1>9 DEF ToolReturns, Runs, Becomes, control, verdict
  <2>2. sick' = sick \/ st = "bad"
    BY <1>9 DEF ToolReturns
  <2>3. "bad" \in Over \ {"ok"}
    BY DEF Over
  <2>4. QED
    BY <1>0, <2>1, <2>2, <2>3, ChangesOneCall, CallRecorded
<1>10. ASSUME NEW i \in DOMAIN calls, NEW st \in Over, NEW c \in 0..CallCost,
              DecomposeReturns(i, st, c)
       PROVE  CleanInv'
  <2>1. /\ calls[i].st = "running" /\ pc = "calls" /\ pc' = "calls"
        /\ calls' = [calls EXCEPT ![i].st = st]
        /\ UNCHANGED <<taken, hadFailure, failed>>
    BY <1>10 DEF DecomposeReturns, Runs, Becomes, control, verdict
  <2>2. sick' = sick \/ st = "bad"
    BY <1>10 DEF DecomposeReturns
  <2>3. "bad" \in Over \ {"ok"}
    BY DEF Over
  <2>4. QED
    BY <1>0, <2>1, <2>2, <2>3, ChangesOneCall, CallRecorded
<1>11. ASSUME NEW i \in DOMAIN calls, NEW c \in 0..CallCost, DecomposeFails(i, c) PROVE CleanInv'
  <2>1. failed' /\ pc' \in {"items", "end"}
    BY <1>11 DEF DecomposeFails, Fails, LoopEnds
  <2>2. SuccessIsClean'
    BY <2>1 DEF SuccessIsClean
  <2>3. QED
    BY <2>1, <2>2, Zenon DEF CleanInv
<1>12. ASSUME NEW i \in DOMAIN calls, NEW st \in Over, NEW c \in 0..ChildCost,
              ChildReturns(i, st, c)
       PROVE  CleanInv'
  <2>1. /\ calls[i].st = "running" /\ pc = "calls" /\ pc' = "calls"
        /\ st \in {"ok", "unclean", "bad", "lost"}
        /\ UNCHANGED <<taken, hadFailure, failed>>
    BY <1>12 DEF ChildReturns, Runs, control, verdict
  <2>2. PICK k : calls' = [calls EXCEPT ![i].st = st, ![i].cost = k]
    BY <1>12 DEF ChildReturns
  <2>5. sick' = sick \cup (CASE st = "ok" -> {} [] st = "unclean" -> {"child"}
                            [] st = "bad" -> {"call", "childFailed"} [] st = "lost" -> {"call"})
    BY <1>12 DEF ChildReturns
  <2>3. sick' = sick \/ st \in Over \ {"ok"}
    BY <2>5
  <2>4. QED
    BY <1>0, <2>1, <2>2, <2>3, ChangesOneCall, CallRecorded
<1>13. CASE Finishes
  <2>1. /\ pc = "end" /\ pc' \in {"verify", "returned"} /\ sick' = sick
        /\ result'.outcome = Outcome
    BY <1>13 DEF Finishes, Moves
  <2>2. Outcome = "success" => ~failed /\ ~hadFailure
    BY DEF Outcome, Classify
  <2>3. QED
    BY <2>1, <2>2 DEF CleanInv, SuccessIsClean
<1>14. ASSUME NEW s \in Signatures \cup Outcomes, Passes \/ NoProgress(s) PROVE CleanInv'
  BY <1>14 DEF Passes, NoProgress, Rejects, Moves, outer, CleanInv, SuccessIsClean
<1>15. ASSUME NEW s \in Signatures \cup Outcomes, Repairs(s) PROVE CleanInv'
  BY <1>15 DEF Repairs, CleanInv, SuccessIsClean
<1>16. CASE Stops
  BY <1>16 DEF Stops, vars, control, turn, verdict, outer, Ended, CleanInv, SuccessIsClean
<1>17. CASE Dispatch
  BY <1>4, <1>5, <1>6, <1>7, <1>8, <1>9, <1>10, <1>11, <1>12, <1>17 DEF Dispatch
<1>18. CASE Repair
  <2>1. CASE Passes
    BY <2>1 DEF Passes, Moves, outer, CleanInv, SuccessIsClean
  <2>2. QED
    BY <1>13, <1>14, <1>15, <1>18, <2>1 DEF Repair
<1>19. QED
  BY <1>1, <1>2, <1>3, <1>16, <1>17, <1>18 DEF Next

(* What an attempt reports as "success" had no call that failed, and no     *)
(* sub-agent that was less than a success.                                  *)
THEOREM SuccessClean == Spec => []SuccessIsClean
<1>1. Init => CleanInv
  BY DEF Init, CleanInv, SuccessIsClean
<1>2. CleanInv /\ TInv /\ [Next]_vars => CleanInv'
  <2>1. ASSUME CleanInv, UNCHANGED vars PROVE CleanInv'
    BY <2>1 DEF vars, control, turn, verdict, outer, CleanInv, SuccessIsClean, Untaken
  <2>2. QED
    BY <2>1, CleanKeeps
<1>3. CleanInv => SuccessIsClean
  BY DEF CleanInv
<1>4. QED
  BY <1>1, <1>2, <1>3, Typed, PTL DEF Spec

-----------------------------------------------------------------------------
(* The cap.  A call of the turn is paid once: decompose when it returns, a  *)
(* sub-agent when its result is taken.                                      *)
Dear == Max2(CallCost, ChildCost)

TurnCost == Max2(CallCost, MaxCalls * Dear)

Paid == {i \in DOMAIN calls :
            IF calls[i].kind = "decompose" THEN calls[i].st \in Over ELSE i <= taken}

CapInv ==
    /\ pc \in {"start", "plan"} => own = 0
    /\ pc = "check" => own <= Cap + CallCost
    /\ pc = "calls" => /\ Len(calls) <= MaxCalls
                       /\ own <= Cap + CallCost + Dear * Cardinality(Paid)
                       /\ \A i \in DOMAIN calls : calls[i].kind = "decompose" => calls[i].cost = 0
    /\ OverrunIsOneTurn

LEMMA CapTypes ==
    /\ Cap \in Nat /\ CallCost \in Nat /\ ChildCost \in Nat /\ MaxCalls \in Nat
    /\ Dear \in Nat /\ CallCost <= Dear /\ ChildCost <= Dear
    /\ TurnCost \in Nat /\ CallCost <= TurnCost /\ MaxCalls * Dear <= TurnCost
<1>1. Cap \in Nat /\ CallCost \in Nat /\ ChildCost \in Nat /\ MaxCalls \in Nat
  BY AgentAssumption DEF AgentAssumption
<1>2. Dear \in Nat /\ CallCost <= Dear /\ ChildCost <= Dear
  BY <1>1 DEF Dear, Max2
<1> DEFINE p == MaxCalls * Dear
<1>3. p \in Nat
  BY <1>1, <1>2, SMTT(30)
<1> HIDE DEF p
<1>4. TurnCost = IF CallCost > p THEN CallCost ELSE p
  BY DEF TurnCost, Max2, p
<1>5. TurnCost \in Nat /\ CallCost <= TurnCost /\ p <= TurnCost
  BY <1>1, <1>3, <1>4
<1>6. QED
  BY <1>1, <1>2, <1>5 DEF p

LEMMA OverrunBound == OverrunIsOneTurn <=> own <= Cap + CallCost + TurnCost
  BY DEF OverrunIsOneTurn, TurnCost, Dear

(* As many calls as a turn may have cost no more than a turn.               *)
LEMMA DearTimes ==
    ASSUME NEW n \in Nat
    PROVE  /\ Dear * n \in Nat /\ Dear * (n + 1) = Dear * n + Dear /\ Dear * 0 = 0
           /\ \A m \in Nat : n <= m => Dear * n <= Dear * m
           /\ n <= MaxCalls => Dear * n <= TurnCost
<1>1. Dear \in Nat /\ MaxCalls \in Nat /\ TurnCost \in Nat /\ MaxCalls * Dear <= TurnCost
  BY CapTypes
<1>2. Dear * n \in Nat /\ Dear * (n + 1) = Dear * n + Dear /\ Dear * 0 = 0
  BY <1>1, SMTT(30)
<1>3. ASSUME NEW m \in Nat, n <= m PROVE Dear * n <= Dear * m
  <2>1. m - n \in Nat /\ Dear * (m - n) >= 0
    BY <1>1, <1>3, SMTT(30)
  <2>2. Dear * (m - n) = Dear * m - Dear * n
    BY <1>1, SMTT(30)
  <2>3. Dear * m \in Int /\ Dear * n \in Int
    BY <1>1, SMTT(30)
  <2>4. QED
    BY <2>1, <2>2, <2>3
<1>4. ASSUME n <= MaxCalls PROVE Dear * n <= TurnCost
  <2>1. Dear * MaxCalls = MaxCalls * Dear /\ Dear * MaxCalls \in Int
    BY <1>1, SMTT(30)
  <2>2. QED
    BY <1>1, <1>2, <1>3, <1>4, <2>1
<1>5. QED
  BY <1>2, <1>3, <1>4

LEMMA PaidIsFinite ==
    ASSUME calls \in Seq(Call)
    PROVE  /\ IsFiniteSet(Paid) /\ Cardinality(Paid) \in Nat
           /\ \A S \in SUBSET DOMAIN calls : IsFiniteSet(S) /\ Cardinality(S) \in 0..Len(calls)
<1>1. DOMAIN calls = 1..Len(calls) /\ Len(calls) \in Nat
  OBVIOUS
<1>2. IsFiniteSet(DOMAIN calls) /\ Cardinality(DOMAIN calls) = Len(calls)
  BY <1>1, FS_Interval
<1>3. \A S \in SUBSET DOMAIN calls :
         IsFiniteSet(S) /\ Cardinality(S) <= Len(calls) /\ Cardinality(S) \in Nat
  BY <1>2, FS_Subset, FS_CardinalityType
<1>4. Paid \in SUBSET DOMAIN calls
  BY DEF Paid
<1>5. QED
  BY <1>1, <1>3, <1>4

(* Outside of the calls: nothing is paid, or one call of the model by an    *)
(* attempt that has not reached the cap.                                    *)
LEMMA CapOutside ==
    ASSUME CapInv, MoneyTypes, pc # "calls", pc' \notin {"calls", "check", "start", "plan"},
           \/ own' = own
           \/ own <= Cap + CallCost /\ \E c \in 0..CallCost : own' = own + c
    PROVE  CapInv'
<1>1. own \in Nat /\ own <= Cap + CallCost + TurnCost
  BY OverrunBound DEF CapInv, MoneyTypes
<1>2. own' <= Cap + CallCost + TurnCost
  BY <1>1, CapTypes
<1>3. OverrunIsOneTurn'
  BY <1>2 DEF OverrunIsOneTurn, TurnCost, Dear
<1>4. QED
  BY <1>3 DEF CapInv

(* A call goes on or ends, and is not paid.                                 *)
LEMMA CapCall ==
    ASSUME CapInv, TurnTypes, own \in Nat, NEW i \in DOMAIN calls, NEW st, OnlyCall(i, st), calls' \in Seq(Call),
           calls[i].st \notin Over, pc = "calls", pc' = "calls", taken' = taken,
           \/ own' = own /\ calls[i].kind # "decompose"
           \/ own' = own /\ calls'[i].cost = calls[i].cost /\ st = "running"
           \/ /\ calls[i].kind = "decompose" /\ st \in Over
              /\ calls'[i].cost = calls[i].cost /\ \E c \in 0..CallCost : own' = own + c
    PROVE  CapInv'
<1>0. /\ Len(calls) <= MaxCalls /\ own <= Cap + CallCost + Dear * Cardinality(Paid)
      /\ \A j \in DOMAIN calls : calls[j].kind = "decompose" => calls[j].cost = 0
      /\ calls \in Seq(Call)
  BY DEF CapInv, TurnTypes
<1>1. Len(calls') = Len(calls) /\ DOMAIN calls' = DOMAIN calls
  BY <1>0 DEF OnlyCall
<1>2. \A j \in DOMAIN calls' : calls'[j].kind = "decompose" => calls'[j].cost = 0
  BY <1>0 DEF OnlyCall
<1>3. IsFiniteSet(Paid) /\ Cardinality(Paid) \in Nat
  BY <1>0, PaidIsFinite
<1>4. Cardinality(Paid') \in 0..Len(calls) /\ IsFiniteSet(Paid')
  <2>1. Paid' \in SUBSET DOMAIN calls
    BY <1>1 DEF Paid
  <2>2. QED
    BY <1>0, <2>1, PaidIsFinite
<1>5. own' <= Cap + CallCost + Dear * Cardinality(Paid')
  <2>1. CASE own' = own
    <3>1. Paid \subseteq Paid'
      BY DEF Paid, OnlyCall
    <3>2. Cardinality(Paid) <= Cardinality(Paid')
      BY <1>4, <3>1, FS_Subset
    <3>3. Dear * Cardinality(Paid) <= Dear * Cardinality(Paid') /\ Dear * Cardinality(Paid) \in Nat
          /\ Dear * Cardinality(Paid') \in Nat
      BY <1>3, <1>4, <3>2, DearTimes
    <3> DEFINE d == Dear * Cardinality(Paid)
               e == Dear * Cardinality(Paid')
    <3> HIDE DEF d, e
    <3>4. d \in Nat /\ e \in Nat /\ d <= e /\ own <= Cap + CallCost + d
      BY <1>0, <3>3 DEF d, e
    <3>5. own' <= Cap + CallCost + e
      BY <2>1, <3>4, CapTypes
    <3>6. QED
      BY <3>5 DEF e
  <2>2. ASSUME calls[i].kind = "decompose", st \in Over,
               NEW c \in 0..CallCost, own' = own + c
        PROVE  own' <= Cap + CallCost + Dear * Cardinality(Paid')
    <3>1. Paid' = Paid \cup {i} /\ i \notin Paid
      BY <2>2 DEF Paid, OnlyCall
    <3>2. Cardinality(Paid') = Cardinality(Paid) + 1
      BY <1>3, <3>1, FS_AddElement
    <3>3. Dear * Cardinality(Paid') = Dear * Cardinality(Paid) + Dear /\ Dear * Cardinality(Paid) \in Nat
      BY <1>3, <3>2, DearTimes
    <3>4. QED
      BY <1>0, <2>2, <3>3, CapTypes
  <2>3. QED
    BY <2>1, <2>2
<1>6. own' <= Cap + CallCost + TurnCost
  <2>1. Cardinality(Paid') \in Nat /\ Cardinality(Paid') <= MaxCalls
    BY <1>0, <1>4, CapTypes
  <2>2. Dear * Cardinality(Paid') <= TurnCost /\ Dear * Cardinality(Paid') \in Nat
    BY <2>1, DearTimes
  <2>3. own' \in Nat
    BY CapTypes
  <2> DEFINE d == Dear * Cardinality(Paid')
  <2> HIDE DEF d
  <2>4. d \in Nat /\ d <= TurnCost /\ own' <= Cap + CallCost + d
    BY <1>5, <2>2 DEF d
  <2>5. QED
    BY <2>3, <2>4, CapTypes
<1>7. OverrunIsOneTurn'
  BY <1>6 DEF OverrunIsOneTurn, TurnCost, Dear
<1>8. QED
  BY <1>0, <1>1, <1>2, <1>5, <1>7 DEF CapInv

LEMMA CapKeeps == CapInv /\ TInv /\ Next => CapInv'
<1> SUFFICES ASSUME CapInv, TInv, Next PROVE CapInv'
  OBVIOUS
<1>0. /\ TurnTypes /\ MoneyTypes /\ own \in Nat /\ calls \in Seq(Call)
      /\ "todo" \notin Over /\ "running" \notin Over
  BY DEF TInv, Over, MoneyTypes, TurnTypes
<1>00. (own' = own \/ own' = 0) /\ pc' \in {"start", "plan"} => (own' = 0 => CapInv')
  BY CapTypes DEF CapInv, OverrunIsOneTurn, TurnCost, Dear
<1>1. CASE Planned
  BY <1>1, <1>00 DEF Planned, Moves, money, CapInv
<1>2. CASE Unplanned \/ StartItem \/ PlanEnds
  BY <1>0, <1>2, CapOutside DEF Unplanned, StartItem, PlanEnds, Moves, money
<1>3. ASSUME NEW c \in 0..CallCost, NEW n \in 1..MaxItems, PlanFails(c) \/ Plan(n, c) PROVE CapInv'
  <2>1. pc = "plan" /\ pc' \in {"end", "items"} /\ own' = own + c
    BY <1>3 DEF PlanFails, Plan, Moves, Pays
  <2>2. own <= Cap + CallCost
    BY <2>1, CapTypes DEF CapInv
  <2>3. QED
    BY <1>0, <2>1, <2>2, CapOutside
<1>4. CASE OverBudget \/ OutOfSteps
  <2>1. pc = "step" /\ pc' \in {"check", "end", "items"} /\ own' = own
    BY <1>4 DEF OverBudget, OutOfSteps, Step, LoopEnds, money
  <2>2. pc' # "check"
    BY <1>4 DEF OverBudget, OutOfSteps, LoopEnds
  <2>3. QED
    BY <1>0, <2>1, <2>2, CapOutside
<1>5. ASSUME NEW c \in 0..CallCost, LlmFails(c) \/ SaysNothing(c) PROVE CapInv'
  <2>1. pc = "step" /\ own < Cap /\ own' = own + c
    <3>1. pc = "step" /\ ~Breached /\ Pays(c)
      BY <1>5 DEF LlmFails, SaysNothing, Step
    <3>2. QED
      BY <1>0, <3>1, CapTypes DEF Breached, Pays
  <2>2. pc' \in {"end", "items", "raised"}
    BY <1>5 DEF LlmFails, SaysNothing, LoopEnds
  <2>3. own <= Cap + CallCost
    BY <1>0, <2>1, CapTypes
  <2>4. QED
    BY <1>0, <2>1, <2>2, <2>3, CapOutside
<1>6. ASSUME NEW c \in 0..CallCost, Answers(c) PROVE CapInv'
  <2>1. own < Cap /\ own' = own + c
    BY <1>0, <1>6, CapTypes DEF Answers, Breached, Pays
  <2>2. pc' \in {"check", "items"}
    BY <1>6 DEF Answers, LoopEnds
  <2>3. own' <= Cap + CallCost /\ own' <= Cap + CallCost + TurnCost
    BY <1>0, <2>1, CapTypes
  <2>4. QED
    BY <2>2, <2>3 DEF CapInv, OverrunIsOneTurn, TurnCost, Dear
<1>7. ASSUME NEW c \in 0..CallCost, NEW ks \in Turns, CallsTools(c, ks) PROVE CapInv'
  <2>1. /\ own < Cap /\ own' = own + c /\ pc = "step" /\ pc' = "calls" /\ taken' = taken
        /\ calls' = [i \in DOMAIN ks |-> [kind |-> ks[i], st |-> "todo", cost |-> 0]]
    BY <1>0, <1>7, CapTypes DEF CallsTools, Step, Breached, Pays
  <2>2. PICK n \in 1..MaxCalls : ks \in [1..n -> Offered]
    BY DEF Turns
  <2>3. n \in Nat /\ DOMAIN calls' = 1..n /\ Len(calls') <= MaxCalls
    <3>1. n \in Nat /\ n <= MaxCalls /\ DOMAIN ks = 1..n
      BY <2>2, CapTypes
    <3>2. calls' = [i \in 1..n |-> [kind |-> ks[i], st |-> "todo", cost |-> 0]]
      BY <2>1, <3>1
    <3>3. Len(calls') = n
      BY <3>1, <3>2
    <3>4. QED
      BY <3>1, <3>2, <3>3
  <2>4. \A i \in DOMAIN calls' : calls'[i].cost = 0
    BY <2>1
  <2>5. Paid' = {}
    <3>1. taken' = 0
      BY <1>0, <2>1 DEF TurnTypes
    <3>2. \A i \in DOMAIN calls' : calls'[i].st = "todo" /\ i \in Nat /\ i > 0
      BY <2>1, <2>3
    <3>3. \A i \in DOMAIN calls' : calls'[i].st \notin Over /\ ~(i <= taken')
      BY <3>1, <3>2 DEF Over
    <3>4. QED
      BY <3>3 DEF Paid
  <2>6. Dear * Cardinality(Paid') = 0
    BY <2>5, FS_EmptySet, DearTimes
  <2>7. own' <= Cap + CallCost /\ own' <= Cap + CallCost + TurnCost
    BY <1>0, <2>1, CapTypes
  <2>8. QED
    BY <2>1, <2>3, <2>4, <2>6, <2>7, CapTypes DEF CapInv, OverrunIsOneTurn, TurnCost, Dear
<1>8. CASE TakeResult
  <2> DEFINE k == taken + 1
  <2>1. /\ pc = "calls" /\ pc' = "calls" /\ calls' = calls /\ taken' = k /\ AllOver
        /\ own' = own + calls[k].cost /\ k \in DOMAIN calls /\ taken \in Nat
    BY <1>0, <1>8 DEF TakeResult, control, TurnTypes
  <2>2. calls[k] \in Call /\ calls[k].cost \in 0..ChildCost /\ calls[k].st \in Over
    <3>1. calls[k] \in Call
      BY <1>0, <2>1
    <3>2. QED
      BY <2>1, <3>1 DEF Call, AllOver
  <2>3. /\ Len(calls) <= MaxCalls /\ own <= Cap + CallCost + Dear * Cardinality(Paid)
        /\ \A j \in DOMAIN calls : calls[j].kind = "decompose" => calls[j].cost = 0
    BY <2>1 DEF CapInv
  <2>4. IsFiniteSet(Paid) /\ Cardinality(Paid) \in Nat /\ Paid' \in SUBSET DOMAIN calls
    BY <1>0, <2>1, PaidIsFinite DEF Paid
  <2>5. own' <= Cap + CallCost + Dear * Cardinality(Paid')
    <3>1. CASE calls[k].kind = "decompose"
      <4>1. Paid' = Paid
        BY <1>0, <2>1, <3>1 DEF Paid
      <4>2. own' = own
        BY <1>0, <2>1, <2>3, <3>1
      <4>3. QED
        BY <2>3, <4>1, <4>2
    <3>2. CASE calls[k].kind # "decompose"
      <4>1. Paid' = Paid \cup {k} /\ k \notin Paid
        BY <1>0, <2>1, <3>2 DEF Paid
      <4>2. Cardinality(Paid') = Cardinality(Paid) + 1
        BY <2>4, <4>1, FS_AddElement
      <4>3. Dear * Cardinality(Paid') = Dear * Cardinality(Paid) + Dear /\ Dear * Cardinality(Paid) \in Nat
        BY <2>4, <4>2, DearTimes
      <4> DEFINE d == Dear * Cardinality(Paid)
      <4> HIDE DEF d
      <4>4. d \in Nat /\ own <= Cap + CallCost + d /\ Dear * Cardinality(Paid') = d + Dear
        BY <2>3, <4>3 DEF d
      <4>5. QED
        BY <1>0, <2>1, <2>2, <4>4, CapTypes
    <3>3. QED
      BY <3>1, <3>2
  <2>6. Cardinality(Paid') \in Nat /\ Cardinality(Paid') <= MaxCalls
    BY <1>0, <2>3, <2>4, PaidIsFinite, CapTypes
  <2>7. Dear * Cardinality(Paid') <= TurnCost /\ Dear * Cardinality(Paid') \in Nat
    BY <2>6, DearTimes
  <2>8. own' \in Nat
    BY <1>0, <2>1, <2>2, CapTypes
  <2> DEFINE d == Dear * Cardinality(Paid')
  <2> HIDE DEF d
  <2>9. d \in Nat /\ d <= TurnCost /\ own' <= Cap + CallCost + d
    BY <2>5, <2>7 DEF d
  <2>10. own' <= Cap + CallCost + TurnCost
    BY <2>8, <2>9, CapTypes
  <2>11. QED
    BY <2>1, <2>3, <2>5, <2>10 DEF CapInv, OverrunIsOneTurn, TurnCost, Dear
<1>9. CASE TurnEnds
  BY <1>9 DEF TurnEnds, Moves, money, CapInv, OverrunIsOneTurn
<1>10. ASSUME NEW i \in DOMAIN calls, Starts(i) PROVE CapInv'
  <2>1. /\ calls[i].st = "todo" /\ pc = "calls" /\ pc' = "calls" /\ own' = own /\ taken' = taken
        /\ calls' = [calls EXCEPT ![i].st = "running"]
    BY <1>10 DEF Starts, MayStart, Becomes, control, money
  <2>2. OnlyCall(i, "running") /\ calls'[i].cost = calls[i].cost
    BY <1>0, <2>1, ChangesOneCall
  <2>3. calls' \in Seq(Call)
    BY <1>0, <2>1, CallBecomes, Zenon DEF Statuses
  <2>4. QED
    BY <1>0, <2>1, <2>2, <2>3, CapCall
<1>11. ASSUME NEW i \in DOMAIN calls, Refused(i) PROVE CapInv'
  <2>1. /\ calls[i].st = "todo" /\ pc = "calls" /\ pc' = "calls" /\ own' = own /\ taken' = taken
        /\ calls' = [calls EXCEPT ![i].st = "refused"]
    BY <1>11 DEF Refused, MayStart, Becomes, control, money
  <2>2. OnlyCall(i, "refused") /\ calls[i].kind # "decompose"
    BY <1>0, <1>11, <2>1, ChangesOneCall, AgentAssumption DEF Refused, Spawns, AgentAssumption
  <2>3. "refused" \in Statuses
    BY DEF Statuses, Over
  <2>4. calls' \in Seq(Call)
    BY <1>0, <2>1, <2>3, CallBecomes, Zenon
  <2>5. QED
    BY <1>0, <2>1, <2>2, <2>4, CapCall
<1>12. ASSUME NEW i \in DOMAIN calls, CallRaises(i) PROVE CapInv'
  <2>1. /\ calls[i].st = "running" /\ pc = "calls" /\ own' = own /\ taken' = taken
        /\ calls[i].kind # "decompose"
    BY <1>12 DEF CallRaises, Runs, money
  <2>2. CASE pc' = "raised"
    BY <2>1, <2>2 DEF CapInv, OverrunIsOneTurn
  <2>3. CASE pc' # "raised"
    <3>1. calls' = [calls EXCEPT ![i].st = "lost"] /\ pc' = "calls"
      BY <1>12, <2>1, <2>3 DEF CallRaises, Becomes, control
    <3>2. "lost" \in Statuses
      BY DEF Statuses, Over
    <3>3. calls' \in Seq(Call)
      BY <1>0, <3>1, <3>2, CallBecomes, Zenon
    <3>4. OnlyCall(i, "lost")
      BY <1>0, <3>1, ChangesOneCall
    <3>5. QED
      BY <1>0, <2>1, <3>1, <3>3, <3>4, CapCall
  <2>4. QED
    BY <2>2, <2>3
<1>13. ASSUME NEW i \in DOMAIN calls, NEW st \in Over, ToolReturns(i, st) PROVE CapInv'
  <2>1. /\ calls[i].st = "running" /\ pc = "calls" /\ pc' = "calls" /\ own' = own /\ taken' = taken
        /\ calls' = [calls EXCEPT ![i].st = st] /\ calls[i].kind # "decompose"
    BY <1>13 DEF ToolReturns, Runs, Becomes, control, money
  <2>2. OnlyCall(i, st) /\ st \in Statuses
    BY <1>0, <2>1, ChangesOneCall DEF Statuses
  <2>3. calls' \in Seq(Call)
    BY <1>0, <2>1, <2>2, CallBecomes, Zenon
  <2>4. QED
    BY <1>0, <2>1, <2>2, <2>3, CapCall
<1>14. ASSUME NEW i \in DOMAIN calls, NEW st \in Over, NEW c \in 0..CallCost,
              DecomposeReturns(i, st, c)
       PROVE  CapInv'
  <2>1. /\ calls[i].st = "running" /\ pc = "calls" /\ pc' = "calls" /\ own' = own + c /\ taken' = taken
        /\ calls' = [calls EXCEPT ![i].st = st] /\ calls[i].kind = "decompose"
    BY <1>14 DEF DecomposeReturns, Runs, Becomes, control, Pays
  <2>2. OnlyCall(i, st) /\ st \in Statuses /\ calls'[i].cost = calls[i].cost
    BY <1>0, <2>1, ChangesOneCall DEF Statuses
  <2>3. calls' \in Seq(Call)
    BY <1>0, <2>1, <2>2, CallBecomes, Zenon
  <2>4. QED
    BY <1>0, <2>1, <2>2, <2>3, CapCall
<1>15. ASSUME NEW i \in DOMAIN calls, NEW c \in 0..CallCost, DecomposeFails(i, c) PROVE CapInv'
  <2>1. /\ calls[i].st = "running" /\ pc = "calls" /\ own' = own + c
        /\ calls[i].kind = "decompose" /\ pc' \in {"end", "items"}
    BY <1>15 DEF DecomposeFails, Runs, Pays, LoopEnds
  <2>2. Len(calls) <= MaxCalls /\ own <= Cap + CallCost + Dear * Cardinality(Paid)
    BY <2>1 DEF CapInv
  <2>3. IsFiniteSet(Paid) /\ Cardinality(Paid) \in Nat /\ Paid \in SUBSET DOMAIN calls
    BY <1>0, PaidIsFinite DEF Paid
  <2>4. Cardinality(Paid \cup {i}) = Cardinality(Paid) + 1
    <3>1. i \notin Paid
      BY <1>0, <2>1 DEF Paid
    <3>2. QED
      BY <2>3, <3>1, FS_AddElement
  <2>5. Cardinality(Paid) + 1 <= MaxCalls
    <3>1. Cardinality(Paid \cup {i}) \in 0..Len(calls)
      BY <1>0, <2>3, PaidIsFinite
    <3>2. QED
      BY <1>0, <2>2, <2>3, <2>4, <3>1, CapTypes
  <2>6. Dear * (Cardinality(Paid) + 1) <= TurnCost
    BY <2>3, <2>5, DearTimes
  <2>7. Dear * (Cardinality(Paid) + 1) = Dear * Cardinality(Paid) + Dear /\ Dear * Cardinality(Paid) \in Nat
    BY <2>3, DearTimes
  <2> DEFINE d == Dear * Cardinality(Paid)
  <2> HIDE DEF d
  <2>8. d \in Nat /\ d + Dear <= TurnCost /\ own <= Cap + CallCost + d
    BY <2>2, <2>6, <2>7 DEF d
  <2>9. own' <= Cap + CallCost + TurnCost
    BY <1>0, <2>1, <2>8, CapTypes
  <2>10. QED
    BY <2>1, <2>9 DEF CapInv, OverrunIsOneTurn, TurnCost, Dear
<1>16. ASSUME NEW i \in DOMAIN calls, NEW st \in Over, NEW c \in 0..ChildCost,
              ChildReturns(i, st, c)
       PROVE  CapInv'
  <2>1. /\ calls[i].st = "running" /\ pc = "calls" /\ pc' = "calls" /\ own' = own /\ taken' = taken
        /\ calls[i].kind # "decompose" /\ st \in Statuses
    BY <1>16, AgentAssumption
    DEF ChildReturns, Runs, control, Agents, Spawns, AgentAssumption, Statuses
  <2>2. PICK k \in 0..ChildCost : calls' = [calls EXCEPT ![i].st = st, ![i].cost = k]
    <3>1. calls' = [calls EXCEPT ![i].st = st, ![i].cost = IF st = "lost" THEN 0 ELSE c]
      BY <1>16 DEF ChildReturns
    <3>2. (IF st = "lost" THEN 0 ELSE c) \in 0..ChildCost
      BY CapTypes
    <3>3. QED
      BY <3>1, <3>2, Zenon
  <2>3. OnlyCall(i, st)
    BY <1>0, <2>2, ChangesOneCall
  <2>4. calls' \in Seq(Call)
    BY <1>0, <2>1, <2>2, CallBecomes, Zenon
  <2>5. QED
    BY <1>0, <2>1, <2>3, <2>4, CapCall
<1>17. CASE Accepted \/ GivesUp \/ Unmet
  BY <1>0, <1>17, CapOutside DEF Accepted, GivesUp, Unmet, Moves, money
<1>18. ASSUME NEW c \in 0..CallCost, NEW a \in BOOLEAN, CorrectionFails(c) \/ Corrects(c, a)
       PROVE  CapInv'
  <2>1. pc = "check" /\ own <= Cap + CallCost /\ own' = own + c
    BY <1>18 DEF CorrectionFails, Corrects, Moves, Pays, CapInv
  <2>2. CASE pc' # "check"
    <3>1. pc' \in {"end", "unmet"}
      BY <1>18, <2>2 DEF CorrectionFails, Corrects, Moves
    <3>2. QED
      BY <1>0, <2>1, <3>1, CapOutside
  <2>3. CASE pc' = "check"
    <3>1. own' < Cap
      BY <1>18, <2>1, <2>3 DEF CorrectionFails, Corrects, Moves
    <3>2. own' \in Nat /\ own' <= Cap + CallCost /\ own' <= Cap + CallCost + TurnCost
      BY <1>0, <2>1, <3>1, CapTypes
    <3>3. QED
      BY <2>3, <3>2 DEF CapInv, OverrunIsOneTurn, TurnCost, Dear
  <2>4. QED
    BY <2>2, <2>3
<1>19. CASE Finishes \/ Passes
  BY <1>0, <1>19, CapOutside DEF Finishes, Passes, Moves, money
<1>20. ASSUME NEW s \in Signatures \cup Outcomes, NoProgress(s) \/ Repairs(s) PROVE CapInv'
  <2>1. CASE NoProgress(s)
    BY <1>0, <2>1, CapOutside DEF NoProgress, Rejects, money
  <2>2. CASE Repairs(s)
    BY <2>2, <1>00 DEF Repairs
  <2>3. QED
    BY <1>20, <2>1, <2>2
<1>21. CASE Stops
  BY <1>21 DEF Stops, vars, control, turn, money, Ended, CapInv, OverrunIsOneTurn
<1>22. CASE Attempt
  BY <1>1, <1>2, <1>3, <1>22, AgentAssumption DEF Attempt, AgentAssumption
<1>23. CASE Loop
  BY <1>4, <1>5, <1>6, <1>7, <1>23 DEF Loop
<1>24. CASE Dispatch
  BY <1>8, <1>9, <1>10, <1>11, <1>12, <1>13, <1>14, <1>15, <1>16, <1>24 DEF Dispatch
<1>25. CASE Check
  BY <1>17, <1>18, <1>25 DEF Check
<1>26. CASE Repair
  BY <1>19, <1>20, <1>26 DEF Repair
<1>27. QED
  BY <1>21, <1>22, <1>23, <1>24, <1>25, <1>26 DEF Next

(* Whatever the costs, the cap is overrun by the model call in hand, and by *)
(* one turn of calls or one more call of the model.                         *)
THEOREM OverrunBounded == Spec => []OverrunIsOneTurn
<1>1. Init => CapInv
  BY CapTypes DEF Init, CapInv, OverrunIsOneTurn, TurnCost, Dear
<1>2. CapInv /\ TInv /\ [Next]_vars => CapInv'
  <2>1. ASSUME CapInv, UNCHANGED vars PROVE CapInv'
    BY <2>1 DEF vars, control, turn, money, CapInv, OverrunIsOneTurn, Paid
  <2>2. QED
    BY <2>1, CapKeeps
<1>3. CapInv => OverrunIsOneTurn
  BY DEF CapInv
<1>4. QED
  BY <1>1, <1>2, <1>3, Typed, PTL DEF Spec

-----------------------------------------------------------------------------
(* The pool.  A call that has started had everything ahead of it over, so   *)
(* two calls that run are of one group, which the pool bounds.              *)
Live == {i \in DOMAIN calls : calls[i].st = "running"}

PoolInv ==
    /\ \A i \in DOMAIN calls : calls[i].st # "todo" => \A j \in Ahead(i) : calls[j].st \in Over
    /\ PoolBoundsTheTurn

LEMMA LeastOf ==
    ASSUME NEW S \in SUBSET Nat, S # {}
    PROVE  \E m \in S : \A n \in S : m <= n
<1> DEFINE R == {p \in Nat \X Nat : p[1] < p[2]}
<1>1. IsWellFoundedOn(R, Nat)
  BY NatLessThanWellFounded DEF OpToRel
<1> HIDE DEF R
<1>2. PICK m \in S : \A n \in S : <<n, m>> \notin R
  BY <1>1, WFMin
<1>3. \A n \in S : ~(n < m)
  BY <1>2 DEF R
<1>4. \A n \in S : n \in Nat /\ m \in Nat
  OBVIOUS
<1>5. QED
  BY <1>3, <1>4

(* Of two calls that are not of one group, one is ahead of the other.       *)
LEMMA OneIsAhead ==
    ASSUME calls \in Seq(Call), NEW i \in DOMAIN calls, NEW j \in DOMAIN calls, i # j,
           j \notin Siblings(i) \/ Serial(i)
    PROVE  i \in Ahead(j) \/ j \in Ahead(i)
<1>0. DOMAIN calls \subseteq Nat
  OBVIOUS
<1>1. CASE Serial(i) \/ Serial(j)
  BY <1>0, <1>1 DEF Ahead
<1>2. CASE ~Serial(i) /\ ~Serial(j)
  <2>1. /\ i \in Siblings(i) /\ j \in Siblings(j) /\ j \notin Siblings(i) /\ i \notin Siblings(j)
        /\ Siblings(i) \subseteq Nat /\ Siblings(j) \subseteq Nat
        /\ Siblings(i) \cap Siblings(j) = {}
    BY <1>0, <1>2 DEF Siblings
  <2>2. PICK k \in Siblings(i) : \A l \in Siblings(i) : k <= l
    BY <2>1, LeastOf
  <2>3. PICK m \in Siblings(j) : \A l \in Siblings(j) : m <= l
    BY <2>1, LeastOf
  <2>4. k # m /\ k \in Nat /\ m \in Nat
    BY <2>1
  <2>5. CASE k < m
    <3>1. \A l \in Siblings(j) : k < l
      BY <2>1, <2>3, <2>4, <2>5
    <3>2. GroupBefore(i, j)
      BY <3>1 DEF GroupBefore
    <3>3. QED
      BY <1>2, <2>1, <3>2 DEF Ahead
  <2>6. CASE m < k
    <3>1. \A l \in Siblings(i) : m < l
      BY <2>1, <2>2, <2>4, <2>6
    <3>2. GroupBefore(j, i)
      BY <3>1 DEF GroupBefore
    <3>3. QED
      BY <1>2, <2>1, <3>2 DEF Ahead
  <2>7. QED
    BY <2>4, <2>5, <2>6
<1>3. QED
  BY <1>1, <1>2

LEMMA AheadStays ==
    ASSUME NEW i \in DOMAIN calls, NEW st, OnlyCall(i, st)
    PROVE  \A j \in DOMAIN calls : Ahead(j)' = Ahead(j)
<1>1. DOMAIN calls' = DOMAIN calls /\ \A j \in DOMAIN calls : calls'[j].kind = calls[j].kind
  BY DEF OnlyCall
<1>2. \A j \in DOMAIN calls : Serial(j)' = Serial(j) /\ Siblings(j)' = Siblings(j)
  BY <1>1 DEF Serial, Siblings
<1>3. \A j, k \in DOMAIN calls : GroupBefore(j, k)' = GroupBefore(j, k)
  BY <1>2 DEF GroupBefore
<1>4. QED
  BY <1>1, <1>2, <1>3 DEF Ahead

(* A call ends: one less runs, and what others waited for is over.          *)
LEMMA PoolEnds ==
    ASSUME PoolInv, calls \in Seq(Call), NEW i \in DOMAIN calls, NEW st \in Over,
           calls[i].st = "running" \/ MayStart(i), OnlyCall(i, st)
    PROVE  PoolInv'
<1>0. /\ DOMAIN calls' = DOMAIN calls /\ calls'[i].st = st
      /\ \A j \in DOMAIN calls \ {i} : calls'[j] = calls[j]
  BY DEF OnlyCall
<1>1. \A j \in DOMAIN calls : Ahead(j)' = Ahead(j) /\ Ahead(j) \subseteq DOMAIN calls
  BY AheadStays DEF Ahead
<1>2. \A j \in Ahead(i) : calls[j].st \in Over
  BY DEF PoolInv, MayStart
<1>3. \A j \in DOMAIN calls' : calls'[j].st # "todo" => \A k \in Ahead(j)' : calls'[k].st \in Over
  BY <1>0, <1>1, <1>2 DEF PoolInv
<1>4. Live' \subseteq Live
  BY <1>0 DEF Live, Over
<1>5. PoolBoundsTheTurn'
  <2>1. Live \in SUBSET DOMAIN calls
    BY DEF Live
  <2>2. IsFiniteSet(Live) /\ Cardinality(Live) \in Nat
    BY <2>1, PaidIsFinite
  <2>3. Cardinality(Live') <= Cardinality(Live) /\ Cardinality(Live') \in Nat
    BY <1>4, <2>2, FS_Subset, FS_CardinalityType
  <2>4. Cardinality(Live) <= Max2(1, Workers) /\ Max2(1, Workers) \in Nat
    BY AgentAssumption DEF PoolInv, PoolBoundsTheTurn, Live, AgentAssumption, Max2
  <2>5. Cardinality(Live') <= Max2(1, Workers)
    BY <2>2, <2>3, <2>4
  <2>6. QED
    BY <2>5 DEF PoolBoundsTheTurn, Live
<1>6. QED
  BY <1>3, <1>5 DEF PoolInv

(* A call starts: whatever runs beside it is of its group.                  *)
LEMMA PoolStarts ==
    ASSUME PoolInv, calls \in Seq(Call), NEW i \in DOMAIN calls, MayStart(i), OnlyCall(i, "running")
    PROVE  PoolInv'
<1>0. /\ DOMAIN calls' = DOMAIN calls /\ calls'[i].st = "running" /\ calls[i].st = "todo"
      /\ \A j \in DOMAIN calls \ {i} : calls'[j] = calls[j]
      /\ \A j \in Ahead(i) : calls[j].st \in Over
      /\ "running" \notin Over /\ "todo" \notin Over
  BY DEF OnlyCall, MayStart, Over
<1>1. \A j \in DOMAIN calls : Ahead(j)' = Ahead(j) /\ Ahead(j) \subseteq DOMAIN calls /\ j \notin Ahead(j)
  BY AheadStays DEF Ahead
<1>2. \A j \in DOMAIN calls' : calls'[j].st # "todo" => \A k \in Ahead(j)' : calls'[k].st \in Over
  BY <1>0, <1>1 DEF PoolInv
<1>3. Live \in SUBSET DOMAIN calls /\ Live' = Live \cup {i} /\ i \notin Live
  BY <1>0 DEF Live
<1>4. IsFiniteSet(Live) /\ Cardinality(Live) \in Nat
  BY <1>3, PaidIsFinite
<1>5. Cardinality(Live') = Cardinality(Live) + 1
  BY <1>3, <1>4, FS_AddElement
<1>6. \A j \in Live : j \in Siblings(i) /\ ~Serial(i)
  <2>1. SUFFICES ASSUME NEW j \in Live, j \notin Siblings(i) \/ Serial(i) PROVE FALSE
    OBVIOUS
  <2>2. j \in DOMAIN calls /\ calls[j].st = "running" /\ i # j
    BY <1>0 DEF Live
  <2>3. i \in Ahead(j) \/ j \in Ahead(i)
    BY <2>1, <2>2, OneIsAhead
  <2>4. QED
    BY <1>0, <2>2, <2>3 DEF PoolInv
<1>7. Max2(1, Workers) \in Nat /\ Max2(1, Workers) >= 1
  BY AgentAssumption DEF AgentAssumption, Max2
<1>8. Cardinality(Live') <= Max2(1, Workers)
  <2>1. CASE Live = {}
    BY <1>4, <1>5, <1>7, <2>1, FS_EmptySet
  <2>2. CASE Live # {}
    <3>1. {j \in Siblings(i) : calls[j].st = "running"} = Live
      BY <1>6 DEF Live, Siblings
    <3>2. Cardinality(Live) < Max2(1, Workers)
      BY <3>1 DEF MayStart
    <3>3. QED
      BY <1>4, <1>5, <1>7, <3>2
  <2>3. QED
    BY <2>1, <2>2
<1>9. QED
  BY <1>2, <1>8 DEF PoolInv, PoolBoundsTheTurn, Live

LEMMA PoolKeeps == PoolInv /\ TInv /\ Next => PoolInv'
<1> SUFFICES ASSUME PoolInv, TInv, Next PROVE PoolInv'
  OBVIOUS
<1>0. TurnTypes /\ calls \in Seq(Call)
  BY DEF TInv, TurnTypes
<1>1. CASE calls' = calls
  BY <1>1 DEF PoolInv, PoolBoundsTheTurn, Ahead, Serial, Siblings, GroupBefore
<1>2. CASE \A i \in DOMAIN calls' : calls'[i].st = "todo"
  <2>1. {i \in DOMAIN calls' : calls'[i].st = "running"} = {}
    BY <1>2
  <2>2. PoolBoundsTheTurn'
    BY <2>1, FS_EmptySet, AgentAssumption DEF PoolBoundsTheTurn, Max2, AgentAssumption
  <2>3. QED
    BY <1>2, <2>2 DEF PoolInv
<1>3. ASSUME NEW i \in DOMAIN calls, Starts(i) PROVE PoolInv'
  <2>1. MayStart(i) /\ calls' = [calls EXCEPT ![i].st = "running"]
    BY <1>3 DEF Starts, Becomes
  <2>2. QED
    BY <1>0, <2>1, ChangesOneCall, PoolStarts
<1>4. ASSUME NEW i \in DOMAIN calls, Refused(i) PROVE PoolInv'
  <2>1. MayStart(i) /\ calls' = [calls EXCEPT ![i].st = "refused"] /\ "refused" \in Over
    BY <1>4 DEF Refused, Becomes, Over
  <2>2. QED
    BY <1>0, <2>1, ChangesOneCall, PoolEnds
<1>5. ASSUME NEW i \in DOMAIN calls, CallRaises(i) PROVE PoolInv'
  <2>1. calls[i].st = "running" /\ "lost" \in Over
        /\ (calls' = calls \/ calls' = [calls EXCEPT ![i].st = "lost"])
    BY <1>5 DEF CallRaises, Runs, Becomes, Over
  <2>2. QED
    BY <1>0, <1>1, <2>1, ChangesOneCall, PoolEnds
<1>6. ASSUME NEW i \in DOMAIN calls, NEW st \in Over, ToolReturns(i, st) PROVE PoolInv'
  <2>1. calls[i].st = "running" /\ calls' = [calls EXCEPT ![i].st = st]
    BY <1>6 DEF ToolReturns, Runs, Becomes
  <2>2. QED
    BY <1>0, <2>1, ChangesOneCall, PoolEnds
<1>7. ASSUME NEW i \in DOMAIN calls, NEW st \in Over, NEW c \in 0..CallCost,
             DecomposeReturns(i, st, c)
      PROVE  PoolInv'
  <2>1. calls[i].st = "running" /\ calls' = [calls EXCEPT ![i].st = st]
    BY <1>7 DEF DecomposeReturns, Runs, Becomes
  <2>2. QED
    BY <1>0, <2>1, ChangesOneCall, PoolEnds
<1>8. ASSUME NEW i \in DOMAIN calls, NEW st \in Over, NEW c \in 0..ChildCost,
             ChildReturns(i, st, c)
      PROVE  PoolInv'
  <2>1. calls[i].st = "running"
    BY <1>8 DEF ChildReturns, Runs
  <2>2. PICK k : calls' = [calls EXCEPT ![i].st = st, ![i].cost = k]
    BY <1>8 DEF ChildReturns
  <2>3. OnlyCall(i, st)
    BY <1>0, <2>2, ChangesOneCall
  <2>4. QED
    BY <1>0, <2>1, <2>3, PoolEnds
<1>9. CASE Dispatch
  <2>1. CASE TakeResult
    BY <1>1, <2>1 DEF TakeResult
  <2>2. ASSUME TurnEnds \/ \E i \in DOMAIN calls, c \in 0..CallCost : DecomposeFails(i, c)
        PROVE  PoolInv'
    <3>1. calls' = <<>>
      BY <2>2 DEF TurnEnds, DecomposeFails
    <3>2. QED
      BY <1>2, <3>1
  <2>3. QED
    BY <1>3, <1>4, <1>5, <1>6, <1>7, <1>8, <1>9, <2>1, <2>2 DEF Dispatch
<1>10. CASE Loop
  <2>1. ASSUME NEW c \in 0..CallCost, NEW ks \in Turns, CallsTools(c, ks) PROVE PoolInv'
    BY <1>2, <2>1 DEF CallsTools
  <2>2. CASE calls' # calls
    BY <1>10, <2>1, <2>2 DEF Loop, OverBudget, OutOfSteps, LlmFails, Answers, SaysNothing, turn
  <2>3. QED
    BY <1>1, <2>2
<1>11. CASE Attempt \/ Check \/ Repair \/ Stops
  <2>1. calls' = calls
    BY <1>11 DEF Attempt, Planned, Unplanned, StartItem, PlanEnds, PlanFails, Plan, Check, Accepted,
                 GivesUp, Unmet, CorrectionFails, Corrects, Repair, Finishes, Passes, NoProgress,
                 Repairs, Stops, vars, turn
  <2>2. QED
    BY <1>1, <2>1
<1>12. QED
  BY <1>9, <1>10, <1>11 DEF Next

(* For any turn and any groups: no more calls run at a time than the pool   *)
(* of one group has workers.                                                *)
THEOREM PoolBounded == Spec => []PoolBoundsTheTurn
<1>1. Init => PoolInv
  <2>1. Init => {i \in DOMAIN calls : calls[i].st = "running"} = {}
    BY DEF Init
  <2>2. Init => PoolBoundsTheTurn
    BY <2>1, FS_EmptySet, AgentAssumption DEF PoolBoundsTheTurn, Max2, AgentAssumption
  <2>3. QED
    BY <2>2 DEF Init, PoolInv
<1>2. PoolInv /\ TInv /\ [Next]_vars => PoolInv'
  <2>1. ASSUME PoolInv, UNCHANGED vars PROVE PoolInv'
    BY <2>1 DEF vars, turn, PoolInv, PoolBoundsTheTurn, Ahead, Serial, Siblings, GroupBefore
  <2>2. QED
    BY <2>1, PoolKeeps
<1>3. PoolInv => PoolBoundsTheTurn
  BY DEF PoolInv
<1>4. QED
  BY <1>1, <1>2, <1>3, Typed, PTL DEF Spec

-----------------------------------------------------------------------------
(***************************************************************************)
(* The sandbox pool.  Whatever the number of threads and the size of the   *)
(* pool, a container has one owner: a call that holds it, or the queue,    *)
(* and what is alive is what has an owner.                                 *)
(***************************************************************************)

Holders   == {c \in Callers : held[c] # NoContainer}
Starters  == {c \in Callers : step[c] \in {"count", "start"}}
Survivors == {c \in Callers : step[c] = "discard" /\ held[c] \in docker}

OwnerInv ==
    /\ \A c \in Callers : c \in Holders <=> step[c] \in {"exec", "stop", "discard", "put"}
    /\ alive = Queued \cup {held[c] : c \in Holders}
    /\ \A c, d \in Callers : c # d /\ c \in Holders => held[c] # held[d]
    /\ \A i \in DOMAIN pool : \A c \in Callers : held[c] # pool[i]
    /\ \A i, j \in DOMAIN pool : pool[i] = pool[j] => i = j

(* A container that survived its removal is on its way out of alive while  *)
(* its call stands before _alive.discard; whoever has found the queue      *)
(* empty has no container, so that there is room for the one it starts.    *)
LeakInv ==
    /\ dirty \subseteq docker \cup alive
    /\ Cardinality(docker \ alive) + Cardinality(Survivors) <= hangs
    /\ Cardinality(alive) + Cardinality(Starters) <= Cardinality(Callers)

SandboxInv == PoolTypeOK /\ OwnerInv /\ LeakInv

LEMMA PoolFinite ==
    ASSUME PoolTypeOK
    PROVE  /\ IsFiniteSet(Callers) /\ IsFiniteSet(Containers) /\ IsFiniteSet(alive) /\ IsFiniteSet(docker)
           /\ IsFiniteSet(docker \ alive) /\ IsFiniteSet(Survivors) /\ IsFiniteSet(Starters) /\ IsFiniteSet(Holders)
           /\ Cardinality(alive) \in Nat /\ Cardinality(docker \ alive) \in Nat
           /\ Cardinality(Survivors) \in Nat /\ Cardinality(Starters) \in Nat
           /\ Cardinality(Holders) \in Nat /\ Cardinality(Callers) \in Nat /\ Cardinality(Containers) \in Nat
<1>1. IsFiniteSet(Callers) /\ IsFiniteSet(Containers)
  BY SandboxAssumption DEF SandboxAssumption
<1>2. alive \subseteq Containers /\ docker \subseteq Containers /\ docker \ alive \subseteq Containers
  BY DEF PoolTypeOK
<1>3. Survivors \subseteq Callers /\ Starters \subseteq Callers /\ Holders \subseteq Callers
  BY DEF Survivors, Starters, Holders
<1>4. IsFiniteSet(alive) /\ IsFiniteSet(docker) /\ IsFiniteSet(docker \ alive)
  BY <1>1, <1>2, FS_Subset
<1>5. IsFiniteSet(Survivors) /\ IsFiniteSet(Starters) /\ IsFiniteSet(Holders)
  BY <1>1, <1>3, FS_Subset
<1>6. QED
  BY <1>1, <1>4, <1>5, FS_CardinalityType

\* There is a container id that nobody knows whenever docker run is called.
LEMMA NewIsNew ==
    ASSUME SandboxInv, NEW c \in Callers, step[c] = "start"
    PROVE  /\ New \in Containers /\ New # NoContainer
           /\ New \notin docker \cup alive \cup dirty \cup Queued \cup {held[d] : d \in Callers}
<1> DEFINE Known == (docker \ alive) \cup alive
<1>0. /\ Cardinality(docker \ alive) \in Nat /\ Cardinality(alive) \in Nat /\ Cardinality(Survivors) \in Nat
      /\ Cardinality(Starters) \in Nat /\ Cardinality(Callers) \in Nat /\ hangs \in Nat /\ hangs <= MaxHangs /\ MaxHangs \in Nat
  BY PoolFinite, SandboxAssumption DEF SandboxInv, PoolTypeOK, SandboxAssumption
<1>1. IsFiniteSet(Known) /\ Cardinality(Known) <= Cardinality(docker \ alive) + Cardinality(alive)
  <2>0. (docker \ alive) \cap alive = {}
    OBVIOUS
  <2>1. Cardinality((docker \ alive) \cap alive) = 0
    BY <2>0, FS_EmptySet
  <2>2. Cardinality(Known) = Cardinality(docker \ alive) + Cardinality(alive) - Cardinality((docker \ alive) \cap alive)
    BY PoolFinite, FS_Union DEF SandboxInv
  <2>3. IsFiniteSet(Known)
    BY PoolFinite, FS_Union DEF SandboxInv
  <2>4. QED
    BY <1>0, <2>1, <2>2, <2>3
<1>2. Cardinality(Known) <= MaxHangs + Cardinality(Callers)
  <2>1. Cardinality(docker \ alive) <= MaxHangs /\ Cardinality(alive) <= Cardinality(Callers)
    BY <1>0 DEF SandboxInv, LeakInv
  <2>2. Cardinality(Known) \in Nat
    BY <1>1, FS_CardinalityType
  <2>3. QED
    BY <1>0, <1>1, <2>1, <2>2
<1>3. Cardinality(Containers) > MaxHangs + Cardinality(Callers)
  BY PoolFinite, SandboxAssumption DEF SandboxInv, PoolTypeOK, SandboxAssumption
<1>4. Cardinality(Known) \in Nat
  BY <1>1, FS_CardinalityType
<1>5. ~(Containers \subseteq Known)
  <2> SUFFICES ASSUME Containers \subseteq Known PROVE FALSE
    OBVIOUS
  <2>1. Cardinality(Containers) <= Cardinality(Known)
    BY <1>1, FS_Subset
  <2>2. QED
    BY <1>2, <1>3, <1>4, <2>1, PoolFinite, SandboxAssumption DEF SandboxInv, SandboxAssumption
<1>6. PICK k \in Containers : k \notin Known
  BY <1>5
<1>7. docker \cup alive \cup dirty \cup Queued \cup {held[d] : d \in Callers} \subseteq Known \cup {NoContainer}
  BY DEF SandboxInv, OwnerInv, LeakInv, Holders
<1>8. k \notin docker \cup alive \cup dirty \cup Queued \cup {held[d] : d \in Callers}
  BY <1>6, <1>7, SandboxAssumption DEF SandboxAssumption
<1>9. QED
  BY <1>8, SandboxAssumption DEF New, SandboxAssumption

LEMMA TailOf ==
    ASSUME NEW S, NEW q \in Seq(S), q # <<>>
    PROVE  /\ Tail(q) \in Seq(S) /\ Len(Tail(q)) = Len(q) - 1 /\ Head(q) = q[1] /\ 1 \in DOMAIN q
           /\ \A i \in DOMAIN Tail(q) : i + 1 \in DOMAIN q /\ i + 1 # 1 /\ Tail(q)[i] = q[i + 1] /\ i \in Int
           /\ \A i \in DOMAIN q : i = 1 \/ (i - 1 \in DOMAIN Tail(q) /\ Tail(q)[i - 1] = q[i])
<1>1. Len(q) \in Nat /\ Len(q) > 0 /\ DOMAIN q = 1..Len(q)
  OBVIOUS
<1>2. Tail(q) \in Seq(S) /\ Len(Tail(q)) = Len(q) - 1 /\ Head(q) = q[1]
  BY <1>1
<1>3. DOMAIN Tail(q) = 1 .. Len(q) - 1
  BY <1>1, <1>2
<1>4. \A i \in 1 .. Len(q) - 1 : Tail(q)[i] = q[i + 1]
  BY <1>1
<1>5. QED
  BY <1>1, <1>2, <1>3, <1>4

LEMMA PoolTypeStep == SandboxInv /\ [PoolNext]_poolVars => PoolTypeOK'
<1> SUFFICES ASSUME SandboxInv, [PoolNext]_poolVars PROVE PoolTypeOK'
  OBVIOUS
<1> USE SandboxAssumption DEF SandboxAssumption, PoolTypeOK
<1>0. PoolTypeOK
  BY DEF SandboxInv
<1>1. CASE Dispose
  <2>1. docker' \subseteq Containers /\ dirty' \subseteq Containers /\ alive' = {}
    BY <1>0, <1>1 DEF Dispose
  <2>2. pool' \in Seq(Containers) /\ Len(pool') = 0 /\ pool_size' = pool_size /\ pool_size \in Nat
    BY <1>0, <1>1 DEF Dispose
  <2>3. hangs' \in 0 .. MaxHangs
    <3>1. PICK left \in SUBSET (docker \cap alive) :
              hangs + Cardinality(left) <= MaxHangs /\ hangs' = hangs + Cardinality(left)
      BY <1>1 DEF Dispose
    <3>2. Cardinality(left) \in Nat
      <4>1. left \subseteq docker
        OBVIOUS
      <4>2. IsFiniteSet(left)
        BY <1>0, <4>1, PoolFinite, FS_Subset
      <4>3. QED
        BY <4>2, FS_CardinalityType
    <3>3. QED
      BY <1>0, <3>1, <3>2
  <2>4. QED
    BY <1>0, <1>1, <2>1, <2>2, <2>3 DEF Dispose
<1>2. ASSUME NEW c \in Callers, RunTool(c) \/ Count(c) \/ ExecEnds(c) PROVE PoolTypeOK'
  BY <1>0, <1>2 DEF RunTool, Count, ExecEnds, Goto, Steps
<1>3. ASSUME NEW c \in Callers, NEW from \in {"get", "wait"}, Take(c, from) PROVE PoolTypeOK'
  <2>1. pool' \in Seq(Containers) /\ Len(pool') = Len(pool) - 1 /\ Head(pool) \in Containers /\ Len(pool) \in Nat
    BY <1>0, <1>3 DEF Take
  <2>2. Len(pool') <= pool_size /\ pool_size' = pool_size
    BY <1>0, <1>3, <2>1 DEF Take, Goto
  <2>3. QED
    BY <1>0, <1>3, <2>1, <2>2 DEF Take, Goto, Steps
<1>4. ASSUME NEW c \in Callers, GetNowait(c) \/ Get(c) PROVE PoolTypeOK'
  <2>1. CASE Take(c, "get") \/ Take(c, "wait")
    BY <1>3, <2>1
  <2>2. CASE pool = <<>> /\ Goto(c, "get", "count") /\ UNCHANGED <<docker, pool, alive, held, dirty, hangs>>
    BY <1>0, <2>2 DEF Goto, Steps
  <2>3. QED
    BY <1>4, <2>1, <2>2 DEF GetNowait, Get
<1>5. ASSUME NEW c \in Callers, Start(c) PROVE PoolTypeOK'
  <2>1. New \in Containers
    BY <1>5, NewIsNew DEF Start, Goto
  <2>2. QED
    BY <1>0, <1>5, <2>1 DEF Start, Goto, Steps
<1>6. ASSUME NEW c \in Callers, StartFails(c) PROVE PoolTypeOK'
  <2>1. New \in Containers
    BY <1>6, NewIsNew DEF StartFails, Return, Goto
  <2>2. QED
    BY <1>0, <1>6, <2>1 DEF StartFails, Return, Goto, Steps
<1>7. ASSUME NEW c \in Callers, ExecTimesOut(c) PROVE PoolTypeOK'
  <2>1. held[c] \in Containers
    BY <1>0, <1>7 DEF SandboxInv, OwnerInv, Holders, ExecTimesOut, Goto
  <2>2. QED
    BY <1>0, <1>7, <2>1 DEF ExecTimesOut, Goto, Steps
<1>8. ASSUME NEW c \in Callers, Stop(c) \/ StopRaises(c) PROVE PoolTypeOK'
  BY <1>0, <1>8 DEF Stop, StopRaises, Goto, Steps
<1>9. ASSUME NEW c \in Callers, Discard(c) PROVE PoolTypeOK'
  BY <1>0, <1>9 DEF Discard, Return, Goto, Steps
<1>10. ASSUME NEW c \in Callers, Release(c) PROVE PoolTypeOK'
  <2>1. held[c] \in Containers
    BY <1>0, <1>10 DEF SandboxInv, OwnerInv, Holders, Release, Return, Goto
  <2>2. pool' \in Seq(Containers) /\ Len(pool') = Len(pool) + 1 /\ Len(pool) \in Nat
    BY <1>0, <1>10, <2>1 DEF Release
  <2>3. Len(pool') <= pool_size /\ pool_size' = pool_size
    BY <1>0, <1>10, <2>2 DEF Release, Return, Goto
  <2>4. QED
    BY <1>0, <1>10, <2>2, <2>3 DEF Release, Return, Goto, Steps
<1>11. CASE UNCHANGED poolVars
  BY <1>0, <1>11 DEF poolVars
<1>12. QED
  BY <1>1, <1>2, <1>4, <1>5, <1>6, <1>7, <1>8, <1>9, <1>10, <1>11 DEF PoolNext, Run

\* A step that leaves the queue, what is alive and what is held alone.
LEMMA OwnersKept ==
    ASSUME SandboxInv, UNCHANGED <<pool, alive, held>>,
           \A c \in Callers : /\ step'[c] \in {"exec", "stop", "discard", "put"}
                              <=> step[c] \in {"exec", "stop", "discard", "put"}
    PROVE  OwnerInv'
<1>1. Queued' = Queued /\ Holders' = Holders
  BY DEF Queued, Holders
<1>2. QED
  BY <1>1 DEF SandboxInv, OwnerInv

LEMMA TakeOwned ==
    ASSUME SandboxInv, NEW c \in Callers, NEW from \in {"get", "wait"}, Take(c, from)
    PROVE  OwnerInv'
<1> DEFINE k == Head(pool)
<1>0. PoolTypeOK /\ OwnerInv
  BY DEF SandboxInv
<1>1. /\ pool' = Tail(pool) /\ pool # <<>> /\ pool \in Seq(Containers) /\ alive' = alive
      /\ held' = [held EXCEPT ![c] = k] /\ step' = [step EXCEPT ![c] = "exec"] /\ step[c] = from
  BY <1>0 DEF Take, Goto, PoolTypeOK
<1>2. k = pool[1] /\ 1 \in DOMAIN pool /\ k \in Containers
  BY <1>1, TailOf
<1>3. \A i \in DOMAIN pool' : i + 1 \in DOMAIN pool /\ i + 1 # 1 /\ pool'[i] = pool[i + 1] /\ i \in Int
  BY <1>1, TailOf
<1>4. \A i \in DOMAIN pool : i = 1 \/ (i - 1 \in DOMAIN pool' /\ pool'[i - 1] = pool[i])
  BY <1>1, TailOf
<1>5. Queued = Queued' \cup {k}
  BY <1>2, <1>3, <1>4 DEF Queued
<1>6. /\ held'[c] = k /\ step'[c] = "exec" /\ c \notin Holders
      /\ \A d \in Callers : d # c => held'[d] = held[d] /\ step'[d] = step[d]
  BY <1>0, <1>1 DEF OwnerInv, PoolTypeOK
<1>7. Holders' = Holders \cup {c}
  BY <1>2, <1>6, SandboxAssumption DEF Holders, SandboxAssumption
<1>8. \A d \in Callers : d \in Holders' <=> step'[d] \in {"exec", "stop", "discard", "put"}
  BY <1>0, <1>6, <1>7 DEF OwnerInv
<1>9. alive' = Queued' \cup {held'[d] : d \in Holders'}
  <2>1. {held'[d] : d \in Holders'} = {held[d] : d \in Holders} \cup {k}
    BY <1>6, <1>7 DEF Holders
  <2>2. QED
    BY <1>0, <1>1, <1>5, <2>1 DEF OwnerInv
<1>10. \A d \in Callers : held[d] # k
  BY <1>0, <1>2 DEF OwnerInv
<1>11. \A d, e \in Callers : d # e /\ d \in Holders' => held'[d] # held'[e]
  BY <1>0, <1>6, <1>7, <1>10 DEF OwnerInv
<1>12. \A i \in DOMAIN pool' : \A d \in Callers : held'[d] # pool'[i]
  BY <1>0, <1>2, <1>3, <1>6 DEF OwnerInv
<1>13. \A i, j \in DOMAIN pool' : pool'[i] = pool'[j] => i = j
  <2> SUFFICES ASSUME NEW i \in DOMAIN pool', NEW j \in DOMAIN pool', pool'[i] = pool'[j] PROVE i = j
    OBVIOUS
  <2>1. i + 1 = j + 1
    BY <1>0, <1>3 DEF OwnerInv
  <2>2. QED
    BY <1>3, <2>1
<1>14. QED
  BY <1>8, <1>9, <1>11, <1>12, <1>13 DEF OwnerInv

LEMMA StartOwned ==
    ASSUME SandboxInv, NEW c \in Callers, Start(c)
    PROVE  OwnerInv'
<1>0. PoolTypeOK /\ OwnerInv
  BY DEF SandboxInv
<1>1. /\ New \in Containers /\ New # NoContainer
      /\ New \notin alive /\ New \notin Queued /\ \A d \in Callers : held[d] # New
  BY NewIsNew DEF Start, Goto
<1>2. /\ held'[c] = New /\ step'[c] = "exec" /\ c \notin Holders /\ pool' = pool /\ alive' = alive \cup {New}
      /\ \A d \in Callers : d # c => held'[d] = held[d] /\ step'[d] = step[d]
  BY <1>0 DEF Start, Goto, OwnerInv, PoolTypeOK
<1>3. Holders' = Holders \cup {c} /\ Queued' = Queued
  BY <1>1, <1>2 DEF Holders, Queued
<1>4. {held'[d] : d \in Holders'} = {held[d] : d \in Holders} \cup {New}
  BY <1>2, <1>3 DEF Holders
<1>5. \A i \in DOMAIN pool : New # pool[i]
  BY <1>1 DEF Queued
<1>6. \A d \in Callers : d \in Holders' <=> step'[d] \in {"exec", "stop", "discard", "put"}
  BY <1>0, <1>2, <1>3 DEF OwnerInv
<1>7. \A d, e \in Callers : d # e /\ d \in Holders' => held'[d] # held'[e]
  BY <1>0, <1>1, <1>2, <1>3 DEF OwnerInv
<1>8. \A i \in DOMAIN pool' : \A d \in Callers : held'[d] # pool'[i]
  BY <1>0, <1>2, <1>5 DEF OwnerInv
<1>9. QED
  BY <1>0, <1>2, <1>3, <1>4, <1>6, <1>7, <1>8 DEF OwnerInv

LEMMA DiscardOwned ==
    ASSUME SandboxInv, NEW c \in Callers, Discard(c)
    PROVE  OwnerInv'
<1>0. PoolTypeOK /\ OwnerInv
  BY DEF SandboxInv
<1>1. /\ held'[c] = NoContainer /\ step'[c] = "idle" /\ c \in Holders /\ pool' = pool /\ alive' = alive \ {held[c]}
      /\ \A d \in Callers : d # c => held'[d] = held[d] /\ step'[d] = step[d]
  BY <1>0 DEF Discard, Return, Goto, OwnerInv, PoolTypeOK
<1>2. Holders' = Holders \ {c} /\ Queued' = Queued
  BY <1>1 DEF Holders, Queued
<1>3. {held'[d] : d \in Holders'} = {held[d] : d \in Holders} \ {held[c]}
  BY <1>0, <1>1, <1>2 DEF Holders, OwnerInv
<1>4. held[c] \notin Queued
  BY <1>0 DEF OwnerInv, Queued
<1>5. \A d \in Callers : d \in Holders' <=> step'[d] \in {"exec", "stop", "discard", "put"}
  BY <1>0, <1>1, <1>2 DEF OwnerInv
<1>6. \A i \in DOMAIN pool : pool[i] \in Containers
  BY <1>0 DEF PoolTypeOK
<1>7. \A i \in DOMAIN pool' : \A d \in Callers : held'[d] # pool'[i]
  BY <1>0, <1>1, <1>6, SandboxAssumption DEF OwnerInv, SandboxAssumption
<1>8. \A d, e \in Callers : d # e /\ d \in Holders' => held'[d] # held'[e]
  BY <1>0, <1>1, <1>2 DEF OwnerInv, Holders
<1>9. alive' = Queued' \cup {held'[d] : d \in Holders'}
  BY <1>0, <1>1, <1>2, <1>3, <1>4 DEF OwnerInv
<1>10. QED
  BY <1>0, <1>1, <1>5, <1>7, <1>8, <1>9 DEF OwnerInv

LEMMA ReleaseOwned ==
    ASSUME SandboxInv, NEW c \in Callers, Release(c)
    PROVE  OwnerInv'
<1> DEFINE n == Len(pool) + 1
<1>0. PoolTypeOK /\ OwnerInv
  BY DEF SandboxInv
<1>1. /\ held'[c] = NoContainer /\ step'[c] = "idle" /\ c \in Holders /\ alive' = alive
      /\ pool' = Append(pool, held[c]) /\ pool \in Seq(Containers) /\ held[c] \in Containers
      /\ \A d \in Callers : d # c => held'[d] = held[d] /\ step'[d] = step[d]
  BY <1>0 DEF Release, Return, Goto, OwnerInv, PoolTypeOK, Holders
<1>2. /\ DOMAIN pool = 1 .. Len(pool) /\ DOMAIN pool' = 1 .. n /\ Len(pool) \in Nat
      /\ pool'[n] = held[c] /\ \A i \in DOMAIN pool : pool'[i] = pool[i]
  BY <1>1
<1>3. n \in DOMAIN pool' /\ n \notin DOMAIN pool /\ \A i \in DOMAIN pool' : i \in DOMAIN pool \/ i = n
  BY <1>2
<1>4. Queued' = Queued \cup {held[c]}
  BY <1>2, <1>3 DEF Queued
<1>5. Holders' = Holders \ {c}
  BY <1>1 DEF Holders
<1>6. {held[d] : d \in Holders} = {held'[d] : d \in Holders'} \cup {held[c]}
  BY <1>0, <1>1, <1>5 DEF Holders, OwnerInv
<1>7. \A d \in Callers : d \in Holders' <=> step'[d] \in {"exec", "stop", "discard", "put"}
  BY <1>0, <1>1, <1>5 DEF OwnerInv
<1>8. \A i \in DOMAIN pool' : pool'[i] \in Containers
  BY <1>1, <1>2, <1>3
<1>9. ASSUME NEW i \in DOMAIN pool', NEW d \in Callers PROVE held'[d] # pool'[i]
  <2>1. CASE d = c
    BY <1>1, <1>8, <2>1, SandboxAssumption DEF SandboxAssumption
  <2>2. CASE d # c /\ i \in DOMAIN pool
    BY <1>0, <1>1, <1>2, <2>2 DEF OwnerInv
  <2>3. CASE d # c /\ i = n
    BY <1>0, <1>1, <1>2, <2>3 DEF OwnerInv
  <2>4. QED
    BY <1>3, <2>1, <2>2, <2>3
<1>10. \A i, j \in DOMAIN pool' : pool'[i] = pool'[j] => i = j
  BY <1>0, <1>1, <1>2, <1>3 DEF OwnerInv
<1>11. \A d, e \in Callers : d # e /\ d \in Holders' => held'[d] # held'[e]
  BY <1>0, <1>1, <1>5 DEF OwnerInv, Holders
<1>12. QED
  BY <1>0, <1>1, <1>4, <1>6, <1>7, <1>9, <1>10, <1>11 DEF OwnerInv

LEMMA PoolOwnerStep == SandboxInv /\ [PoolNext]_poolVars => OwnerInv'
<1> SUFFICES ASSUME SandboxInv, [PoolNext]_poolVars PROVE OwnerInv'
  OBVIOUS
<1>0. PoolTypeOK /\ OwnerInv
  BY DEF SandboxInv
<1>1. CASE Dispose
  <2>1. Holders = {} /\ step' = step /\ held' = held /\ alive' = {} /\ pool' = <<>>
    BY <1>0, <1>1 DEF Dispose, OwnerInv, Holders
  <2>2. Holders' = {} /\ Queued' = {} /\ DOMAIN pool' = {}
    BY <2>1 DEF Holders, Queued
  <2>3. QED
    BY <1>0, <2>1, <2>2 DEF OwnerInv
<1>2. ASSUME NEW c \in Callers, RunTool(c) \/ Count(c) \/ ExecEnds(c) \/ ExecTimesOut(c) \/ Stop(c) \/ StopRaises(c)
      PROVE OwnerInv'
  <2>1. UNCHANGED <<pool, alive, held>>
    BY <1>2 DEF RunTool, Count, ExecEnds, ExecTimesOut, Stop, StopRaises
  <2>2. \A d \in Callers : /\ step'[d] \in {"exec", "stop", "discard", "put"}
                           <=> step[d] \in {"exec", "stop", "discard", "put"}
    BY <1>0, <1>2 DEF RunTool, Count, ExecEnds, ExecTimesOut, Stop, StopRaises, Goto, PoolTypeOK
  <2>3. QED
    BY <2>1, <2>2, OwnersKept
<1>3. ASSUME NEW c \in Callers, GetNowait(c) \/ Get(c) PROVE OwnerInv'
  <2>1. CASE Take(c, "get") \/ Take(c, "wait")
    BY <2>1, TakeOwned
  <2>2. CASE Goto(c, "get", "count") /\ UNCHANGED <<docker, pool, alive, held, dirty, hangs>>
    BY <1>0, <2>2, OwnersKept DEF Goto, PoolTypeOK
  <2>3. QED
    BY <1>3, <2>1, <2>2 DEF GetNowait, Get
<1>4. ASSUME NEW c \in Callers, Start(c) PROVE OwnerInv'
  BY <1>4, StartOwned
<1>5. ASSUME NEW c \in Callers, StartFails(c) PROVE OwnerInv'
  <2>1. step[c] = "start" /\ held[c] = NoContainer
    BY <1>0, <1>5 DEF StartFails, Return, Goto, OwnerInv, Holders
  <2>2. UNCHANGED <<pool, alive, held>>
    BY <1>0, <1>5, <2>1 DEF StartFails, Return, PoolTypeOK
  <2>3. QED
    BY <1>0, <1>5, <2>1, <2>2, OwnersKept DEF StartFails, Return, Goto, PoolTypeOK
<1>6. ASSUME NEW c \in Callers, Discard(c) PROVE OwnerInv'
  BY <1>6, DiscardOwned
<1>7. ASSUME NEW c \in Callers, Release(c) PROVE OwnerInv'
  BY <1>7, ReleaseOwned
<1>8. CASE UNCHANGED poolVars
  BY <1>8, OwnersKept DEF poolVars
<1>9. QED
  BY <1>1, <1>2, <1>3, <1>4, <1>5, <1>6, <1>7, <1>8 DEF PoolNext, Run

LEMMA PoolCounts ==
    ASSUME PoolTypeOK
    PROVE  /\ Cardinality(alive) \in Nat /\ Cardinality(docker \ alive) \in Nat
           /\ Cardinality(Survivors) \in Nat /\ Cardinality(Starters) \in Nat /\ Cardinality(Callers) \in Nat
           /\ hangs \in Nat
BY PoolFinite DEF PoolTypeOK

\* Steps that start and remove nothing, and after which no further call counts or starts.
LEMMA LeakKept ==
    ASSUME SandboxInv, UNCHANGED <<docker, alive>>, dirty' \subseteq docker \cup alive,
           hangs' \in Nat, hangs' >= hangs, Survivors' = Survivors, Starters' \subseteq Starters
    PROVE  LeakInv'
<1>1. Cardinality(Starters') <= Cardinality(Starters) /\ Cardinality(Starters') \in Nat
  BY PoolFinite, FS_Subset, FS_CardinalityType DEF SandboxInv
<1>2. docker' \ alive' = docker \ alive
  OBVIOUS
<1>3. Cardinality(docker' \ alive') + Cardinality(Survivors') <= hangs'
  BY <1>2, PoolCounts DEF SandboxInv, LeakInv
<1>4. Cardinality(alive') + Cardinality(Starters') <= Cardinality(Callers)
  BY <1>1, PoolCounts DEF SandboxInv, LeakInv
<1>5. QED
  BY <1>3, <1>4 DEF LeakInv

\* Whoever finds the queue empty finds as many alive as there are calls with a container.
LEMMA EmptyHanded ==
    ASSUME SandboxInv, NEW c \in Callers, pool = <<>>, Goto(c, "get", "count"), UNCHANGED <<docker, alive, held, dirty, hangs>>
    PROVE  Cardinality(alive') + Cardinality(Starters') <= Cardinality(Callers)
<1> DEFINE f == [d \in Holders |-> held[d]]
<1>0. PoolTypeOK /\ OwnerInv
  BY DEF SandboxInv
<1>1. Queued = {}
  BY DEF Queued
<1>2. f \in [Holders -> alive] /\ \A k \in alive : \E d \in Holders : f[d] = k
  BY <1>0, <1>1 DEF OwnerInv
<1>3. f \in Surjection(Holders, alive)
  BY <1>2 DEF Surjection
<1>4. Cardinality(alive) <= Cardinality(Holders)
  BY <1>0, <1>3, PoolFinite, FS_Surjection
<1>5. Starters' \subseteq Callers /\ Holders \subseteq Callers /\ Holders \cap Starters' = {}
  BY <1>0 DEF Starters, Holders, OwnerInv, Goto, PoolTypeOK
<1>6. IsFiniteSet(Callers) /\ IsFiniteSet(Holders) /\ IsFiniteSet(Starters')
  BY <1>0, <1>5, PoolFinite, FS_Subset
<1>7. Cardinality(Holders \cap Starters') = 0
  BY <1>5, FS_EmptySet
<1>8. Cardinality(Holders \cup Starters') = Cardinality(Holders) + Cardinality(Starters') - Cardinality(Holders \cap Starters')
  BY <1>6, FS_Union
<1>9. Cardinality(Holders \cup Starters') <= Cardinality(Callers)
  <2>1. Holders \cup Starters' \subseteq Callers
    BY <1>5
  <2>2. QED
    BY <1>6, <2>1, FS_Subset
<1>10. Cardinality(Holders) \in Nat /\ Cardinality(Starters') \in Nat /\ Cardinality(alive) \in Nat /\ Cardinality(Callers) \in Nat
  BY <1>0, <1>6, PoolFinite, FS_CardinalityType
<1>11. Cardinality(Holders) + Cardinality(Starters') <= Cardinality(Callers)
  BY <1>7, <1>8, <1>9, <1>10
<1>12. QED
  BY <1>4, <1>10, <1>11

LEMMA StartLeaks ==
    ASSUME SandboxInv, NEW c \in Callers, Start(c)
    PROVE  LeakInv'
<1>0. PoolTypeOK /\ OwnerInv /\ LeakInv
  BY DEF SandboxInv
<1>1. /\ New \notin docker /\ New \notin alive /\ \A d \in Callers : held[d] # New
  BY NewIsNew DEF Start, Goto
<1>2. /\ docker' = docker \cup {New} /\ alive' = alive \cup {New} /\ dirty' = dirty /\ hangs' = hangs
      /\ held' = [held EXCEPT ![c] = New] /\ step' = [step EXCEPT ![c] = "exec"] /\ step[c] = "start"
  BY DEF Start, Goto
<1>3. docker' \ alive' = docker \ alive
  BY <1>1, <1>2
<1>4. Survivors' = Survivors
  BY <1>0, <1>1, <1>2 DEF Survivors, PoolTypeOK
<1>5. c \in Starters /\ Starters' = Starters \ {c}
  BY <1>0, <1>2 DEF Starters, PoolTypeOK
<1>6. Cardinality(Starters') = Cardinality(Starters) - 1
  BY <1>0, <1>5, PoolFinite, FS_RemoveElement
<1>7. Cardinality(alive') = Cardinality(alive) + 1
  BY <1>0, <1>1, <1>2, PoolFinite, FS_AddElement
<1>8. Cardinality(alive') + Cardinality(Starters') <= Cardinality(Callers)
  BY <1>0, <1>6, <1>7, PoolCounts DEF LeakInv
<1>9. Cardinality(docker' \ alive') + Cardinality(Survivors') <= hangs'
  BY <1>0, <1>2, <1>3, <1>4 DEF LeakInv
<1>10. dirty' \subseteq docker' \cup alive'
  BY <1>0, <1>2 DEF LeakInv
<1>11. QED
  BY <1>8, <1>9, <1>10 DEF LeakInv

LEMMA StartFailsLeaks ==
    ASSUME SandboxInv, NEW c \in Callers, StartFails(c)
    PROVE  LeakInv'
<1>0. PoolTypeOK /\ OwnerInv /\ LeakInv
  BY DEF SandboxInv
<1>1. /\ step' = [step EXCEPT ![c] = "idle"] /\ step[c] = "start" /\ held' = [held EXCEPT ![c] = NoContainer]
      /\ UNCHANGED <<pool, alive>>
  BY DEF StartFails, Return, Goto
<1>2. Starters' \subseteq Starters
  BY <1>0, <1>1 DEF Starters, PoolTypeOK
<1>3. CASE UNCHANGED <<docker, dirty, hangs>>
  <2>1. Survivors' = Survivors
    BY <1>0, <1>1, <1>3 DEF Survivors, PoolTypeOK
  <2>2. QED
    BY <1>0, <1>1, <1>2, <1>3, <2>1, LeakKept, PoolCounts DEF LeakInv
<1>4. CASE hangs' = hangs + 1 /\ docker' = docker \cup {New} /\ dirty' = dirty \cup {New}
  <2>1. /\ New \notin docker /\ New \notin alive /\ \A d \in Callers : held[d] # New
    BY <1>1, NewIsNew
  <2>2. docker' \ alive' = (docker \ alive) \cup {New} /\ New \notin docker \ alive
    BY <1>1, <1>4, <2>1
  <2>3. Cardinality(docker' \ alive') = Cardinality(docker \ alive) + 1
    BY <1>0, <2>2, PoolFinite, FS_AddElement
  <2>4. Survivors' = Survivors
    BY <1>0, <1>1, <1>4, <2>1 DEF Survivors, PoolTypeOK
  <2>5. Cardinality(docker' \ alive') + Cardinality(Survivors') <= hangs'
    BY <1>0, <1>4, <2>3, <2>4, PoolCounts DEF LeakInv
  <2>6. Cardinality(Starters') <= Cardinality(Starters) /\ Cardinality(Starters') \in Nat
    BY <1>0, <1>2, PoolFinite, FS_Subset, FS_CardinalityType
  <2>7. Cardinality(alive') + Cardinality(Starters') <= Cardinality(Callers)
    BY <1>0, <1>1, <2>6, PoolCounts DEF LeakInv
  <2>8. dirty' \subseteq docker' \cup alive'
    BY <1>0, <1>1, <1>4 DEF LeakInv
  <2>9. QED
    BY <2>5, <2>7, <2>8 DEF LeakInv
<1>5. QED
  BY <1>3, <1>4 DEF StartFails

LEMMA StopLeaks ==
    ASSUME SandboxInv, NEW c \in Callers, Stop(c) \/ StopRaises(c)
    PROVE  LeakInv'
<1> DEFINE k == held[c]
<1>0. PoolTypeOK /\ OwnerInv /\ LeakInv
  BY DEF SandboxInv
<1>1. /\ step[c] = "stop" /\ UNCHANGED <<pool, alive, held, dirty>>
      /\ \/ step' = [step EXCEPT ![c] = "discard"]
         \/ step' = [step EXCEPT ![c] = "put"]
  BY DEF Stop, StopRaises, Goto
<1>2. k \in alive /\ \A d \in Callers : d # c => held[d] # k
  BY <1>0, <1>1 DEF OwnerInv
<1>3. Starters' = Starters
  BY <1>0, <1>1 DEF Starters, PoolTypeOK
<1>4. docker' \in {docker, docker \ {k}}
  BY DEF Stop, StopRaises
<1>5. docker' \ alive' = docker \ alive /\ dirty' \subseteq docker' \cup alive'
  BY <1>0, <1>1, <1>2, <1>4 DEF LeakInv
<1>6. Cardinality(alive') + Cardinality(Starters') <= Cardinality(Callers)
  BY <1>0, <1>1, <1>3 DEF LeakInv
<1>7. CASE step' = [step EXCEPT ![c] = "discard"] /\ docker' = docker \ {k} /\ hangs' = hangs
  <2>1. Survivors' = Survivors
    BY <1>0, <1>1, <1>2, <1>7 DEF Survivors, PoolTypeOK
  <2>2. QED
    BY <1>0, <1>5, <1>6, <1>7, <2>1 DEF LeakInv
<1>8. CASE hangs' = hangs + 1
  <2>1. Survivors' \subseteq Survivors \cup {c}
    BY <1>0, <1>1, <1>4 DEF Survivors, PoolTypeOK
  <2>2. Cardinality(Survivors \cup {c}) <= Cardinality(Survivors) + 1 /\ IsFiniteSet(Survivors \cup {c})
    <3>1. IsFiniteSet(Survivors)
      BY <1>0, PoolFinite
    <3>2. /\ IsFiniteSet(Survivors \cup {c})
          /\ Cardinality(Survivors \cup {c}) = IF c \in Survivors THEN Cardinality(Survivors) ELSE Cardinality(Survivors) + 1
      BY <3>1, FS_AddElement
    <3>3. QED
      BY <1>0, <3>2, PoolCounts
  <2>3. Cardinality(Survivors') <= Cardinality(Survivors) + 1 /\ Cardinality(Survivors') \in Nat
    <3>1. Cardinality(Survivors') <= Cardinality(Survivors \cup {c}) /\ IsFiniteSet(Survivors')
      BY <2>1, <2>2, FS_Subset
    <3>2. Cardinality(Survivors') \in Nat /\ Cardinality(Survivors \cup {c}) \in Nat
      BY <2>2, <3>1, FS_CardinalityType
    <3>3. QED
      BY <1>0, <2>2, <3>1, <3>2, PoolCounts
  <2>4. Cardinality(docker' \ alive') + Cardinality(Survivors') <= hangs'
    BY <1>0, <1>5, <1>8, <2>3, PoolCounts DEF LeakInv
  <2>5. QED
    BY <1>5, <1>6, <2>4 DEF LeakInv
<1>9. QED
  BY <1>7, <1>8 DEF Stop, StopRaises, Goto

LEMMA DiscardLeaks ==
    ASSUME SandboxInv, NEW c \in Callers, Discard(c)
    PROVE  LeakInv'
<1> DEFINE k == held[c]
<1>0. PoolTypeOK /\ OwnerInv /\ LeakInv
  BY DEF SandboxInv
<1>1. /\ step[c] = "discard" /\ step' = [step EXCEPT ![c] = "idle"] /\ held' = [held EXCEPT ![c] = NoContainer]
      /\ alive' = alive \ {k} /\ dirty' = dirty \ {k} /\ UNCHANGED <<docker, pool, hangs>>
  BY DEF Discard, Return, Goto
<1>2. k \in alive
  BY <1>0, <1>1 DEF OwnerInv
<1>3. Starters' = Starters
  BY <1>0, <1>1 DEF Starters, PoolTypeOK
<1>4. Survivors' = Survivors \ {c} /\ (c \in Survivors <=> k \in docker)
  BY <1>0, <1>1 DEF Survivors, PoolTypeOK
<1>5. Cardinality(alive') + Cardinality(Starters') <= Cardinality(Callers)
  <2>1. Cardinality(alive') = Cardinality(alive) - 1
    BY <1>0, <1>1, <1>2, PoolFinite, FS_RemoveElement
  <2>2. QED
    BY <1>0, <1>3, <2>1, PoolCounts DEF LeakInv
<1>6. dirty' \subseteq docker' \cup alive'
  BY <1>0, <1>1 DEF LeakInv
<1>7. CASE k \in docker
  <2>1. docker' \ alive' = (docker \ alive) \cup {k} /\ k \notin docker \ alive
    BY <1>1, <1>2, <1>7
  <2>2. Cardinality(docker' \ alive') = Cardinality(docker \ alive) + 1
    BY <1>0, <2>1, PoolFinite, FS_AddElement
  <2>3. Cardinality(Survivors') = Cardinality(Survivors) - 1
    BY <1>0, <1>4, <1>7, PoolFinite, FS_RemoveElement
  <2>4. Cardinality(docker' \ alive') + Cardinality(Survivors') <= hangs'
    BY <1>0, <1>1, <2>2, <2>3, PoolCounts DEF LeakInv
  <2>5. QED
    BY <1>5, <1>6, <2>4 DEF LeakInv
<1>8. CASE k \notin docker
  <2>1. docker' \ alive' = docker \ alive /\ Survivors' = Survivors
    BY <1>1, <1>4, <1>8
  <2>2. QED
    BY <1>0, <1>1, <1>5, <1>6, <2>1 DEF LeakInv
<1>9. QED
  BY <1>7, <1>8

LEMMA DisposeLeaks ==
    ASSUME SandboxInv, Dispose
    PROVE  LeakInv'
<1>0. PoolTypeOK /\ OwnerInv /\ LeakInv
  BY DEF SandboxInv
<1>1. PICK left \in SUBSET (docker \cap alive) :
          /\ hangs' = hangs + Cardinality(left) /\ docker' = (docker \ alive) \cup left
          /\ dirty' = (dirty \ alive) \cup left
  BY DEF Dispose
<1>2. alive' = {} /\ step' = step /\ held' = held /\ \A c \in Callers : step[c] = "idle"
  BY DEF Dispose
<1>3. Survivors' = {} /\ Starters' = {}
  BY <1>2 DEF Survivors, Starters
<1>4. IsFiniteSet(left) /\ Cardinality(left) \in Nat
  <2>1. left \subseteq docker
    OBVIOUS
  <2>2. IsFiniteSet(left)
    BY <1>0, <2>1, PoolFinite, FS_Subset
  <2>3. QED
    BY <2>2, FS_CardinalityType
<1>5. Cardinality(docker' \ alive') = Cardinality(docker \ alive) + Cardinality(left)
  <2>1. docker' \ alive' = (docker \ alive) \cup left /\ (docker \ alive) \cap left = {}
    BY <1>1, <1>2
  <2>2. Cardinality((docker \ alive) \cap left) = 0
    BY <2>1, FS_EmptySet
  <2>3. Cardinality((docker \ alive) \cup left)
          = Cardinality(docker \ alive) + Cardinality(left) - Cardinality((docker \ alive) \cap left)
    BY <1>0, <1>4, PoolFinite, FS_Union
  <2>4. Cardinality((docker \ alive) \cup left) = Cardinality(docker \ alive) + Cardinality(left)
    BY <1>0, <1>4, <2>2, <2>3, PoolCounts
  <2>5. QED
    BY <2>1, <2>4
<1>6. Cardinality(Survivors') = 0 /\ Cardinality(Starters') = 0 /\ Cardinality(alive') = 0
  BY <1>2, <1>3, FS_EmptySet
<1>7. Cardinality(docker' \ alive') + Cardinality(Survivors') <= hangs'
  BY <1>0, <1>1, <1>4, <1>5, <1>6, PoolCounts DEF LeakInv
<1>8. Cardinality(alive') + Cardinality(Starters') <= Cardinality(Callers)
  BY <1>0, <1>6, PoolCounts
<1>9. dirty' \subseteq docker' \cup alive'
  BY <1>0, <1>1, <1>2 DEF LeakInv
<1>10. QED
  BY <1>7, <1>8, <1>9 DEF LeakInv

LEMMA PoolLeakStep == SandboxInv /\ [PoolNext]_poolVars => LeakInv'
<1> SUFFICES ASSUME SandboxInv, [PoolNext]_poolVars PROVE LeakInv'
  OBVIOUS
<1>0. PoolTypeOK /\ OwnerInv /\ LeakInv /\ hangs \in Nat
  BY PoolCounts DEF SandboxInv
<1>1. CASE Dispose
  BY <1>1, DisposeLeaks
<1>2. ASSUME NEW c \in Callers, RunTool(c) \/ Count(c) \/ ExecEnds(c) \/ ExecTimesOut(c) \/ Release(c) PROVE LeakInv'
  <2>1. UNCHANGED <<docker, alive, hangs>>
    BY <1>2 DEF RunTool, Count, ExecEnds, ExecTimesOut, Release
  <2>2. dirty' \subseteq docker \cup alive
    <3>1. step[c] = "exec" => held[c] \in alive
      BY <1>0 DEF OwnerInv
    <3>2. QED
      BY <1>0, <1>2, <3>1 DEF RunTool, Count, ExecEnds, ExecTimesOut, Release, Goto, LeakInv
  <2>3. Survivors' = Survivors /\ Starters' \subseteq Starters
    BY <1>0, <1>2 DEF RunTool, Count, ExecEnds, ExecTimesOut, Release, Return, Goto, Survivors, Starters, PoolTypeOK
  <2>4. QED
    BY <1>0, <2>1, <2>2, <2>3, LeakKept
<1>3. ASSUME NEW c \in Callers, NEW from \in {"get", "wait"}, Take(c, from) PROVE LeakInv'
  <2>1. Survivors' = Survivors /\ Starters' \subseteq Starters
    BY <1>0, <1>3 DEF Take, Goto, Survivors, Starters, PoolTypeOK
  <2>2. QED
    BY <1>0, <1>3, <2>1, LeakKept DEF Take, LeakInv
<1>4. ASSUME NEW c \in Callers, GetNowait(c) \/ Get(c) PROVE LeakInv'
  <2>1. CASE Take(c, "get") \/ Take(c, "wait")
    BY <1>3, <2>1
  <2>2. CASE pool = <<>> /\ Goto(c, "get", "count") /\ UNCHANGED <<docker, pool, alive, held, dirty, hangs>>
    <3>1. Cardinality(alive') + Cardinality(Starters') <= Cardinality(Callers)
      BY <2>2, EmptyHanded
    <3>2. Survivors' = Survivors
      BY <1>0, <2>2 DEF Goto, Survivors, PoolTypeOK
    <3>3. QED
      BY <1>0, <2>2, <3>1, <3>2 DEF LeakInv
  <2>3. QED
    BY <1>4, <2>1, <2>2 DEF GetNowait, Get
<1>5. ASSUME NEW c \in Callers, Start(c) \/ StartFails(c) \/ Stop(c) \/ StopRaises(c) \/ Discard(c) PROVE LeakInv'
  BY <1>5, StartLeaks, StartFailsLeaks, StopLeaks, DiscardLeaks
<1>6. CASE UNCHANGED poolVars
  <2>1. Survivors' = Survivors /\ Starters' = Starters
    BY <1>6 DEF poolVars, Survivors, Starters
  <2>2. QED
    BY <1>0, <1>6, <2>1 DEF poolVars, LeakInv
<1>7. QED
  BY <1>1, <1>2, <1>4, <1>5, <1>6 DEF PoolNext, Run

LEMMA PoolInductive == PoolSpec => []SandboxInv
<1>1. PoolInit => SandboxInv
  <2> SUFFICES ASSUME PoolInit PROVE SandboxInv
    OBVIOUS
  <2>1. PoolTypeOK
    BY SandboxAssumption DEF SandboxAssumption, PoolInit, PoolTypeOK, Steps
  <2>2. Holders = {} /\ Queued = {} /\ Survivors = {} /\ Starters = {} /\ docker \ alive = {} /\ alive = {}
    BY DEF PoolInit, Holders, Queued, Survivors, Starters
  <2>3. OwnerInv
    BY <2>2 DEF PoolInit, OwnerInv
  <2>4. Cardinality(docker \ alive) = 0 /\ Cardinality(Survivors) = 0 /\ Cardinality(alive) = 0 /\ Cardinality(Starters) = 0
    BY <2>2, FS_EmptySet
  <2>5. LeakInv
    BY <2>1, <2>4, PoolCounts DEF PoolInit, LeakInv
  <2>6. QED
    BY <2>1, <2>3, <2>5 DEF SandboxInv
<1>2. SandboxInv /\ [PoolNext]_poolVars => SandboxInv'
  BY PoolTypeStep, PoolOwnerStep, PoolLeakStep DEF SandboxInv
<1>3. QED
  BY <1>1, <1>2, PTL DEF PoolSpec

(* The queue never holds more containers than the pool is for, and there is *)
(* a container id to start with (PoolTypeOK).                               *)
THEOREM PoolTypes == PoolSpec => []PoolTypeOK
<1>1. SandboxInv => PoolTypeOK
  BY DEF SandboxInv
<1>2. QED
  BY <1>1, PoolInductive, PTL

(* A container serves one call at a time and what waits in the queue is     *)
(* nobody's (OneCallPerContainer), though _acquire reads, counts and starts *)
(* without a lock.                                                          *)
THEOREM OneCallEach == PoolSpec => []OneCallPerContainer
<1>1. SandboxInv => OneCallPerContainer
  <2> SUFFICES ASSUME SandboxInv PROVE OneCallPerContainer
    OBVIOUS
  <2>0. PoolTypeOK /\ OwnerInv
    BY DEF SandboxInv
  <2>1. ASSUME NEW k \in Containers PROVE Cardinality(Busy(k)) <= 1
    <3>1. CASE Busy(k) = {}
      <4>1. Cardinality(Busy(k)) = 0
        BY <3>1, FS_EmptySet
      <4>2. QED
        BY <4>1
    <3>2. CASE Busy(k) # {}
      <4>1. PICK c \in Callers : held[c] = k
        BY <3>2 DEF Busy
      <4>2. Busy(k) = {c}
        BY <2>0, <4>1, SandboxAssumption DEF Busy, OwnerInv, Holders, SandboxAssumption
      <4>3. Cardinality({c}) = 1
        BY FS_Singleton
      <4>4. QED
        BY <4>2, <4>3
    <3>3. QED
      BY <3>1, <3>2
  <2>2. ASSUME NEW i \in DOMAIN pool
        PROVE  pool[i] \in alive /\ Busy(pool[i]) = {} /\ \A j \in DOMAIN pool : pool[i] = pool[j] => i = j
    BY <2>0 DEF OwnerInv, Busy, Queued
  <2>3. QED
    BY <2>1, <2>2 DEF OneCallPerContainer
<1>2. QED
  BY <1>1, PoolInductive, PTL

(* What runs is alive, but for one container per docker command that hung   *)
(* or failed, and no more are alive than there are threads (NothingLeaks).  *)
THEOREM NoLeak == PoolSpec => []NothingLeaks
<1>1. SandboxInv => NothingLeaks
  <2> SUFFICES ASSUME SandboxInv PROVE NothingLeaks
    OBVIOUS
  <2>1. PoolTypeOK /\ LeakInv
    BY DEF SandboxInv
  <2>2. QED
    BY <2>1, PoolCounts DEF NothingLeaks, LeakInv
<1>2. QED
  BY <1>1, PoolInductive, PTL
=============================================================================
