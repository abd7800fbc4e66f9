------------------------------- MODULE LlmStep -------------------------------
(***************************************************************************)
(* One step of a provider's backend (core/llm.py): a request, repeated     *)
(* while the provider's errors are transient; once more, with a higher     *)
(* limit, if the response was cut off; the account of what was used; and   *)
(* what of it is an answer.  The four backends differ in how the provider  *)
(* counts cached tokens and in the errors they have a case for.            *)
(*                                                                         *)
(* The provider is the environment.  A response is what it has cost, how   *)
(* it stopped and what is in it.                                           *)
(***************************************************************************)
EXTENDS Integers

CONSTANTS
    Backends,            \* those a run may have
    MaxTokens, Ceiling,  \* llm.max_tokens; MAX_TOKENS_RETRY_CEILING or Anthropic's
    Attempts,            \* attempts of _call_with_retry
    Usages,              \* bound: what a response may cost
    None

ASSUME LlmAssumption ==
    /\ Backends \subseteq {"anthropic", "openai", "gemini", "bedrock"}
    /\ MaxTokens \in Nat /\ Ceiling \in Nat /\ Attempts \in Nat \ {0}
    /\ Usages \subseteq [fresh : Nat, cached : Nat, out : Nat]

VARIABLES
    backend,
    at,        \* where the step is
    cap,       \* the max_tokens of the request
    failures,  \* transient errors of this request
    kept,      \* truncated_attempt: the response that was cut off
    resp,      \* the last response
    usage,     \* what the step reports, with its answer or its error
    billed     \* history: what the provider has charged for, all steps

stepVars == <<backend, at, cap, failures, kept, resp, usage, billed>>

Counts    == [fresh : Nat, cached : Nat, out : Nat]
Nothing   == [fresh |-> 0, cached |-> 0, out |-> 0]
Stops     == {"whole", "cut", "refused"}   \* refused: _BEDROCK_FAILURE_STOP_REASONS and their like
Contents  == {"calls", "text", "empty", "garbled"}   \* garbled: arguments that are no JSON
Responses == [cost : Usages, stop : Stops, content : Contents]

ASSUME NoneIsNoAccount == None \notin Counts \cup Responses

Plus(a, b) == [fresh |-> a.fresh + b.fresh, cached |-> a.cached + b.cached, out |-> a.out + b.out]

StepTypeOK ==
    /\ backend \in Backends
    /\ at \in {"idle", "request", "judge", "answered", "error", "raised"}
    /\ cap \in Nat /\ failures \in 0 .. Attempts - 1
    /\ kept \in Responses \cup {None} /\ resp \in Responses \cup {None}
    /\ usage \in Counts \cup {None} /\ billed \in Counts

StepInit ==
    /\ backend \in Backends /\ at = "idle" /\ cap = 0 /\ failures = 0
    /\ kept = None /\ resp = None /\ usage = None /\ billed = Nothing

-----------------------------------------------------------------------------
(* The account.                                                            *)

(* What the provider says: for OpenAI and Gemini the prompt includes what  *)
(* was read from the cache, for Anthropic and Bedrock it does not.         *)
Inclusive == backend \in {"openai", "gemini"}

Prompt(r) == IF Inclusive THEN r.cost.fresh + r.cost.cached ELSE r.cost.fresh

NonCached(prompt, cached) == IF prompt > cached THEN prompt - cached ELSE 0

Input_AsTold(r) == Prompt(r)   \* defect: the cached part is charged twice

Input(r) == IF Inclusive THEN NonCached(Prompt(r), r.cost.cached) ELSE Prompt(r)

Used(r) ==
    IF r = None THEN Nothing
    ELSE [fresh |-> Input(r), cached |-> r.cost.cached, out |-> r.cost.out]

CallUsage_LastOnly == Used(resp)   \* defect: what was cut off is forgotten

CallUsage == Plus(Used(resp), Used(kept))

-----------------------------------------------------------------------------
(* The request.                                                            *)

Step ==
    /\ at = "idle" /\ at' = "request"
    /\ cap' = MaxTokens /\ failures' = 0 /\ kept' = None /\ resp' = None /\ usage' = None
    /\ UNCHANGED <<backend, billed>>

Respond(r) ==
    /\ at = "request" /\ at' = "judge"
    /\ resp' = r /\ billed' = Plus(billed, r.cost)
    /\ UNCHANGED <<backend, cap, failures, kept, usage>>

Ends(how) == at' = how /\ UNCHANGED <<backend, cap, kept, resp, billed>>

(* A rate limit, a lost connection, a server's error; with attempts left   *)
(* the request is made again.                                              *)
Transient ==
    /\ at = "request" /\ failures < Attempts - 1
    /\ failures' = failures + 1
    /\ UNCHANGED <<backend, at, cap, kept, resp, usage, billed>>

Exhausted ==
    /\ at = "request" /\ failures = Attempts - 1
    /\ Ends("error") /\ UNCHANGED <<failures, usage>>

(* An error that is not transient becomes an LLMError without usage.  One  *)
(* that is not the SDK's own passes through: OpenAI's response without     *)
(* choices, the transport under Gemini's SDK.                              *)
ApiError == at = "request" /\ Ends("error") /\ UNCHANGED <<failures, usage>>

PassesThrough ==
    /\ at = "request" /\ Inclusive
    /\ Ends("raised") /\ UNCHANGED <<failures, usage>>

-----------------------------------------------------------------------------
(* The response.                                                           *)

RetryCap == IF 2 * MaxTokens < Ceiling THEN 2 * MaxTokens ELSE Ceiling

MayRetry == kept = None /\ RetryCap > MaxTokens

RetryTruncated ==
    /\ at = "judge" /\ resp.stop = "cut" /\ MayRetry
    /\ at' = "request" /\ cap' = RetryCap /\ failures' = 0 /\ kept' = resp
    /\ UNCHANGED <<backend, resp, usage, billed>>

TruncatedForGood ==
    /\ at = "judge" /\ resp.stop = "cut" /\ ~MayRetry
    /\ Ends("error") /\ usage' = CallUsage /\ UNCHANGED failures

(* Only Bedrock's backend knows the reasons for which a response is none.  *)
Refused ==
    /\ at = "judge" /\ resp.stop = "refused" /\ backend = "bedrock"
    /\ Ends("error") /\ UNCHANGED <<failures, usage>>

(* json.loads of a call's arguments, in OpenAI's backend.                  *)
Garbled ==
    /\ at = "judge" /\ resp.content = "garbled"
    /\ resp.stop = "whole" \/ (resp.stop = "refused" /\ backend # "bedrock")
    /\ Ends("raised") /\ UNCHANGED <<failures, usage>>

Answer_Any ==   \* defect: after the one retry whatever came is the answer
    /\ at = "judge" /\ resp.content # "garbled"
    /\ resp.stop = "whole" \/ (resp.stop = "refused" /\ backend # "bedrock") \/ (resp.stop = "cut" /\ kept # None)
    /\ Ends("answered") /\ usage' = CallUsage /\ UNCHANGED failures

Answer ==
    /\ at = "judge" /\ resp.content # "garbled"
    /\ resp.stop = "whole" \/ (resp.stop = "refused" /\ backend # "bedrock")
    /\ Ends("answered") /\ usage' = CallUsage /\ UNCHANGED failures

(* The backend can meet garbled arguments only where it parses them.       *)
Possible(r) == r.content = "garbled" => backend = "openai"

Provider ==
    \/ \E r \in Responses : Possible(r) /\ Respond(r)
    \/ Transient \/ Exhausted \/ ApiError \/ PassesThrough

Judge == RetryTruncated \/ TruncatedForGood \/ Refused \/ Garbled \/ Answer

StepNext == Provider \/ Judge

-----------------------------------------------------------------------------
(* Properties.                                                             *)

(* A truncated response is never an answer, nor one that Bedrock refused:  *)
(* its calls are not dispatched, its text is not returned.                 *)
OnlyWholeAnswers ==
    at = "answered" => resp.stop # "cut" /\ (backend = "bedrock" => resp.stop = "whole")

(* "returning the (empty/partial) message as a real answer would be        *)
(* wrong", llm.py:998, of every backend: the others have the same reasons  *)
(* (SAFETY, content_filter, refusal) and no case for them.                 *)
NoPartialAnswer == at = "answered" => resp.stop = "whole"

(* LLMError, llm.py:61: "ends the run cleanly instead of crashing with a   *)
(* raw provider traceback".                                                *)
NoRawTraceback == at # "raised"
=============================================================================
