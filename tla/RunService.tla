------------------------------ MODULE RunService ------------------------------
(***************************************************************************)
(* The life of a run in FabriService (service/service.py): a request       *)
(* thread submits it, a child process works on it, and any number of       *)
(* request threads wait for its result, stream it or cancel it.  What      *)
(* happened is recorded twice: a line in index.jsonl and a row in runs.db. *)
(* The service may stop or crash between any two steps; the child is the   *)
(* leader of its own session (launcher.py, start_new_session) and goes on. *)
(***************************************************************************)
EXTENDS Naturals, Sequences, FiniteSets

CONSTANTS
    Sessions,      \* the session ids submit() may draw
    Callers,       \* the service's request threads
    None,          \* no session
    LogUnits,      \* bound: units of log output a child may write to stderr
    PipeCap,       \* units the stderr pipe holds before the child blocks
    MaxStops,      \* bound: how often the service may crash or be shut down
    EarlyClients   \* may a client learn an id (GET /questions) before submit returns?

ASSUME RunServiceAssumption ==
    /\ None \notin Sessions
    /\ LogUnits \in Nat
    /\ PipeCap \in Nat \ {0}
    /\ MaxStops \in Nat
    /\ EarlyClients \in BOOLEAN

VARIABLES
    \* the child process of each session and what it leaves behind
    child, logs, pipe, piped, signalled, trace, stdout,
    \* the memory of the service process
    up, stops, runs, asks, finalized, cache,
    \* the two durable histories: the lines of index.jsonl, the rows of runs.db
    index, row,
    \* the request threads: where each one is, on which session, what it holds
    pc, on, event, env, torn,
    \* what clients have been told
    known, told, cancelled

childVars   == <<child, logs, pipe, piped, signalled, trace, stdout>>
memoryVars  == <<up, stops, runs, asks, finalized, cache>>
historyVars == <<index, row>>
callerVars  == <<pc, on, event, env, torn>>
clientVars  == <<known, told, cancelled>>
vars == <<childVars, memoryVars, historyVars, callerVars, clientVars>>

-----------------------------------------------------------------------------
(* "all_tools_failed" is the outcome on which the agent's success flag and  *)
(* the service's set of success outcomes differ.                            *)
Outcomes        == {"success", "all_tools_failed", "failed"}
SuccessOutcomes == {"success"}

(* What RunHandle.result gives: the child's own envelope, or "error" for    *)
(* the envelope built when no JSON object was found on its stdout.          *)
Envelopes == Outcomes \cup {"error"}

Event(e)     == [event : {e}, outcome : Envelopes \cup {"none", "cancelled"}]
Line(e, o)   == [event |-> e, outcome |-> o]
Records      == Event("submit") \cup Event("result") \cup Event("cancel")
Rows         == Event("absent") \cup Records
Terminal(r)  == r.event \in {"result", "cancel"}

PCs == {"idle", "launch", "register", "index", "store", "tail", "wait", "close",
        "terminate", "release", "shut", "check", "claim", "append", "record"}

(* A request thread that is past the guard of _finalize and not done yet.   *)
Finalizing(c) == pc[c] \in {"claim", "append", "record"}

Settled(s) == Terminal(row[s]) /\ \A c \in Callers : on[c] = s => ~Finalizing(c)

Go(c, label) == pc' = [pc EXCEPT ![c] = label]

(* The request of c is over and its locals are gone.                        *)
Answered(c) ==
    /\ Go(c, "idle")
    /\ on' = [on EXCEPT ![c] = None]
    /\ event' = [event EXCEPT ![c] = "result"]
    /\ env' = [env EXCEPT ![c] = "none"]
    /\ torn' = [torn EXCEPT ![c] = FALSE]

(* The "success" flag of the agent's envelope, and the one                 *)
(* _persisted_result derives from the trace.                                *)
Verdicts            == {"success", "failure"}
LiveSuccess(o)      == IF o \in {"success", "all_tools_failed"} THEN "success" ELSE "failure"
PersistedSuccess(o) == IF o \in SuccessOutcomes THEN "success" ELSE "failure"

(* RunStore._summary: the status history shows for a row.                   *)
StatusOf(r) == CASE r.event = "cancel" -> "cancelled"
                 [] r.event = "result" -> IF r.outcome \in SuccessOutcomes THEN "done" ELSE "error"
                 [] OTHER -> "running"

(* list_sessions: a row, with a handle whose process is alive overlaid.     *)
Listed(s) == IF s \in runs /\ child[s] # "exited" THEN "running" ELSE StatusOf(row[s])

-----------------------------------------------------------------------------
ChildTypes ==
    /\ child \in [Sessions -> {"absent", "working", "reported", "exited"}]
    /\ logs \in [Sessions -> 0..LogUnits]
    /\ pipe \in [Sessions -> 0..PipeCap]
    /\ piped \in [Sessions -> BOOLEAN]
    /\ signalled \in [Sessions -> BOOLEAN]
    /\ trace \in [Sessions -> Outcomes \cup {"none"}]
    /\ stdout \in [Sessions -> Envelopes]

MemoryTypes ==
    /\ up \in BOOLEAN /\ stops \in 0..MaxStops
    /\ runs \in SUBSET Sessions
    /\ asks \in [Sessions -> {"none", "open", "popped", "closed"}]
    /\ finalized \in SUBSET Sessions
    /\ cache \in [Sessions -> Envelopes \cup {"unset"}]

HistoryTypes ==
    /\ index \in Seq([s : Sessions, rec : Records])
    /\ row \in [Sessions -> Rows]

CallerTypes ==
    /\ pc \in [Callers -> PCs]
    /\ on \in [Callers -> Sessions \cup {None}]
    /\ \A c \in Callers : pc[c] # "idle" => on[c] \in Sessions
    /\ event \in [Callers -> {"result", "cancel"}]
    /\ env \in [Callers -> Envelopes \cup {"none", "cancelled"}]
    /\ torn \in [Callers -> BOOLEAN]

ClientTypes ==
    /\ known \in SUBSET Sessions
    /\ told \in [Sessions -> SUBSET [via : {"live", "persisted"}, env : Envelopes, success : Verdicts]]
    /\ cancelled \in SUBSET Sessions

TypeOK == ChildTypes /\ MemoryTypes /\ HistoryTypes /\ CallerTypes /\ ClientTypes

Init ==
    /\ child = [s \in Sessions |-> "absent"]
    /\ logs = [s \in Sessions |-> 0]
    /\ pipe = [s \in Sessions |-> 0]
    /\ piped = [s \in Sessions |-> FALSE]
    /\ signalled = [s \in Sessions |-> FALSE]
    /\ trace = [s \in Sessions |-> "none"]
    /\ stdout = [s \in Sessions |-> "error"]
    /\ up = TRUE /\ stops = 0
    /\ runs = {} /\ finalized = {}
    /\ asks = [s \in Sessions |-> "none"]
    /\ cache = [s \in Sessions |-> "unset"]
    /\ index = <<>>
    /\ row = [s \in Sessions |-> Line("absent", "none")]
    /\ pc = [c \in Callers |-> "idle"]
    /\ on = [c \in Callers |-> None]
    /\ event = [c \in Callers |-> "result"]
    /\ env = [c \in Callers |-> "none"]
    /\ torn = [c \in Callers |-> FALSE]
    /\ known = {}
    /\ told = [s \in Sessions |-> {}]
    /\ cancelled = {}

-----------------------------------------------------------------------------
(* The child: fabri run.  It logs to stderr, ends its trace with a terminal *)
(* event, and prints its envelope; stdout is a block-buffered pipe, so the  *)
(* envelope is seen by the parent when the child exits.                     *)

ChildLog_NeverBlocks(s) ==   \* defect: the pipe has no limit
    /\ child[s] = "working" /\ logs[s] > 0
    /\ logs' = [logs EXCEPT ![s] = @ - 1]
    /\ pipe' = [pipe EXCEPT ![s] = IF piped[s] THEN @ + 1 ELSE @]
    /\ UNCHANGED <<child, piped, signalled, trace, stdout>>
    /\ UNCHANGED <<memoryVars, historyVars, callerVars, clientVars>>

ChildLog(s) ==
    /\ child[s] = "working" /\ logs[s] > 0
    /\ piped[s] => pipe[s] < PipeCap
    /\ logs' = [logs EXCEPT ![s] = @ - 1]
    /\ pipe' = [pipe EXCEPT ![s] = IF piped[s] THEN @ + 1 ELSE @]
    /\ UNCHANGED <<child, piped, signalled, trace, stdout>>
    /\ UNCHANGED <<memoryVars, historyVars, callerVars, clientVars>>

ChildReport(s) ==
    /\ child[s] = "working" /\ logs[s] = 0
    /\ \E o \in Outcomes : trace' = [trace EXCEPT ![s] = o]
    /\ child' = [child EXCEPT ![s] = "reported"]
    /\ UNCHANGED <<logs, pipe, piped, signalled, stdout>>
    /\ UNCHANGED <<memoryVars, historyVars, callerVars, clientVars>>

ChildExit(s) ==
    /\ child[s] = "reported"
    /\ child' = [child EXCEPT ![s] = "exited"]
    /\ stdout' = [stdout EXCEPT ![s] = IF piped[s] THEN trace[s] ELSE @]
    /\ UNCHANGED <<logs, pipe, piped, signalled, trace>>
    /\ UNCHANGED <<memoryVars, historyVars, callerVars, clientVars>>

(* An exception that leaves run_agent (AgentProtocolError): no terminal     *)
(* event, no envelope.                                                      *)
ChildRaises(s) ==
    /\ child[s] = "working" /\ logs[s] = 0
    /\ child' = [child EXCEPT ![s] = "exited"]
    /\ UNCHANGED <<logs, pipe, piped, signalled, trace, stdout>>
    /\ UNCHANGED <<memoryVars, historyVars, callerVars, clientVars>>

(* SIGTERM ends the interpreter without flushing stdout: the envelope is    *)
(* there only if it was too large for the buffer.                           *)
ChildKilled(s) ==
    /\ signalled[s] /\ child[s] \in {"working", "reported"}
    /\ child' = [child EXCEPT ![s] = "exited"]
    /\ \/ UNCHANGED stdout
       \/ /\ child[s] = "reported" /\ piped[s]
          /\ stdout' = [stdout EXCEPT ![s] = trace[s]]
    /\ UNCHANGED <<logs, pipe, piped, signalled, trace>>
    /\ UNCHANGED <<memoryVars, historyVars, callerVars, clientVars>>

-----------------------------------------------------------------------------
(* submit(): bridge, child, handle, index line, row - in this order.        *)

SubmitStart(c, s) ==
    /\ up /\ pc[c] = "idle"
    /\ child[s] = "absent" /\ asks[s] = "none" /\ \A d \in Callers : on[d] # s
    /\ asks' = [asks EXCEPT ![s] = "open"]
    /\ on' = [on EXCEPT ![c] = s] /\ Go(c, "launch")
    /\ UNCHANGED <<event, env, torn, up, stops, runs, finalized, cache>>
    /\ UNCHANGED <<childVars, historyVars, clientVars>>

SubmitLaunch(c) ==
    /\ pc[c] = "launch" /\ Go(c, "register")
    /\ child' = [child EXCEPT ![on[c]] = "working"]
    /\ piped' = [piped EXCEPT ![on[c]] = TRUE]
    /\ \E n \in 0..LogUnits : logs' = [logs EXCEPT ![on[c]] = n]
    /\ UNCHANGED <<pipe, signalled, trace, stdout, on, event, env, torn>>
    /\ UNCHANGED <<memoryVars, historyVars, clientVars>>

(* Popen raises: the caller of submit gets the exception, the bridge stays. *)
SubmitFails(c) ==
    /\ pc[c] = "launch" /\ Answered(c)
    /\ UNCHANGED <<childVars, memoryVars, historyVars, clientVars>>

SubmitRegister(c) ==
    /\ pc[c] = "register" /\ Go(c, "index")
    /\ runs' = runs \cup {on[c]}
    /\ UNCHANGED <<on, event, env, torn, up, stops, asks, finalized, cache>>
    /\ UNCHANGED <<childVars, historyVars, clientVars>>

SubmitIndex_NoStore(c) ==   \* defect: record_submit is never called
    /\ pc[c] = "index" /\ Answered(c)
    /\ index' = Append(index, [s |-> on[c], rec |-> Line("submit", "none")])
    /\ known' = known \cup {on[c]}
    /\ UNCHANGED <<row, told, cancelled, childVars, memoryVars>>

SubmitIndex(c) ==
    /\ pc[c] = "index" /\ Go(c, "store")
    /\ index' = Append(index, [s |-> on[c], rec |-> Line("submit", "none")])
    /\ UNCHANGED <<on, event, env, torn, row>>
    /\ UNCHANGED <<childVars, memoryVars, clientVars>>

(* record_submit is INSERT OR IGNORE; then submit returns the id.           *)
SubmitStore(c) ==
    /\ pc[c] = "store" /\ Answered(c)
    /\ row' = [row EXCEPT ![on[c]] =
                 IF @.event = "absent" THEN Line("submit", "none") ELSE @]
    /\ known' = known \cup {on[c]}
    /\ UNCHANGED <<index, told, cancelled, childVars, memoryVars>>

-----------------------------------------------------------------------------
(* result() and stream() of a run whose handle this process holds.          *)

Reachable(s) == s \in known \/ (EarlyClients /\ asks[s] = "open" /\ child[s] = "working")

Waiting(s) == {d \in Callers : pc[d] = "wait" /\ on[d] = s}

(* RunHandle.wait: Popen.communicate() drains both pipes.  Two threads in   *)
(* it at once take the data, and the descriptors, away from each other,     *)
(* until one of them has stored what it read.                               *)
EnterWait(c, s) ==
    LET tangled == IF Waiting(s) # {} /\ cache[s] = "unset" THEN Waiting(s) \cup {c} ELSE {}
    IN  /\ Go(c, "wait")
        /\ torn' = [d \in Callers |-> d \in tangled \/ (d # c /\ torn[d])]

Result(c, s) ==
    /\ up /\ pc[c] = "idle" /\ Reachable(s) /\ s \in runs
    /\ on' = [on EXCEPT ![c] = s] /\ event' = [event EXCEPT ![c] = "result"]
    /\ EnterWait(c, s)
    /\ UNCHANGED <<env, childVars, memoryVars, historyVars, clientVars>>

(* The SSE handler and serve_stdio tail the trace until is_running() is     *)
(* false, and only then call result().                                      *)
Stream(c, s) ==
    /\ up /\ pc[c] = "idle" /\ Reachable(s) /\ s \in runs
    /\ on' = [on EXCEPT ![c] = s] /\ event' = [event EXCEPT ![c] = "result"]
    /\ Go(c, "tail")
    /\ UNCHANGED <<env, torn, childVars, memoryVars, historyVars, clientVars>>

StreamEnds(c) ==
    /\ pc[c] = "tail" /\ child[on[c]] = "exited"
    /\ EnterWait(c, on[c])
    /\ UNCHANGED <<on, event, env, childVars, memoryVars, historyVars, clientVars>>

Drain_AfterExit(s) ==   \* defect: wait() for the process first, then read
    /\ Waiting(s) # {} /\ pipe[s] > 0 /\ child[s] = "exited"
    /\ pipe' = [pipe EXCEPT ![s] = 0]
    /\ UNCHANGED <<child, logs, piped, signalled, trace, stdout>>
    /\ UNCHANGED <<memoryVars, historyVars, callerVars, clientVars>>

Drain(s) ==
    /\ Waiting(s) # {} /\ pipe[s] > 0
    /\ pipe' = [pipe EXCEPT ![s] = 0]
    /\ UNCHANGED <<child, logs, piped, signalled, trace, stdout>>
    /\ UNCHANGED <<memoryVars, historyVars, callerVars, clientVars>>

(* What RunHandle.result can make of the pipes now that the child is gone.  *)
Collected_Optimistic(c) ==   \* defect: no envelope is taken for a success
    IF cache[on[c]] # "unset" THEN {cache[on[c]]}
    ELSE IF stdout[on[c]] = "error" THEN {"success"} ELSE {stdout[on[c]]}

Collected(c) ==
    IF cache[on[c]] # "unset" THEN {cache[on[c]]}
    ELSE {stdout[on[c]]} \cup (IF torn[c] THEN {"error"} ELSE {})

WaitReturns_StillRunning(c) ==   \* defect: does not wait for the child
    /\ pc[c] = "wait" /\ Go(c, "close")
    /\ \E e \in Collected(c) : /\ env' = [env EXCEPT ![c] = e]
                               /\ cache' = [cache EXCEPT ![on[c]] = e]
    /\ pipe' = [pipe EXCEPT ![on[c]] = 0]
    /\ UNCHANGED <<child, logs, piped, signalled, trace, stdout>>
    /\ UNCHANGED <<on, event, torn, up, stops, runs, asks, finalized>>
    /\ UNCHANGED <<historyVars, clientVars>>

WaitReturns(c) ==
    /\ pc[c] = "wait" /\ child[on[c]] = "exited" /\ Go(c, "close")
    /\ \E e \in Collected(c) : /\ env' = [env EXCEPT ![c] = e]
                               /\ cache' = [cache EXCEPT ![on[c]] = e]
    /\ pipe' = [pipe EXCEPT ![on[c]] = 0]
    /\ UNCHANGED <<child, logs, piped, signalled, trace, stdout>>
    /\ UNCHANGED <<on, event, torn, up, stops, runs, asks, finalized>>
    /\ UNCHANGED <<historyVars, clientVars>>

(* OSError (EBADF) out of communicate(): result() raises, nothing is kept.  *)
WaitRaises(c) ==
    /\ pc[c] = "wait" /\ torn[c] /\ child[on[c]] = "exited" /\ Answered(c)
    /\ UNCHANGED <<childVars, memoryVars, historyVars, clientVars>>

(* A cancel that found the run ended is done; the others go to _finalize.   *)
Released(c) ==
    \/ env[c] # "none" /\ Go(c, "check") /\ UNCHANGED <<on, event, env, torn>>
    \/ env[c] = "none" /\ Answered(c)

(* _close_ask: one thread gets the listener out of _asks, the others get    *)
(* None and go on at once; no lock is held until it is closed.              *)
CloseAsk(c) ==
    \/ /\ asks[on[c]] = "open" /\ asks' = [asks EXCEPT ![on[c]] = "popped"]
       /\ Go(c, "shut") /\ UNCHANGED <<on, event, env, torn>>
    \/ /\ asks[on[c]] # "open" /\ UNCHANGED asks
       /\ Released(c)

(* listener.close().                                                        *)
ShutBridge(c) ==
    /\ pc[c] = "shut" /\ Released(c)
    /\ asks' = [asks EXCEPT ![on[c]] = "closed"]
    /\ UNCHANGED <<up, stops, runs, finalized, cache>>
    /\ UNCHANGED <<childVars, historyVars, clientVars>>

ResultClose_KeepsBridge(c) ==   \* defect: the listener is not closed
    /\ pc[c] = "close" /\ Go(c, "check")
    /\ UNCHANGED <<on, event, env, torn, childVars, memoryVars, historyVars, clientVars>>

ResultClose(c) ==
    /\ pc[c] = "close" /\ CloseAsk(c)
    /\ UNCHANGED <<up, stops, runs, finalized, cache>>
    /\ UNCHANGED <<childVars, historyVars, clientVars>>

(* What the client of c is told when its request is done.                   *)
Tell(c) ==
    /\ Answered(c)
    /\ told' = IF event[c] = "cancel" THEN told
               ELSE [told EXCEPT ![on[c]] = @ \cup
                       {[via |-> "live", env |-> env[c], success |-> LiveSuccess(env[c])]}]
    /\ cancelled' = IF event[c] = "cancel" THEN cancelled \cup {on[c]} ELSE cancelled
    /\ UNCHANGED known

-----------------------------------------------------------------------------
(* cancel() of a run whose handle this process holds.  The event is         *)
(* "cancel" when the run was found running.                                 *)

Cancel(c, s) ==
    /\ up /\ pc[c] = "idle" /\ Reachable(s) /\ s \in runs
    /\ on' = [on EXCEPT ![c] = s]
    /\ event' = [event EXCEPT ![c] = "cancel"]
    /\ env' = [env EXCEPT ![c] = IF child[s] # "exited" THEN "cancelled" ELSE "none"]
    /\ Go(c, "terminate")
    /\ UNCHANGED <<torn, childVars, memoryVars, historyVars, clientVars>>

CancelTerminate(c) ==
    /\ pc[c] = "terminate" /\ Go(c, "release")
    /\ signalled' = [signalled EXCEPT ![on[c]] = @ \/ child[on[c]] # "exited"]
    /\ UNCHANGED <<child, logs, pipe, piped, trace, stdout, on, event, env, torn>>
    /\ UNCHANGED <<memoryVars, historyVars, clientVars>>

CancelRelease(c) ==
    /\ pc[c] = "release" /\ CloseAsk(c)
    /\ UNCHANGED <<up, stops, runs, finalized, cache>>
    /\ UNCHANGED <<childVars, historyVars, clientVars>>

-----------------------------------------------------------------------------
(* _finalize: the guard, the set, the index line and the row are four steps *)
(* that no lock covers.                                                     *)

FinalizeSkip(c) ==
    /\ pc[c] = "check" /\ on[c] \in finalized
    /\ Tell(c)
    /\ UNCHANGED <<childVars, memoryVars, historyVars>>

FinalizeCheck_NoGuard(c) ==   \* defect: the _finalized set is not consulted
    /\ pc[c] = "check"
    /\ Go(c, "claim")
    /\ UNCHANGED <<on, event, env, torn, childVars, memoryVars, historyVars, clientVars>>

FinalizeCheck(c) ==
    /\ pc[c] = "check" /\ on[c] \notin finalized
    /\ Go(c, "claim")
    /\ UNCHANGED <<on, event, env, torn, childVars, memoryVars, historyVars, clientVars>>

FinalizeClaim_NoIndex(c) ==   \* defect: the row is written without the index line
    /\ pc[c] = "claim" /\ Go(c, "record")
    /\ finalized' = finalized \cup {on[c]}
    /\ UNCHANGED <<on, event, env, torn, up, stops, runs, asks, cache>>
    /\ UNCHANGED <<childVars, historyVars, clientVars>>

FinalizeClaim(c) ==
    /\ pc[c] = "claim" /\ Go(c, "append")
    /\ finalized' = finalized \cup {on[c]}
    /\ UNCHANGED <<on, event, env, torn, up, stops, runs, asks, cache>>
    /\ UNCHANGED <<childVars, historyVars, clientVars>>

FinalizeIndex(c) ==
    /\ pc[c] = "append" /\ Go(c, "record")
    /\ index' = Append(index, [s |-> on[c], rec |-> Line(event[c], env[c])])
    /\ UNCHANGED <<on, event, env, torn, row, childVars, memoryVars, clientVars>>

(* record_terminal is an UPDATE: it overwrites, and does nothing to a row   *)
(* that is not there.                                                       *)
FinalizeStore(c) ==
    /\ pc[c] = "record"
    /\ row' = [row EXCEPT ![on[c]] =
                 IF @.event = "absent" THEN @ ELSE Line(event[c], env[c])]
    /\ Tell(c)
    /\ UNCHANGED <<index, childVars, memoryVars>>

-----------------------------------------------------------------------------
(* A run of an earlier process: _persisted_result answers from its trace.   *)

PersistedResult(c, s) ==
    /\ up /\ pc[c] = "idle" /\ s \notin runs
    /\ row[s].event # "absent" /\ trace[s] # "none"
    /\ told' = [told EXCEPT ![s] = @ \cup
                  {[via |-> "persisted", env |-> trace[s], success |-> PersistedSuccess(trace[s])]}]
    /\ UNCHANGED <<known, cancelled, childVars, memoryVars, historyVars, callerVars>>

(* The service process is gone: its memory, its threads, its pipe ends.     *)
Gone ==
    /\ up /\ stops < MaxStops
    /\ up' = FALSE /\ stops' = stops + 1
    /\ runs' = {} /\ finalized' = {}
    /\ asks' = [s \in Sessions |-> IF asks[s] = "none" THEN "none" ELSE "closed"]
    /\ cache' = [s \in Sessions |-> "unset"]
    /\ piped' = [s \in Sessions |-> FALSE]
    /\ pipe' = [s \in Sessions |-> 0]
    /\ pc' = [c \in Callers |-> "idle"] /\ on' = [c \in Callers |-> None]
    /\ event' = [c \in Callers |-> "result"] /\ env' = [c \in Callers |-> "none"]
    /\ torn' = [c \in Callers |-> FALSE]
    /\ UNCHANGED <<child, logs, trace, stdout, historyVars, clientVars>>

Crash == Gone /\ UNCHANGED signalled

(* close(): every child is terminated, no terminal record is written.       *)
Shutdown ==
    /\ Gone
    /\ signalled' = [s \in Sessions |-> signalled[s] \/ (s \in runs /\ child[s] # "exited")]

(* RunStore.__init__: an empty store is filled from the index, line by line; *)
(* a terminal line counts if the row is there by then, the last one wins.   *)
Submitted(s, i)  == index[i].s = s /\ index[i].rec.event = "submit"
Ended(s, i)      == /\ index[i].s = s /\ Terminal(index[i].rec)
                    /\ \E j \in 1..(i - 1) : Submitted(s, j)
Migrated(s) ==
    LET lines == 1..Len(index) IN
    IF \E i \in lines : Ended(s, i)
    THEN {index[i].rec : i \in {k \in lines : Ended(s, k) /\ \A l \in (k + 1)..Len(index) : ~Ended(s, l)}}
    ELSE IF \E i \in lines : Submitted(s, i) THEN {Line("submit", "none")} ELSE {Line("absent", "none")}

Restart ==
    /\ ~up /\ up' = TRUE
    /\ IF \A s \in Sessions : row[s].event = "absent"
       THEN row' \in {r \in [Sessions -> Rows] : \A s \in Sessions : r[s] \in Migrated(s)}
       ELSE UNCHANGED row
    /\ UNCHANGED <<stops, runs, asks, finalized, cache, index>>
    /\ UNCHANGED <<childVars, callerVars, clientVars>>

-----------------------------------------------------------------------------
ChildStep(s) == \/ ChildLog(s) \/ ChildReport(s) \/ ChildExit(s)
                \/ ChildRaises(s) \/ ChildKilled(s)

CallerStep(c) ==
    \/ SubmitLaunch(c) \/ SubmitFails(c) \/ SubmitRegister(c) \/ SubmitIndex(c) \/ SubmitStore(c)
    \/ StreamEnds(c) \/ WaitReturns(c) \/ WaitRaises(c) \/ ResultClose(c)
    \/ CancelTerminate(c) \/ CancelRelease(c) \/ ShutBridge(c)
    \/ FinalizeSkip(c) \/ FinalizeCheck(c) \/ FinalizeClaim(c)
    \/ FinalizeIndex(c) \/ FinalizeStore(c)

Request(c, s) == \/ SubmitStart(c, s) \/ Result(c, s) \/ Stream(c, s) \/ Cancel(c, s)
                 \/ PersistedResult(c, s)

Next ==
    \/ \E s \in Sessions : ChildStep(s) \/ Drain(s)
    \/ \E c \in Callers : CallerStep(c)
    \/ \E c \in Callers, s \in Sessions : Request(c, s)
    \/ Crash \/ Shutdown \/ Restart

Spec == Init /\ [][Next]_vars

(* The operating system runs the child and the service's threads.  Nothing  *)
(* obliges a client to send a request.                                      *)
Fairness ==
    /\ \A s \in Sessions : WF_vars(ChildStep(s)) /\ WF_vars(Drain(s))
    /\ \A c \in Callers : WF_vars(CallerStep(c))

FairSpec == Spec /\ Fairness

-----------------------------------------------------------------------------
(* Properties.                                                              *)

LinesOf(s) == {index[i].rec : i \in {j \in 1..Len(index) : index[j].s = s}}
Busy(s)    == \E c \in Callers : pc[c] # "idle" /\ on[c] = s

(* A "result" line is written only for a child that has exited, a "cancel"  *)
(* line only for one that was signalled or has exited: history never says   *)
(* that a run ended while nothing has been done to end it.                  *)
HistoryBackedByProcess ==
    \A s \in Sessions : \A r \in LinesOf(s) :
        /\ r.event = "result" => child[s] = "exited"
        /\ r.event = "cancel" => signalled[s] \/ child[s] = "exited"

(* An outcome in a "result" line is the one of the terminal event in the    *)
(* run's own trace, whoever read the envelope and however often.            *)
OutcomeBackedByTrace ==
    \A s \in Sessions : \A r \in LinesOf(s) :
        r.event = "result" /\ r.outcome \in Outcomes => r.outcome = trace[s]

(* The row never runs ahead of the index: whatever terminal state runs.db   *)
(* holds, a crash at any point leaves the same record in index.jsonl.       *)
IndexBeforeStore ==
    \A s \in Sessions : Terminal(row[s]) => row[s] \in LinesOf(s)

(* What either history says of a run has happened to its process and trace. *)
RecordsAreBacked == HistoryBackedByProcess /\ OutcomeBackedByTrace /\ IndexBeforeStore

Closers(s) == {c \in Callers : pc[c] = "shut" /\ on[c] = s}

(* Whoever is told that a run ended, no answer finds its bridge any more;   *)
(* and however many threads end it, one of them closes a listener that was  *)
(* taken out of _asks, and none closes another.                             *)
BridgeReleased ==
    \A s \in Sessions :
        /\ (s \in cancelled \/ \E r \in told[s] : r.via = "live") => asks[s] # "open"
        /\ IF asks[s] = "popped" THEN \E c \in Callers : Closers(s) = {c} ELSE Closers(s) = {}

Delivered(s) == ~Busy(s) /\ (\E r \in LinesOf(s) : Terminal(r)) => Terminal(row[s])

(* Without a stop and without early clients, a run whose end is in the      *)
(* index is ended in the store as soon as no request is working on it.      *)
NoLostTerminal == stops = 0 /\ ~EarlyClients => \A s \in Sessions : Delivered(s)

(* The same with early clients: a cancel before the run's row is written    *)
(* updates a row that is not there yet.                                     *)
EarlyTerminalsArrive == stops = 0 => \A s \in Sessions : Delivered(s)

EndLines(s) == {i \in 1..Len(index) : index[i].s = s /\ Terminal(index[i].rec)}

(* Once a terminal row stands and no request is inside _finalize for it,    *)
(* none gets inside again, and neither history says anything else: no later *)
(* result, stream, cancel, crash or restart changes the row or ends the run *)
(* in the index a second time.                                              *)
SettledIsFinal ==
    [][\A s \in Sessions :
          Settled(s) => Settled(s)' /\ row'[s] = row[s] /\ EndLines(s)' = EndLines(s)]_vars

(* A request that waits in communicate() gets out of it, however much the   *)
(* child logs: the waiter is the one who drains the pipe.                   *)
ResultReturns ==
    \A c \in Callers : pc[c] = "wait" ~> pc[c] # "wait"

(* service.py:717, "one terminal index line (guarded against dupes)".       *)
OneTerminalLine ==
    \A i, j \in 1..Len(index) :
        Terminal(index[i].rec) /\ Terminal(index[j].rec) /\ index[i].s = index[j].s => i = j

(* service.py:687-689, cancel "records a terminal cancel index line so      *)
(* history reflects the interruption".                                      *)
CancelIsInHistory ==
    \A s \in Sessions : s \in cancelled /\ ~Busy(s) => StatusOf(row[s]) = "cancelled"

(* launcher.py:192-195, stdout is no JSON if "the child crashed before      *)
(* printing": a run that printed its envelope is not recorded as an error   *)
(* without outcome.                                                         *)
ErrorMeansNoEnvelope ==
    \A s \in Sessions : \A r \in LinesOf(s) :
        r.event = "result" /\ r.outcome = "error" => stdout[s] = "error"

(* http_server.py:13-16, the event stream ends with a result frame: a       *)
(* stream gets out of its tail once the child has had the time it needs.    *)
StreamEndsWithResult ==
    \A c \in Callers : pc[c] = "tail" ~> pc[c] # "tail"

(* service.py:235-237, "history is re-derived from" the index: the status   *)
(* shown for a run nobody is working on is the one its lines give.          *)
HistoryIsTheIndex ==
    up => \A s \in Sessions :
        ~Busy(s) => \E r \in Migrated(s) : StatusOf(r) = StatusOf(row[s]) /\ (r.event = "absent") = (row[s].event = "absent")

(* service.py:616, a restarted service "reconstructs" a run's result: the   *)
(* success flag of one outcome does not depend on who is asked.             *)
SameVerdictAfterRestart ==
    \A s \in Sessions : \A l, p \in told[s] : l.env = p.env => l.success = p.success

=============================================================================
