--------------------------- MODULE RunServiceProofs ---------------------------
(***************************************************************************)
(* For any set of sessions and request threads, any pipe size and any      *)
(* number of stops: the variables of RunService keep their types, every    *)
(* record of how a run ended is backed by what its process did, a settled  *)
(* run stays as it is, and no end of a run is lost to the store.           *)
(***************************************************************************)
EXTENDS RunService, TLAPS

(* A request that is past the pop of the bridge.                            *)
Fin(c) == pc[c] \in {"shut", "check", "claim", "append", "record"}

(* What TypeOK leans on: an envelope is printed after a terminal event, and *)
(* a request that will answer with an envelope holds one.                   *)
TypeInv ==
    /\ TypeOK
    /\ \A s \in Sessions : child[s] = "reported" => trace[s] \in Outcomes
    /\ \A c \in Callers :
          /\ pc[c] \in {"terminate", "release"} => event[c] = "cancel"
          /\ pc[c] = "close" => env[c] \in Envelopes
          /\ Fin(c) /\ event[c] = "result" => env[c] \in Envelopes

(* A session has one launch, before which it has no process.                *)
LaunchInv ==
    /\ \A s \in runs : child[s] # "absent"
    /\ \A c \in Callers :
          /\ pc[c] = "launch" => /\ child[on[c]] = "absent"
                                /\ \A d \in Callers \ {c} : on[d] # on[c]
          /\ pc[c] = "register" => child[on[c]] # "absent"

(* Where a request stands tells what its process has done.                  *)
PhaseInv ==
    \A c \in Callers :
        /\ pc[c] = "close" => child[on[c]] = "exited"
        /\ pc[c] = "release" => signalled[on[c]] \/ child[on[c]] = "exited"
        /\ Fin(c) => /\ signalled[on[c]] \/ child[on[c]] = "exited"
                     /\ event[c] = "result" => child[on[c]] = "exited"

(* An outcome on its way to history comes from the trace of an ended run.   *)
TraceInv ==
    /\ \A s \in Sessions :
          /\ stdout[s] \in Outcomes => child[s] = "exited" /\ stdout[s] = trace[s]
          /\ cache[s] \in Outcomes => child[s] = "exited" /\ cache[s] = trace[s]
    /\ \A c \in Callers :
          /\ pc[c] = "idle" => env[c] = "none"
          /\ env[c] \in Outcomes => child[on[c]] = "exited" /\ env[c] = trace[on[c]]

(* A request that is about to write the row has written the line.           *)
StoreInv ==
    \A c \in Callers : pc[c] = "record" => Line(event[c], env[c]) \in LinesOf(on[c])

IInv == /\ TypeInv /\ LaunchInv /\ PhaseInv /\ TraceInv /\ StoreInv
        /\ HistoryBackedByProcess /\ OutcomeBackedByTrace /\ IndexBeforeStore

USE DEF childVars, memoryVars, historyVars, callerVars, clientVars

LEMMA ExceptTypes ==
    ASSUME NEW D, NEW R, NEW f \in [D -> R], NEW x, NEW v \in R
    PROVE  [f EXCEPT ![x] = v] \in [D -> R]
  OBVIOUS

(* A thread that is done with the bridge goes on to _finalize with what it  *)
(* holds, or its request is over.                                           *)
LEMMA ReleasedTypes ==
    ASSUME TypeInv, NEW c \in Callers, on[c] \in Sessions, Released(c)
    PROVE  CallerTypes'
<1> USE DEF TypeInv, TypeOK, CallerTypes, PCs
<1>1. CASE env[c] # "none" /\ Go(c, "check") /\ UNCHANGED <<on, event, env, torn>>
  BY <1>1 DEF Go
<1>2. CASE Answered(c)
  <2>1. pc' \in [Callers -> PCs] /\ on' \in [Callers -> Sessions \cup {None}]
    BY <1>2 DEF Answered, Go
  <2>2. \A d \in Callers : pc'[d] # "idle" => on'[d] \in Sessions
    BY <1>2 DEF Answered, Go
  <2>3. event' \in [Callers -> {"result", "cancel"}] /\ torn' \in [Callers -> BOOLEAN]
    BY <1>2 DEF Answered
  <2>4. env' \in [Callers -> Envelopes \cup {"none", "cancelled"}]
    BY <1>2 DEF Answered
  <2>5. QED
    BY <2>1, <2>2, <2>3, <2>4
<1>3. QED
  BY <1>1, <1>2 DEF Released

(* What TypeInv says of the threads is kept by one that is let go from      *)
(* close, release or shut.                                                  *)
LEMMA ReleasedHolds ==
    ASSUME TypeInv, NEW c \in Callers, pc[c] \in {"close", "release", "shut"}, Released(c)
    PROVE  /\ CallerTypes'
           /\ \A d \in Callers :
                 /\ pc'[d] \in {"terminate", "release"} => event'[d] = "cancel"
                 /\ pc'[d] = "close" => env'[d] \in Envelopes
                 /\ Fin(d)' /\ event'[d] = "result" => env'[d] \in Envelopes
<1> USE DEF TypeInv, TypeOK, CallerTypes, PCs, Fin
<1>1. on[c] \in Sessions
  OBVIOUS
<1>2. CASE env[c] # "none" /\ Go(c, "check") /\ UNCHANGED <<on, event, env, torn>>
  BY <1>1, <1>2, ReleasedTypes DEF Go
<1>3. CASE Answered(c)
  <2>1. pc' = [pc EXCEPT ![c] = "idle"]
    BY <1>3 DEF Answered, Go
  <2>2. \A d \in Callers \ {c} : event'[d] = event[d] /\ env'[d] = env[d] /\ pc'[d] = pc[d]
    BY <1>3, <2>1 DEF Answered
  <2>3. CallerTypes'
    BY <1>1, ReleasedTypes
  <2>4. QED
    BY <2>1, <2>2, <2>3
<1>4. QED
  BY <1>2, <1>3 DEF Released

LEMMA TypeStep == TypeInv /\ [Next]_vars => TypeInv'
<1> SUFFICES ASSUME TypeInv, [Next]_vars PROVE TypeInv'
  OBVIOUS
<1> USE RunServiceAssumption DEF RunServiceAssumption, TypeInv, TypeOK, ChildTypes, MemoryTypes, HistoryTypes,
             CallerTypes, ClientTypes, Fin, Envelopes, Outcomes, PCs
<1>1. ASSUME NEW s \in Sessions, ChildLog(s) PROVE TypeInv'
  BY <1>1 DEF ChildLog
<1>2. ASSUME NEW s \in Sessions, ChildReport(s) PROVE TypeInv'
  BY <1>2 DEF ChildReport
<1>3. ASSUME NEW s \in Sessions, ChildExit(s) PROVE TypeInv'
  BY <1>3 DEF ChildExit
<1>4. ASSUME NEW s \in Sessions, ChildRaises(s) PROVE TypeInv'
  BY <1>4 DEF ChildRaises
<1>5. ASSUME NEW s \in Sessions, ChildKilled(s) PROVE TypeInv'
  <2>1. stdout' = stdout \/ (child[s] = "reported" /\ stdout' = [stdout EXCEPT ![s] = trace[s]])
    BY <1>5 DEF ChildKilled
  <2>2. child[s] = "reported" => trace[s] \in Envelopes
    OBVIOUS
  <2>3. stdout' \in [Sessions -> Envelopes]
    BY <2>1, <2>2, ExceptTypes
  <2>4. child' = [child EXCEPT ![s] = "exited"]
    BY <1>5 DEF ChildKilled
  <2>5. child' \in [Sessions -> {"absent", "working", "reported", "exited"}]
    BY <2>4, ExceptTypes
  <2>6. UNCHANGED <<logs, pipe, piped, signalled, trace, memoryVars, historyVars, callerVars, clientVars>>
    BY <1>5 DEF ChildKilled
  <2>7. QED
    BY <2>3, <2>4, <2>5, <2>6
<1>6. ASSUME NEW s \in Sessions, Drain(s) PROVE TypeInv'
  BY <1>6 DEF Drain
<1>7. ASSUME NEW c \in Callers, SubmitLaunch(c) PROVE TypeInv'
  BY <1>7 DEF SubmitLaunch, Go
<1>8. ASSUME NEW c \in Callers, SubmitFails(c) PROVE TypeInv'
  BY <1>8 DEF SubmitFails, Answered, Go
<1>9. ASSUME NEW c \in Callers, SubmitRegister(c) PROVE TypeInv'
  BY <1>9 DEF SubmitRegister, Go
<1>10. ASSUME NEW c \in Callers, SubmitIndex(c) PROVE TypeInv'
  BY <1>10 DEF SubmitIndex, Go, Line, Records, Event
<1>11. ASSUME NEW c \in Callers, SubmitStore(c) PROVE TypeInv'
  BY <1>11 DEF SubmitStore, Answered, Go, Line, Records, Event, Rows
<1>12. ASSUME NEW c \in Callers, StreamEnds(c) PROVE TypeInv'
  BY <1>12 DEF StreamEnds, EnterWait, Go
<1>13. ASSUME NEW c \in Callers, WaitReturns(c) PROVE TypeInv'
  <2>1. PICK e \in Collected(c) : /\ env' = [env EXCEPT ![c] = e]
                                 /\ cache' = [cache EXCEPT ![on[c]] = e]
    BY <1>13 DEF WaitReturns
  <2>2. e \in Envelopes /\ on[c] \in Sessions
    BY <1>13 DEF WaitReturns, Collected
  <2>3. QED
    BY <1>13, <2>1, <2>2 DEF WaitReturns, Go
<1>14. ASSUME NEW c \in Callers, WaitRaises(c) PROVE TypeInv'
  BY <1>14 DEF WaitRaises, Answered, Go
<1>15. ASSUME NEW c \in Callers, ResultClose(c) PROVE TypeInv'
  <2>0. asks' = [asks EXCEPT ![on[c]] = "popped"] \/ asks' = asks
    BY <1>15 DEF ResultClose, CloseAsk
  <2>1. asks' \in [Sessions -> {"none", "open", "popped", "closed"}]
    BY <2>0, ExceptTypes
  <2>2. MemoryTypes' /\ ChildTypes' /\ HistoryTypes' /\ ClientTypes'
    BY <1>15, <2>1 DEF ResultClose
  <2>3. pc[c] \in {"close"} /\ child' = child /\ trace' = trace
    BY <1>15 DEF ResultClose
  <2>4. CASE Go(c, "shut") /\ UNCHANGED <<on, event, env, torn>>
    BY <2>2, <2>3, <2>4 DEF Go
  <2>5. CASE Released(c)
    BY <2>2, <2>3, <2>5, ReleasedHolds
  <2>6. QED
    BY <1>15, <2>4, <2>5 DEF ResultClose, CloseAsk
<1>16. ASSUME NEW c \in Callers, CancelTerminate(c) PROVE TypeInv'
  BY <1>16 DEF CancelTerminate, Go
<1>17. ASSUME NEW c \in Callers, CancelRelease(c) PROVE TypeInv'
  <2>0. asks' = [asks EXCEPT ![on[c]] = "popped"] \/ asks' = asks
    BY <1>17 DEF CancelRelease, CloseAsk
  <2>1. asks' \in [Sessions -> {"none", "open", "popped", "closed"}]
    BY <2>0, ExceptTypes
  <2>2. MemoryTypes' /\ ChildTypes' /\ HistoryTypes' /\ ClientTypes'
    BY <1>17, <2>1 DEF CancelRelease
  <2>3. pc[c] \in {"release"} /\ child' = child /\ trace' = trace
    BY <1>17 DEF CancelRelease
  <2>4. CASE Go(c, "shut") /\ UNCHANGED <<on, event, env, torn>>
    BY <2>2, <2>3, <2>4 DEF Go
  <2>5. CASE Released(c)
    BY <2>2, <2>3, <2>5, ReleasedHolds
  <2>6. QED
    BY <1>17, <2>4, <2>5 DEF CancelRelease, CloseAsk
<1>17a. ASSUME NEW c \in Callers, ShutBridge(c) PROVE TypeInv'
  <2>1. asks' \in [Sessions -> {"none", "open", "popped", "closed"}]
    BY <1>17a DEF ShutBridge
  <2>2. MemoryTypes' /\ ChildTypes' /\ HistoryTypes' /\ ClientTypes'
    BY <1>17a, <2>1 DEF ShutBridge
  <2>3. pc[c] \in {"shut"} /\ Released(c) /\ child' = child /\ trace' = trace
    BY <1>17a DEF ShutBridge
  <2>4. QED
    BY <2>2, <2>3, ReleasedHolds
<1>18. ASSUME NEW c \in Callers, FinalizeSkip(c) PROVE TypeInv'
  <2>1. on[c] \in Sessions /\ (event[c] = "result" => env[c] \in Envelopes)
    BY <1>18 DEF FinalizeSkip
  <2>a. LiveSuccess(env[c]) \in Verdicts
    BY DEF LiveSuccess, Verdicts
  <2>b. event[c] = "result" => [via |-> "live", env |-> env[c], success |-> LiveSuccess(env[c])]
                                \in [via : {"live", "persisted"}, env : Envelopes, success : Verdicts]
    BY <2>1, <2>a
  <2>2. told' \in [Sessions -> SUBSET [via : {"live", "persisted"}, env : Envelopes, success : Verdicts]]
    BY <1>18, <2>1, <2>b DEF FinalizeSkip, Tell
  <2>3. cancelled' \in SUBSET Sessions
    BY <1>18, <2>1 DEF FinalizeSkip, Tell
  <2>4. QED
    BY <1>18, <2>1, <2>2, <2>3 DEF FinalizeSkip, Tell, Answered, Go
<1>19. ASSUME NEW c \in Callers, FinalizeCheck(c) PROVE TypeInv'
  BY <1>19 DEF FinalizeCheck, Go
<1>20. ASSUME NEW c \in Callers, FinalizeClaim(c) PROVE TypeInv'
  BY <1>20 DEF FinalizeClaim, Go
<1>21. ASSUME NEW c \in Callers, FinalizeIndex(c) PROVE TypeInv'
  BY <1>21 DEF FinalizeIndex, Go, Line, Records, Event
<1>22. ASSUME NEW c \in Callers, FinalizeStore(c) PROVE TypeInv'
  <2>1. on[c] \in Sessions /\ (event[c] = "result" => env[c] \in Envelopes)
    BY <1>22 DEF FinalizeStore
  <2>a. LiveSuccess(env[c]) \in Verdicts
    BY DEF LiveSuccess, Verdicts
  <2>b. event[c] = "result" => [via |-> "live", env |-> env[c], success |-> LiveSuccess(env[c])]
                                \in [via : {"live", "persisted"}, env : Envelopes, success : Verdicts]
    BY <2>1, <2>a
  <2>2. told' \in [Sessions -> SUBSET [via : {"live", "persisted"}, env : Envelopes, success : Verdicts]]
    BY <1>22, <2>1, <2>b DEF FinalizeStore, Tell
  <2>3. cancelled' \in SUBSET Sessions
    BY <1>22, <2>1 DEF FinalizeStore, Tell
  <2>4. row' \in [Sessions -> Rows]
    BY <1>22, <2>1 DEF FinalizeStore, Line, Records, Event, Rows
  <2>5. QED
    BY <1>22, <2>1, <2>2, <2>3, <2>4 DEF FinalizeStore, Tell, Answered, Go
<1>23. ASSUME NEW c \in Callers, NEW s \in Sessions, SubmitStart(c, s) PROVE TypeInv'
  BY <1>23 DEF SubmitStart, Go
<1>24. ASSUME NEW c \in Callers, NEW s \in Sessions, Result(c, s) PROVE TypeInv'
  BY <1>24 DEF Result, EnterWait, Go
<1>25. ASSUME NEW c \in Callers, NEW s \in Sessions, Stream(c, s) PROVE TypeInv'
  BY <1>25 DEF Stream, Go
<1>26. ASSUME NEW c \in Callers, NEW s \in Sessions, Cancel(c, s) PROVE TypeInv'
  BY <1>26 DEF Cancel, Go
<1>27. ASSUME NEW c \in Callers, NEW s \in Sessions, PersistedResult(c, s) PROVE TypeInv'
  <2>1. trace[s] \in Envelopes
    BY <1>27 DEF PersistedResult
  <2>a. PersistedSuccess(trace[s]) \in Verdicts
    BY DEF PersistedSuccess, Verdicts
  <2>b. [via |-> "persisted", env |-> trace[s], success |-> PersistedSuccess(trace[s])]
          \in [via : {"live", "persisted"}, env : Envelopes, success : Verdicts]
    BY <2>1, <2>a
  <2>2. told' \in [Sessions -> SUBSET [via : {"live", "persisted"}, env : Envelopes, success : Verdicts]]
    BY <1>27, <2>b DEF PersistedResult
  <2>3. QED
    BY <1>27, <2>2 DEF PersistedResult
<1>28. CASE Crash
  <2>1. stops' \in 0..MaxStops
    BY <1>28 DEF Crash, Gone
  <2>2. asks' \in [Sessions -> {"none", "open", "popped", "closed"}]
    BY <1>28 DEF Crash, Gone
  <2>3. child' = child /\ trace' = trace /\ pc' = [d \in Callers |-> "idle"]
    BY <1>28 DEF Crash, Gone
  <2>6. ChildTypes'
    BY <1>28, <2>1, <2>2 DEF Crash, Gone
  <2>7. CallerTypes'
    BY <1>28 DEF Crash, Gone
  <2>4. TypeOK'
    BY <1>28, <2>1, <2>2, <2>6, <2>7 DEF Crash, Gone
  <2>5. QED
    BY <2>3, <2>4
<1>29. CASE Shutdown
  <2>1. stops' \in 0..MaxStops
    BY <1>29 DEF Shutdown, Gone
  <2>2. asks' \in [Sessions -> {"none", "open", "popped", "closed"}]
    BY <1>29 DEF Shutdown, Gone
  <2>3. child' = child /\ trace' = trace /\ pc' = [d \in Callers |-> "idle"]
    BY <1>29 DEF Shutdown, Gone
  <2>a. signalled' \in [Sessions -> BOOLEAN]
    BY <1>29 DEF Shutdown
  <2>6. ChildTypes'
    BY <1>29, <2>1, <2>2, <2>a DEF Shutdown, Gone
  <2>7. CallerTypes'
    BY <1>29 DEF Shutdown, Gone
  <2>4. TypeOK'
    BY <1>29, <2>1, <2>2, <2>6, <2>7 DEF Shutdown, Gone
  <2>5. QED
    BY <2>3, <2>4
<1>30. CASE Restart
  BY <1>30 DEF Restart
<1>31. CASE UNCHANGED vars
  BY <1>31 DEF vars
<1>32. QED
  BY <1>1, <1>2, <1>3, <1>4, <1>5, <1>6, <1>7, <1>8, <1>9, <1>10, <1>11, <1>12, <1>13, <1>14, <1>15, <1>16, <1>17, <1>17a, <1>18, <1>19, <1>20, <1>21, <1>22, <1>23, <1>24, <1>25, <1>26, <1>27, <1>28, <1>29, <1>30, <1>31 DEF Next, ChildStep, CallerStep, Request

LEMMA TypeInit == Init => TypeInv
<1> SUFFICES ASSUME Init PROVE TypeInv
  OBVIOUS
<1> USE RunServiceAssumption DEF RunServiceAssumption, Init
<1>1. ChildTypes
  BY DEF ChildTypes, Envelopes
<1>2. MemoryTypes
  BY DEF MemoryTypes
<1>3. HistoryTypes
  BY DEF HistoryTypes, Rows, Event, Line
<1>4. CallerTypes
  BY DEF CallerTypes, PCs
<1>5. ClientTypes
  BY DEF ClientTypes
<1>6. QED
  BY <1>1, <1>2, <1>3, <1>4, <1>5 DEF TypeInv, TypeOK, Fin

(* The variables of RunService keep their types, for any number of sessions, *)
(* request threads and stops.                                               *)
THEOREM TypeCorrect == Spec => []TypeOK
<1>1. TypeInv => TypeOK
  BY DEF TypeInv
<1>2. QED
  BY <1>1, TypeInit, TypeStep, PTL DEF Spec

-----------------------------------------------------------------------------
(* What a process has done is not undone: an exited child stays exited with *)
(* the trace it left, a signal stays sent.                                  *)
Kept(s) ==
    /\ child[s] = "exited" => child'[s] = "exited" /\ trace'[s] = trace[s]
    /\ signalled[s] => signalled'[s]

LEMMA LaunchStep == TypeInv /\ LaunchInv /\ [Next]_vars => LaunchInv'
<1> SUFFICES ASSUME TypeInv /\ LaunchInv, [Next]_vars PROVE LaunchInv'
  OBVIOUS
<1> USE RunServiceAssumption DEF RunServiceAssumption, TypeInv, TypeOK, ChildTypes, MemoryTypes, CallerTypes, LaunchInv, PCs
<1>1. ASSUME NEW s \in Sessions, ChildLog(s) PROVE LaunchInv'
  BY <1>1 DEF ChildLog
<1>2. ASSUME NEW s \in Sessions, ChildReport(s) PROVE LaunchInv'
  BY <1>2 DEF ChildReport
<1>3. ASSUME NEW s \in Sessions, ChildExit(s) PROVE LaunchInv'
  BY <1>3 DEF ChildExit
<1>4. ASSUME NEW s \in Sessions, ChildRaises(s) PROVE LaunchInv'
  BY <1>4 DEF ChildRaises
<1>5. ASSUME NEW s \in Sessions, ChildKilled(s) PROVE LaunchInv'
  BY <1>5 DEF ChildKilled
<1>6. ASSUME NEW s \in Sessions, Drain(s) PROVE LaunchInv'
  BY <1>6 DEF Drain
<1>7. ASSUME NEW c \in Callers, SubmitLaunch(c) PROVE LaunchInv'
  BY <1>7 DEF SubmitLaunch, Go, Answered, Tell, EnterWait
<1>8. ASSUME NEW c \in Callers, SubmitFails(c) PROVE LaunchInv'
  BY <1>8 DEF SubmitFails, Go, Answered, Tell, EnterWait
<1>9. ASSUME NEW c \in Callers, SubmitRegister(c) PROVE LaunchInv'
  BY <1>9 DEF SubmitRegister, Go, Answered, Tell, EnterWait
<1>10. ASSUME NEW c \in Callers, SubmitIndex(c) PROVE LaunchInv'
  BY <1>10 DEF SubmitIndex, Go, Answered, Tell, EnterWait
<1>11. ASSUME NEW c \in Callers, SubmitStore(c) PROVE LaunchInv'
  BY <1>11 DEF SubmitStore, Go, Answered, Tell, EnterWait
<1>12. ASSUME NEW c \in Callers, StreamEnds(c) PROVE LaunchInv'
  BY <1>12 DEF StreamEnds, Go, Answered, Tell, EnterWait
<1>13. ASSUME NEW c \in Callers, WaitReturns(c) PROVE LaunchInv'
  BY <1>13 DEF WaitReturns, Go, Answered, Tell, EnterWait
<1>14. ASSUME NEW c \in Callers, WaitRaises(c) PROVE LaunchInv'
  BY <1>14 DEF WaitRaises, Go, Answered, Tell, EnterWait
<1>15. ASSUME NEW c \in Callers, ResultClose(c) PROVE LaunchInv'
  BY <1>15 DEF ResultClose, CloseAsk, Released, Answered, Go
<1>16. ASSUME NEW c \in Callers, CancelTerminate(c) PROVE LaunchInv'
  BY <1>16 DEF CancelTerminate, Go, Answered, Tell, EnterWait
<1>17. ASSUME NEW c \in Callers, CancelRelease(c) PROVE LaunchInv'
  BY <1>17 DEF CancelRelease, CloseAsk, Released, Answered, Go
<1>17a. ASSUME NEW c \in Callers, ShutBridge(c) PROVE LaunchInv'
  BY <1>17a DEF ShutBridge, Released, Answered, Go
<1>18. ASSUME NEW c \in Callers, FinalizeSkip(c) PROVE LaunchInv'
  BY <1>18 DEF FinalizeSkip, Go, Answered, Tell, EnterWait
<1>19. ASSUME NEW c \in Callers, FinalizeCheck(c) PROVE LaunchInv'
  BY <1>19 DEF FinalizeCheck, Go, Answered, Tell, EnterWait
<1>20. ASSUME NEW c \in Callers, FinalizeClaim(c) PROVE LaunchInv'
  BY <1>20 DEF FinalizeClaim, Go, Answered, Tell, EnterWait
<1>21. ASSUME NEW c \in Callers, FinalizeIndex(c) PROVE LaunchInv'
  BY <1>21 DEF FinalizeIndex, Go, Answered, Tell, EnterWait
<1>22. ASSUME NEW c \in Callers, FinalizeStore(c) PROVE LaunchInv'
  BY <1>22 DEF FinalizeStore, Go, Answered, Tell, EnterWait
<1>23. ASSUME NEW c \in Callers, NEW s \in Sessions, SubmitStart(c, s) PROVE LaunchInv'
  BY <1>23 DEF SubmitStart, Go, Answered, Tell, EnterWait
<1>24. ASSUME NEW c \in Callers, NEW s \in Sessions, Result(c, s) PROVE LaunchInv'
  BY <1>24 DEF Result, Go, Answered, Tell, EnterWait
<1>25. ASSUME NEW c \in Callers, NEW s \in Sessions, Stream(c, s) PROVE LaunchInv'
  BY <1>25 DEF Stream, Go, Answered, Tell, EnterWait
<1>26. ASSUME NEW c \in Callers, NEW s \in Sessions, Cancel(c, s) PROVE LaunchInv'
  BY <1>26 DEF Cancel, Go, Answered, Tell, EnterWait
<1>27. ASSUME NEW c \in Callers, NEW s \in Sessions, PersistedResult(c, s) PROVE LaunchInv'
  BY <1>27 DEF PersistedResult, Go, Answered, Tell, EnterWait
<1>28. CASE Crash
  BY <1>28 DEF Crash, Gone
<1>29. CASE Shutdown
  BY <1>29 DEF Shutdown, Gone
<1>30. CASE Restart
  BY <1>30 DEF Restart
<1>31. CASE UNCHANGED vars
  BY <1>31 DEF vars
<1>32. QED
  BY <1>1, <1>2, <1>3, <1>4, <1>5, <1>6, <1>7, <1>8, <1>9, <1>10, <1>11, <1>12, <1>13, <1>14, <1>15, <1>16, <1>17, <1>17a, <1>18, <1>19, <1>20, <1>21, <1>22, <1>23, <1>24, <1>25, <1>26, <1>27, <1>28, <1>29, <1>30, <1>31 DEF Next, ChildStep, CallerStep, Request

LEMMA ProcessKept == TypeInv /\ LaunchInv /\ [Next]_vars => \A q \in Sessions : Kept(q)
<1> SUFFICES ASSUME TypeInv /\ LaunchInv, [Next]_vars PROVE \A q \in Sessions : Kept(q)
  OBVIOUS
<1> USE RunServiceAssumption DEF RunServiceAssumption, TypeInv, TypeOK, ChildTypes, CallerTypes, LaunchInv, Kept, PCs
<1>1. ASSUME NEW s \in Sessions, ChildLog(s) PROVE \A q \in Sessions : Kept(q)
  BY <1>1 DEF ChildLog
<1>2. ASSUME NEW s \in Sessions, ChildReport(s) PROVE \A q \in Sessions : Kept(q)
  BY <1>2 DEF ChildReport
<1>3. ASSUME NEW s \in Sessions, ChildExit(s) PROVE \A q \in Sessions : Kept(q)
  BY <1>3 DEF ChildExit
<1>4. ASSUME NEW s \in Sessions, ChildRaises(s) PROVE \A q \in Sessions : Kept(q)
  BY <1>4 DEF ChildRaises
<1>5. ASSUME NEW s \in Sessions, ChildKilled(s) PROVE \A q \in Sessions : Kept(q)
  BY <1>5 DEF ChildKilled
<1>6. ASSUME NEW s \in Sessions, Drain(s) PROVE \A q \in Sessions : Kept(q)
  BY <1>6 DEF Drain
<1>7. ASSUME NEW c \in Callers, SubmitLaunch(c) PROVE \A q \in Sessions : Kept(q)
  BY <1>7 DEF SubmitLaunch, Go, Answered, Tell, EnterWait
<1>8. ASSUME NEW c \in Callers, SubmitFails(c) PROVE \A q \in Sessions : Kept(q)
  BY <1>8 DEF SubmitFails, Go, Answered, Tell, EnterWait
<1>9. ASSUME NEW c \in Callers, SubmitRegister(c) PROVE \A q \in Sessions : Kept(q)
  BY <1>9 DEF SubmitRegister, Go, Answered, Tell, EnterWait
<1>10. ASSUME NEW c \in Callers, SubmitIndex(c) PROVE \A q \in Sessions : Kept(q)
  BY <1>10 DEF SubmitIndex, Go, Answered, Tell, EnterWait
<1>11. ASSUME NEW c \in Callers, SubmitStore(c) PROVE \A q \in Sessions : Kept(q)
  BY <1>11 DEF SubmitStore, Go, Answered, Tell, EnterWait
<1>12. ASSUME NEW c \in Callers, StreamEnds(c) PROVE \A q \in Sessions : Kept(q)
  BY <1>12 DEF StreamEnds, Go, Answered, Tell, EnterWait
<1>13. ASSUME NEW c \in Callers, WaitReturns(c) PROVE \A q \in Sessions : Kept(q)
  BY <1>13 DEF WaitReturns, Go, Answered, Tell, EnterWait
<1>14. ASSUME NEW c \in Callers, WaitRaises(c) PROVE \A q \in Sessions : Kept(q)
  BY <1>14 DEF WaitRaises, Go, Answered, Tell, EnterWait
<1>15. ASSUME NEW c \in Callers, ResultClose(c) PROVE \A q \in Sessions : Kept(q)
  BY <1>15 DEF ResultClose, CloseAsk, Released, Answered, Go
<1>16. ASSUME NEW c \in Callers, CancelTerminate(c) PROVE \A q \in Sessions : Kept(q)
  BY <1>16 DEF CancelTerminate, Go, Answered, Tell, EnterWait
<1>17. ASSUME NEW c \in Callers, CancelRelease(c) PROVE \A q \in Sessions : Kept(q)
  BY <1>17 DEF CancelRelease, CloseAsk, Released, Answered, Go
<1>17a. ASSUME NEW c \in Callers, ShutBridge(c) PROVE \A q \in Sessions : Kept(q)
  BY <1>17a DEF ShutBridge, Released, Answered, Go
<1>18. ASSUME NEW c \in Callers, FinalizeSkip(c) PROVE \A q \in Sessions : Kept(q)
  BY <1>18 DEF FinalizeSkip, Go, Answered, Tell, EnterWait
<1>19. ASSUME NEW c \in Callers, FinalizeCheck(c) PROVE \A q \in Sessions : Kept(q)
  BY <1>19 DEF FinalizeCheck, Go, Answered, Tell, EnterWait
<1>20. ASSUME NEW c \in Callers, FinalizeClaim(c) PROVE \A q \in Sessions : Kept(q)
  BY <1>20 DEF FinalizeClaim, Go, Answered, Tell, EnterWait
<1>21. ASSUME NEW c \in Callers, FinalizeIndex(c) PROVE \A q \in Sessions : Kept(q)
  BY <1>21 DEF FinalizeIndex, Go, Answered, Tell, EnterWait
<1>22. ASSUME NEW c \in Callers, FinalizeStore(c) PROVE \A q \in Sessions : Kept(q)
  BY <1>22 DEF FinalizeStore, Go, Answered, Tell, EnterWait
<1>23. ASSUME NEW c \in Callers, NEW s \in Sessions, SubmitStart(c, s) PROVE \A q \in Sessions : Kept(q)
  BY <1>23 DEF SubmitStart, Go, Answered, Tell, EnterWait
<1>24. ASSUME NEW c \in Callers, NEW s \in Sessions, Result(c, s) PROVE \A q \in Sessions : Kept(q)
  BY <1>24 DEF Result, Go, Answered, Tell, EnterWait
<1>25. ASSUME NEW c \in Callers, NEW s \in Sessions, Stream(c, s) PROVE \A q \in Sessions : Kept(q)
  BY <1>25 DEF Stream, Go, Answered, Tell, EnterWait
<1>26. ASSUME NEW c \in Callers, NEW s \in Sessions, Cancel(c, s) PROVE \A q \in Sessions : Kept(q)
  BY <1>26 DEF Cancel, Go, Answered, Tell, EnterWait
<1>27. ASSUME NEW c \in Callers, NEW s \in Sessions, PersistedResult(c, s) PROVE \A q \in Sessions : Kept(q)
  BY <1>27 DEF PersistedResult, Go, Answered, Tell, EnterWait
<1>28. CASE Crash
  BY <1>28 DEF Crash, Gone
<1>29. CASE Shutdown
  BY <1>29 DEF Shutdown, Gone
<1>30. CASE Restart
  BY <1>30 DEF Restart
<1>31. CASE UNCHANGED vars
  BY <1>31 DEF vars
<1>32. QED
  BY <1>1, <1>2, <1>3, <1>4, <1>5, <1>6, <1>7, <1>8, <1>9, <1>10, <1>11, <1>12, <1>13, <1>14, <1>15, <1>16, <1>17, <1>17a, <1>18, <1>19, <1>20, <1>21, <1>22, <1>23, <1>24, <1>25, <1>26, <1>27, <1>28, <1>29, <1>30, <1>31 DEF Next, ChildStep, CallerStep, Request

LEMMA PhaseStep == TypeInv /\ TypeInv' /\ LaunchInv /\ PhaseInv /\ [Next]_vars => PhaseInv'
<1> SUFFICES ASSUME TypeInv /\ TypeInv' /\ LaunchInv /\ PhaseInv, [Next]_vars PROVE PhaseInv'
  OBVIOUS
<1>0. \A s \in Sessions : Kept(s)
  BY ProcessKept
<1> USE RunServiceAssumption DEF RunServiceAssumption, TypeInv, TypeOK, ChildTypes, CallerTypes, PhaseInv, Fin, PCs, Kept
<1>1. ASSUME NEW s \in Sessions, ChildLog(s) PROVE PhaseInv'
  BY <1>0, <1>1 DEF ChildLog
<1>2. ASSUME NEW s \in Sessions, ChildReport(s) PROVE PhaseInv'
  BY <1>0, <1>2 DEF ChildReport
<1>3. ASSUME NEW s \in Sessions, ChildExit(s) PROVE PhaseInv'
  BY <1>0, <1>3 DEF ChildExit
<1>4. ASSUME NEW s \in Sessions, ChildRaises(s) PROVE PhaseInv'
  BY <1>0, <1>4 DEF ChildRaises
<1>5. ASSUME NEW s \in Sessions, ChildKilled(s) PROVE PhaseInv'
  BY <1>0, <1>5 DEF ChildKilled
<1>6. ASSUME NEW s \in Sessions, Drain(s) PROVE PhaseInv'
  BY <1>0, <1>6 DEF Drain
<1>7. ASSUME NEW c \in Callers, SubmitLaunch(c) PROVE PhaseInv'
  BY <1>0, <1>7 DEF SubmitLaunch, Go, Answered, Tell, EnterWait
<1>8. ASSUME NEW c \in Callers, SubmitFails(c) PROVE PhaseInv'
  BY <1>0, <1>8 DEF SubmitFails, Go, Answered, Tell, EnterWait
<1>9. ASSUME NEW c \in Callers, SubmitRegister(c) PROVE PhaseInv'
  BY <1>0, <1>9 DEF SubmitRegister, Go, Answered, Tell, EnterWait
<1>10. ASSUME NEW c \in Callers, SubmitIndex(c) PROVE PhaseInv'
  BY <1>0, <1>10 DEF SubmitIndex, Go, Answered, Tell, EnterWait
<1>11. ASSUME NEW c \in Callers, SubmitStore(c) PROVE PhaseInv'
  BY <1>0, <1>11 DEF SubmitStore, Go, Answered, Tell, EnterWait
<1>12. ASSUME NEW c \in Callers, StreamEnds(c) PROVE PhaseInv'
  BY <1>0, <1>12 DEF StreamEnds, Go, Answered, Tell, EnterWait
<1>13. ASSUME NEW c \in Callers, WaitReturns(c) PROVE PhaseInv'
  BY <1>0, <1>13 DEF WaitReturns, Go, Answered, Tell, EnterWait
<1>14. ASSUME NEW c \in Callers, WaitRaises(c) PROVE PhaseInv'
  BY <1>0, <1>14 DEF WaitRaises, Go, Answered, Tell, EnterWait
<1>15. ASSUME NEW c \in Callers, ResultClose(c) PROVE PhaseInv'
  BY <1>0, <1>15 DEF ResultClose, CloseAsk, Released, Answered, Go
<1>16. ASSUME NEW c \in Callers, CancelTerminate(c) PROVE PhaseInv'
  <2>0. on[c] \in Sessions /\ signalled \in [Sessions -> BOOLEAN]
    BY <1>16 DEF CancelTerminate
  <2>1. signalled'[on[c]] \/ child[on[c]] = "exited"
    <3>1. signalled' = [signalled EXCEPT ![on[c]] = signalled[on[c]] \/ child[on[c]] # "exited"]
      BY <1>16 DEF CancelTerminate
    <3>2. signalled'[on[c]] = (signalled[on[c]] \/ child[on[c]] # "exited")
      BY <2>0, <3>1
    <3>3. QED
      BY <3>2
  <2>2. QED
    BY <1>0, <1>16, <2>1 DEF CancelTerminate, Go
<1>17. ASSUME NEW c \in Callers, CancelRelease(c) PROVE PhaseInv'
  BY <1>0, <1>17 DEF CancelRelease, CloseAsk, Released, Answered, Go
<1>17a. ASSUME NEW c \in Callers, ShutBridge(c) PROVE PhaseInv'
  BY <1>0, <1>17a DEF ShutBridge, Released, Answered, Go
<1>18. ASSUME NEW c \in Callers, FinalizeSkip(c) PROVE PhaseInv'
  BY <1>0, <1>18 DEF FinalizeSkip, Go, Answered, Tell, EnterWait
<1>19. ASSUME NEW c \in Callers, FinalizeCheck(c) PROVE PhaseInv'
  BY <1>0, <1>19 DEF FinalizeCheck, Go, Answered, Tell, EnterWait
<1>20. ASSUME NEW c \in Callers, FinalizeClaim(c) PROVE PhaseInv'
  BY <1>0, <1>20 DEF FinalizeClaim, Go, Answered, Tell, EnterWait
<1>21. ASSUME NEW c \in Callers, FinalizeIndex(c) PROVE PhaseInv'
  BY <1>0, <1>21 DEF FinalizeIndex, Go, Answered, Tell, EnterWait
<1>22. ASSUME NEW c \in Callers, FinalizeStore(c) PROVE PhaseInv'
  BY <1>0, <1>22 DEF FinalizeStore, Go, Answered, Tell, EnterWait
<1>23. ASSUME NEW c \in Callers, NEW s \in Sessions, SubmitStart(c, s) PROVE PhaseInv'
  BY <1>0, <1>23 DEF SubmitStart, Go, Answered, Tell, EnterWait
<1>24. ASSUME NEW c \in Callers, NEW s \in Sessions, Result(c, s) PROVE PhaseInv'
  BY <1>0, <1>24 DEF Result, Go, Answered, Tell, EnterWait
<1>25. ASSUME NEW c \in Callers, NEW s \in Sessions, Stream(c, s) PROVE PhaseInv'
  BY <1>0, <1>25 DEF Stream, Go, Answered, Tell, EnterWait
<1>26. ASSUME NEW c \in Callers, NEW s \in Sessions, Cancel(c, s) PROVE PhaseInv'
  BY <1>0, <1>26 DEF Cancel, Go, Answered, Tell, EnterWait
<1>27. ASSUME NEW c \in Callers, NEW s \in Sessions, PersistedResult(c, s) PROVE PhaseInv'
  BY <1>0, <1>27 DEF PersistedResult, Go, Answered, Tell, EnterWait
<1>28. CASE Crash
  BY <1>0, <1>28 DEF Crash, Gone
<1>29. CASE Shutdown
  BY <1>0, <1>29 DEF Shutdown, Gone
<1>30. CASE Restart
  BY <1>0, <1>30 DEF Restart
<1>31. CASE UNCHANGED vars
  BY <1>0, <1>31 DEF vars
<1>32. QED
  BY <1>1, <1>2, <1>3, <1>4, <1>5, <1>6, <1>7, <1>8, <1>9, <1>10, <1>11, <1>12, <1>13, <1>14, <1>15, <1>16, <1>17, <1>17a, <1>18, <1>19, <1>20, <1>21, <1>22, <1>23, <1>24, <1>25, <1>26, <1>27, <1>28, <1>29, <1>30, <1>31 DEF Next, ChildStep, CallerStep, Request

LEMMA TraceStep == TypeInv /\ LaunchInv /\ PhaseInv /\ TraceInv /\ [Next]_vars => TraceInv'
<1> SUFFICES ASSUME TypeInv /\ LaunchInv /\ PhaseInv /\ TraceInv, [Next]_vars PROVE TraceInv'
  OBVIOUS
<1>0. \A s \in Sessions : Kept(s)
  BY ProcessKept
<1> USE RunServiceAssumption DEF RunServiceAssumption, TypeInv, TypeOK, ChildTypes, MemoryTypes, CallerTypes, LaunchInv, TraceInv, PCs, Kept, Envelopes, Outcomes, PhaseInv
<1>1. ASSUME NEW s \in Sessions, ChildLog(s) PROVE TraceInv'
  BY <1>0, <1>1 DEF ChildLog
<1>2. ASSUME NEW s \in Sessions, ChildReport(s) PROVE TraceInv'
  BY <1>0, <1>2 DEF ChildReport
<1>3. ASSUME NEW s \in Sessions, ChildExit(s) PROVE TraceInv'
  BY <1>0, <1>3 DEF ChildExit
<1>4. ASSUME NEW s \in Sessions, ChildRaises(s) PROVE TraceInv'
  BY <1>0, <1>4 DEF ChildRaises
<1>5. ASSUME NEW s \in Sessions, ChildKilled(s) PROVE TraceInv'
  BY <1>0, <1>5 DEF ChildKilled
<1>6. ASSUME NEW s \in Sessions, Drain(s) PROVE TraceInv'
  BY <1>0, <1>6 DEF Drain
<1>7. ASSUME NEW c \in Callers, SubmitLaunch(c) PROVE TraceInv'
  BY <1>0, <1>7 DEF SubmitLaunch, Go, Answered, Tell, EnterWait
<1>8. ASSUME NEW c \in Callers, SubmitFails(c) PROVE TraceInv'
  BY <1>0, <1>8 DEF SubmitFails, Go, Answered, Tell, EnterWait
<1>9. ASSUME NEW c \in Callers, SubmitRegister(c) PROVE TraceInv'
  BY <1>0, <1>9 DEF SubmitRegister, Go, Answered, Tell, EnterWait
<1>10. ASSUME NEW c \in Callers, SubmitIndex(c) PROVE TraceInv'
  BY <1>0, <1>10 DEF SubmitIndex, Go, Answered, Tell, EnterWait
<1>11. ASSUME NEW c \in Callers, SubmitStore(c) PROVE TraceInv'
  BY <1>0, <1>11 DEF SubmitStore, Go, Answered, Tell, EnterWait
<1>12. ASSUME NEW c \in Callers, StreamEnds(c) PROVE TraceInv'
  BY <1>0, <1>12 DEF StreamEnds, Go, Answered, Tell, EnterWait
<1>13. ASSUME NEW c \in Callers, WaitReturns(c) PROVE TraceInv'
  <2>1. PICK e \in Collected(c) : /\ env' = [env EXCEPT ![c] = e]
                                 /\ cache' = [cache EXCEPT ![on[c]] = e]
    BY <1>13 DEF WaitReturns
  <2>2. on[c] \in Sessions /\ (e \in Outcomes => child[on[c]] = "exited" /\ e = trace[on[c]])
    BY <1>13 DEF WaitReturns, Collected
  <2>3. QED
    BY <1>13, <2>1, <2>2 DEF WaitReturns, Go
<1>14. ASSUME NEW c \in Callers, WaitRaises(c) PROVE TraceInv'
  BY <1>0, <1>14 DEF WaitRaises, Go, Answered, Tell, EnterWait
<1>15. ASSUME NEW c \in Callers, ResultClose(c) PROVE TraceInv'
  BY <1>0, <1>15 DEF ResultClose, CloseAsk, Released, Answered, Go
<1>16. ASSUME NEW c \in Callers, CancelTerminate(c) PROVE TraceInv'
  BY <1>0, <1>16 DEF CancelTerminate, Go, Answered, Tell, EnterWait
<1>17. ASSUME NEW c \in Callers, CancelRelease(c) PROVE TraceInv'
  BY <1>0, <1>17 DEF CancelRelease, CloseAsk, Released, Answered, Go
<1>17a. ASSUME NEW c \in Callers, ShutBridge(c) PROVE TraceInv'
  BY <1>0, <1>17a DEF ShutBridge, Released, Answered, Go
<1>18. ASSUME NEW c \in Callers, FinalizeSkip(c) PROVE TraceInv'
  BY <1>0, <1>18 DEF FinalizeSkip, Go, Answered, Tell, EnterWait
<1>19. ASSUME NEW c \in Callers, FinalizeCheck(c) PROVE TraceInv'
  BY <1>0, <1>19 DEF FinalizeCheck, Go, Answered, Tell, EnterWait
<1>20. ASSUME NEW c \in Callers, FinalizeClaim(c) PROVE TraceInv'
  BY <1>0, <1>20 DEF FinalizeClaim, Go, Answered, Tell, EnterWait
<1>21. ASSUME NEW c \in Callers, FinalizeIndex(c) PROVE TraceInv'
  BY <1>0, <1>21 DEF FinalizeIndex, Go, Answered, Tell, EnterWait
<1>22. ASSUME NEW c \in Callers, FinalizeStore(c) PROVE TraceInv'
  BY <1>0, <1>22 DEF FinalizeStore, Go, Answered, Tell, EnterWait
<1>23. ASSUME NEW c \in Callers, NEW s \in Sessions, SubmitStart(c, s) PROVE TraceInv'
  BY <1>0, <1>23 DEF SubmitStart, Go, Answered, Tell, EnterWait
<1>24. ASSUME NEW c \in Callers, NEW s \in Sessions, Result(c, s) PROVE TraceInv'
  BY <1>0, <1>24 DEF Result, Go, Answered, Tell, EnterWait
<1>25. ASSUME NEW c \in Callers, NEW s \in Sessions, Stream(c, s) PROVE TraceInv'
  BY <1>0, <1>25 DEF Stream, Go, Answered, Tell, EnterWait
<1>26. ASSUME NEW c \in Callers, NEW s \in Sessions, Cancel(c, s) PROVE TraceInv'
  BY <1>0, <1>26 DEF Cancel, Go, Answered, Tell, EnterWait
<1>27. ASSUME NEW c \in Callers, NEW s \in Sessions, PersistedResult(c, s) PROVE TraceInv'
  BY <1>0, <1>27 DEF PersistedResult, Go, Answered, Tell, EnterWait
<1>28. CASE Crash
  BY <1>0, <1>28 DEF Crash, Gone
<1>29. CASE Shutdown
  BY <1>0, <1>29 DEF Shutdown, Gone
<1>30. CASE Restart
  BY <1>0, <1>30 DEF Restart
<1>31. CASE UNCHANGED vars
  BY <1>0, <1>31 DEF vars
<1>32. QED
  BY <1>1, <1>2, <1>3, <1>4, <1>5, <1>6, <1>7, <1>8, <1>9, <1>10, <1>11, <1>12, <1>13, <1>14, <1>15, <1>16, <1>17, <1>17a, <1>18, <1>19, <1>20, <1>21, <1>22, <1>23, <1>24, <1>25, <1>26, <1>27, <1>28, <1>29, <1>30, <1>31 DEF Next, ChildStep, CallerStep, Request


-----------------------------------------------------------------------------
(* A line appended to the index is the only new one.                        *)
LEMMA LinesAppend ==
    ASSUME HistoryTypes, NEW r \in [s : Sessions, rec : Records], index' = Append(index, r)
    PROVE  \A s \in Sessions : LinesOf(s)' = LinesOf(s) \cup (IF r.s = s THEN {r.rec} ELSE {})
<1> SUFFICES ASSUME NEW s \in Sessions
             PROVE  LinesOf(s)' = LinesOf(s) \cup (IF r.s = s THEN {r.rec} ELSE {})
  OBVIOUS
<1> DEFINE n == Len(index)
<1>1. n \in Nat /\ Len(index') = n + 1 /\ index'[n + 1] = r
  BY DEF HistoryTypes
<1>2. \A i \in 1..n : index'[i] = index[i]
  BY DEF HistoryTypes
<1>3. 1..(n + 1) = 1..n \cup {n + 1}
  BY <1>1
<1>4. QED
  BY <1>1, <1>2, <1>3 DEF LinesOf

(* Only submit and _finalize write to the index, each one line of its own   *)
(* session.                                                                 *)
NewLine(s, r) ==
    \/ r.event = "submit"
    \/ \E c \in Callers : /\ pc[c] = "append" /\ on[c] = s
                          /\ r = Line(event[c], env[c])


LEMMA WritesOfHistory ==
    ASSUME [Next]_vars
    PROVE  /\ index' = index \/ \E c \in Callers : SubmitIndex(c) \/ FinalizeIndex(c)
           /\ row' = row \/ Restart \/ \E c \in Callers : SubmitStore(c) \/ FinalizeStore(c)
<1> DEFINE Goal == /\ index' = index \/ \E c \in Callers : SubmitIndex(c) \/ FinalizeIndex(c)
                   /\ row' = row \/ Restart \/ \E c \in Callers : SubmitStore(c) \/ FinalizeStore(c)
<1>1. ASSUME NEW s \in Sessions, ChildStep(s) \/ Drain(s) PROVE Goal
  BY <1>1 DEF ChildStep, ChildLog, ChildReport, ChildExit, ChildRaises, ChildKilled, Drain
<1>2. ASSUME NEW c \in Callers, CallerStep(c) PROVE Goal
  BY <1>2 DEF CallerStep, SubmitLaunch, SubmitFails, SubmitRegister, SubmitIndex, SubmitStore,
      StreamEnds, WaitReturns, WaitRaises, ResultClose, CancelTerminate, CancelRelease, ShutBridge, CloseAsk, Released, Answered,
      FinalizeSkip, FinalizeCheck, FinalizeClaim, FinalizeIndex, FinalizeStore
<1>3. ASSUME NEW c \in Callers, NEW s \in Sessions, Request(c, s) PROVE Goal
  BY <1>3 DEF Request, SubmitStart, Result, Stream, Cancel, PersistedResult
<1>4. CASE Crash \/ Shutdown \/ Restart \/ UNCHANGED vars
  BY <1>4 DEF Crash, Shutdown, Gone, Restart, vars
<1>5. QED
  BY <1>1, <1>2, <1>3, <1>4 DEF Next

LEMMA LinesStep ==
    ASSUME TypeInv, [Next]_vars, NEW s \in Sessions
    PROVE  /\ LinesOf(s) \subseteq LinesOf(s)'
           /\ \A r \in LinesOf(s)' : r \in LinesOf(s) \/ NewLine(s, r)
<1> USE DEF TypeInv, TypeOK, CallerTypes, PCs
<1>1. CASE index' = index
  BY <1>1 DEF LinesOf
<1>2. ASSUME NEW c \in Callers, SubmitIndex(c)
      PROVE  /\ LinesOf(s) \subseteq LinesOf(s)'
             /\ \A r \in LinesOf(s)' : r \in LinesOf(s) \/ NewLine(s, r)
  <2> DEFINE e == [s |-> on[c], rec |-> Line("submit", "none")]
  <2>1. e \in [s : Sessions, rec : Records] /\ index' = Append(index, e)
    BY <1>2 DEF SubmitIndex, Records, Event, Line
  <2>2. LinesOf(s)' = LinesOf(s) \cup (IF e.s = s THEN {e.rec} ELSE {})
    BY <2>1, LinesAppend
  <2>3. QED
    BY <2>2 DEF NewLine, Line
<1>3. ASSUME NEW c \in Callers, FinalizeIndex(c)
      PROVE  /\ LinesOf(s) \subseteq LinesOf(s)'
             /\ \A r \in LinesOf(s)' : r \in LinesOf(s) \/ NewLine(s, r)
  <2> DEFINE e == [s |-> on[c], rec |-> Line(event[c], env[c])]
  <2>1. e \in [s : Sessions, rec : Records] /\ index' = Append(index, e)
    BY <1>3 DEF FinalizeIndex, Records, Event, Line, Fin, Envelopes, Outcomes
  <2>2. \A q \in Sessions : LinesOf(q)' = LinesOf(q) \cup (IF e.s = q THEN {e.rec} ELSE {})
    BY <2>1, LinesAppend
  <2>3. pc[c] = "append" /\ on[c] \in Sessions
    BY <1>3 DEF FinalizeIndex
  <2>4. QED
    BY <2>2, <2>3 DEF NewLine
<1>4. QED
  BY <1>1, <1>2, <1>3, WritesOfHistory

(* A request about to write the row has just written the line, or was      *)
(* there before with the same record in hand.                               *)
LEMMA RecordStep ==
    ASSUME TypeInv, [Next]_vars
    PROVE  \A d \in Callers : pc'[d] = "record" =>
              \/ pc[d] = "record" /\ on'[d] = on[d] /\ event'[d] = event[d] /\ env'[d] = env[d]
              \/ FinalizeIndex(d)
<1> DEFINE Step(d) == \/ pc[d] = "record" /\ on'[d] = on[d] /\ event'[d] = event[d] /\ env'[d] = env[d]
                     \/ FinalizeIndex(d)
<1> DEFINE Goal == \A d \in Callers : pc'[d] = "record" => Step(d)
<1> USE DEF TypeInv, TypeOK, CallerTypes, PCs
<1>1. ASSUME NEW s \in Sessions, ChildLog(s) PROVE Goal
  BY <1>1 DEF ChildLog
<1>2. ASSUME NEW s \in Sessions, ChildReport(s) PROVE Goal
  BY <1>2 DEF ChildReport
<1>3. ASSUME NEW s \in Sessions, ChildExit(s) PROVE Goal
  BY <1>3 DEF ChildExit
<1>4. ASSUME NEW s \in Sessions, ChildRaises(s) PROVE Goal
  BY <1>4 DEF ChildRaises
<1>5. ASSUME NEW s \in Sessions, ChildKilled(s) PROVE Goal
  BY <1>5 DEF ChildKilled
<1>6. ASSUME NEW s \in Sessions, Drain(s) PROVE Goal
  BY <1>6 DEF Drain
<1>7. ASSUME NEW c \in Callers, SubmitLaunch(c) PROVE Goal
  BY <1>7 DEF SubmitLaunch, Go, Answered, Tell, EnterWait
<1>8. ASSUME NEW c \in Callers, SubmitFails(c) PROVE Goal
  BY <1>8 DEF SubmitFails, Go, Answered, Tell, EnterWait
<1>9. ASSUME NEW c \in Callers, SubmitRegister(c) PROVE Goal
  BY <1>9 DEF SubmitRegister, Go, Answered, Tell, EnterWait
<1>10. ASSUME NEW c \in Callers, SubmitIndex(c) PROVE Goal
  BY <1>10 DEF SubmitIndex, Go, Answered, Tell, EnterWait
<1>11. ASSUME NEW c \in Callers, SubmitStore(c) PROVE Goal
  BY <1>11 DEF SubmitStore, Go, Answered, Tell, EnterWait
<1>12. ASSUME NEW c \in Callers, StreamEnds(c) PROVE Goal
  BY <1>12 DEF StreamEnds, Go, Answered, Tell, EnterWait
<1>13. ASSUME NEW c \in Callers, WaitReturns(c) PROVE Goal
  BY <1>13 DEF WaitReturns, Go, Answered, Tell, EnterWait
<1>14. ASSUME NEW c \in Callers, WaitRaises(c) PROVE Goal
  BY <1>14 DEF WaitRaises, Go, Answered, Tell, EnterWait
<1>15. ASSUME NEW c \in Callers, ResultClose(c) PROVE Goal
  BY <1>15 DEF ResultClose, CloseAsk, Released, Answered, Go
<1>16. ASSUME NEW c \in Callers, CancelTerminate(c) PROVE Goal
  BY <1>16 DEF CancelTerminate, Go, Answered, Tell, EnterWait
<1>17. ASSUME NEW c \in Callers, CancelRelease(c) PROVE Goal
  BY <1>17 DEF CancelRelease, CloseAsk, Released, Answered, Go
<1>17a. ASSUME NEW c \in Callers, ShutBridge(c) PROVE Goal
  BY <1>17a DEF ShutBridge, Released, Answered, Go
<1>18. ASSUME NEW c \in Callers, FinalizeSkip(c) PROVE Goal
  BY <1>18 DEF FinalizeSkip, Go, Answered, Tell, EnterWait
<1>19. ASSUME NEW c \in Callers, FinalizeCheck(c) PROVE Goal
  BY <1>19 DEF FinalizeCheck, Go, Answered, Tell, EnterWait
<1>20. ASSUME NEW c \in Callers, FinalizeClaim(c) PROVE Goal
  BY <1>20 DEF FinalizeClaim, Go, Answered, Tell, EnterWait
<1>21. ASSUME NEW c \in Callers, FinalizeIndex(c) PROVE Goal
  BY <1>21 DEF FinalizeIndex, Go
<1>22. ASSUME NEW c \in Callers, FinalizeStore(c) PROVE Goal
  BY <1>22 DEF FinalizeStore, Go, Answered, Tell, EnterWait
<1>23. ASSUME NEW c \in Callers, NEW s \in Sessions, SubmitStart(c, s) PROVE Goal
  BY <1>23 DEF SubmitStart, Go, Answered, Tell, EnterWait
<1>24. ASSUME NEW c \in Callers, NEW s \in Sessions, Result(c, s) PROVE Goal
  BY <1>24 DEF Result, Go, Answered, Tell, EnterWait
<1>25. ASSUME NEW c \in Callers, NEW s \in Sessions, Stream(c, s) PROVE Goal
  BY <1>25 DEF Stream, Go, Answered, Tell, EnterWait
<1>26. ASSUME NEW c \in Callers, NEW s \in Sessions, Cancel(c, s) PROVE Goal
  BY <1>26 DEF Cancel, Go, Answered, Tell, EnterWait
<1>27. ASSUME NEW c \in Callers, NEW s \in Sessions, PersistedResult(c, s) PROVE Goal
  BY <1>27 DEF PersistedResult, Go, Answered, Tell, EnterWait
<1>28. CASE Crash
  BY <1>28 DEF Crash, Gone
<1>29. CASE Shutdown
  BY <1>29 DEF Shutdown, Gone
<1>30. CASE Restart
  BY <1>30 DEF Restart
<1>31. CASE UNCHANGED vars
  BY <1>31 DEF vars
<1>32. QED
  BY <1>1, <1>2, <1>3, <1>4, <1>5, <1>6, <1>7, <1>8, <1>9, <1>10, <1>11, <1>12, <1>13, <1>14, <1>15, <1>16, <1>17, <1>17a, <1>18, <1>19, <1>20, <1>21, <1>22, <1>23, <1>24, <1>25, <1>26, <1>27, <1>28, <1>29, <1>30, <1>31 DEF Next, ChildStep, CallerStep, Request


LEMMA MigratedBacked ==
    ASSUME NEW s \in Sessions, NEW r \in Migrated(s), Terminal(r)
    PROVE  r \in LinesOf(s)
<1>1. CASE \E i \in 1..Len(index) : Ended(s, i)
  <2>1. PICK i \in 1..Len(index) : Ended(s, i) /\ r = index[i].rec
    BY <1>1 DEF Migrated
  <2>2. QED
    BY <2>1 DEF Ended, LinesOf
<1>2. CASE ~ \E i \in 1..Len(index) : Ended(s, i)
  BY <1>2 DEF Migrated, Terminal, Line
<1>3. QED
  BY <1>1, <1>2

LEMMA RowStep ==
    ASSUME TypeInv, [Next]_vars, NEW s \in Sessions, Terminal(row'[s])
    PROVE  \/ row'[s] = row[s]
           \/ row'[s] \in LinesOf(s)
           \/ \E c \in Callers : pc[c] = "record" /\ on[c] = s /\ row'[s] = Line(event[c], env[c])
<1> USE DEF TypeInv, TypeOK, HistoryTypes, CallerTypes, PCs
<1>1. CASE row' = row
  BY <1>1
<1>2. CASE Restart
  BY <1>2, MigratedBacked DEF Restart
<1>3. ASSUME NEW c \in Callers, SubmitStore(c) PROVE row'[s] = row[s]
  BY <1>3 DEF SubmitStore, Terminal, Line
<1>4. ASSUME NEW c \in Callers, FinalizeStore(c)
      PROVE  row'[s] = row[s] \/ (pc[c] = "record" /\ on[c] = s /\ row'[s] = Line(event[c], env[c]))
  BY <1>4 DEF FinalizeStore
<1>5. QED
  BY <1>1, <1>2, <1>3, <1>4, WritesOfHistory

-----------------------------------------------------------------------------
LEMMA HistoryStep == IInv /\ [Next]_vars =>
    (StoreInv /\ HistoryBackedByProcess /\ OutcomeBackedByTrace /\ IndexBeforeStore)'
<1> SUFFICES ASSUME IInv, [Next]_vars
             PROVE  (StoreInv /\ HistoryBackedByProcess /\ OutcomeBackedByTrace /\ IndexBeforeStore)'
  OBVIOUS
<1> USE DEF IInv
<1>1. \A s \in Sessions : Kept(s)
  BY ProcessKept
<1>2. \A c \in Callers : pc[c] # "idle" => on[c] \in Sessions
  BY DEF TypeInv, TypeOK, CallerTypes
<1>3. StoreInv'
  <2>1. SUFFICES ASSUME NEW c \in Callers, pc'[c] = "record"
                 PROVE  Line(event'[c], env'[c]) \in {index'[i].rec : i \in {j \in 1..Len(index') : index'[j].s = on'[c]}}
    BY DEF StoreInv, LinesOf
  <2>2. CASE pc[c] = "record" /\ on'[c] = on[c] /\ event'[c] = event[c] /\ env'[c] = env[c]
    <3>1. on[c] \in Sessions /\ Line(event[c], env[c]) \in LinesOf(on[c])
      BY <1>2, <2>2 DEF StoreInv
    <3>2. \A s \in Sessions : LinesOf(s) \subseteq LinesOf(s)'
      BY LinesStep
    <3>3. QED
      BY <2>2, <3>1, <3>2 DEF LinesOf
  <2>3. CASE FinalizeIndex(c)
    <3> DEFINE e == [s |-> on[c], rec |-> Line(event[c], env[c])]
    <3>1. on' = on /\ event' = event /\ env' = env /\ on[c] \in Sessions /\ index' = Append(index, e)
      BY <1>2, <2>3 DEF FinalizeIndex
    <3>2. e \in [s : Sessions, rec : Records]
      BY <2>3, <3>1 DEF TypeInv, TypeOK, CallerTypes, FinalizeIndex, Records, Event, Line, Fin, Envelopes, Outcomes
    <3>3. \A s \in Sessions : LinesOf(s)' = LinesOf(s) \cup (IF e.s = s THEN {e.rec} ELSE {})
      BY <3>1, <3>2, LinesAppend DEF TypeInv, TypeOK
    <3>4. QED
      BY <3>1, <3>3 DEF LinesOf
  <2>4. QED
    BY <2>1, <2>2, <2>3, RecordStep
<1>4. \A s \in Sessions : \A r \in LinesOf(s)' : r \in LinesOf(s) \/ NewLine(s, r)
  BY LinesStep
<1>5. HistoryBackedByProcess'
  <2>1. SUFFICES ASSUME NEW s \in Sessions, NEW r \in LinesOf(s)'
                 PROVE  /\ r.event = "result" => child'[s] = "exited"
                        /\ r.event = "cancel" => signalled'[s] \/ child'[s] = "exited"
    BY DEF HistoryBackedByProcess
  <2>2. CASE r \in LinesOf(s)
    BY <1>1, <2>2 DEF HistoryBackedByProcess, Kept
  <2>3. CASE NewLine(s, r)
    BY <1>1, <2>3 DEF NewLine, PhaseInv, Fin, Line, Kept
  <2>4. QED
    BY <1>4, <2>2, <2>3
<1>6. OutcomeBackedByTrace'
  <2>1. SUFFICES ASSUME NEW s \in Sessions, NEW r \in LinesOf(s)', r.event = "result", r.outcome \in Outcomes
                 PROVE  r.outcome = trace'[s]
    BY DEF OutcomeBackedByTrace, Outcomes
  <2>2. CASE r \in LinesOf(s)
    BY <1>1, <2>1, <2>2 DEF HistoryBackedByProcess, OutcomeBackedByTrace, Kept
  <2>3. CASE NewLine(s, r)
    BY <1>1, <2>1, <2>3 DEF NewLine, TraceInv, Line, Kept
  <2>4. QED
    BY <1>4, <2>2, <2>3
<1>7. IndexBeforeStore'
  <2>1. SUFFICES ASSUME NEW s \in Sessions, Terminal(row'[s])
                 PROVE  row'[s] \in LinesOf(s)'
    BY DEF IndexBeforeStore, Terminal
  <2>2. LinesOf(s) \subseteq LinesOf(s)'
    BY LinesStep
  <2>3. CASE row'[s] = row[s]
    BY <2>1, <2>2, <2>3 DEF IndexBeforeStore, Terminal
  <2>4. ASSUME NEW c \in Callers, pc[c] = "record", on[c] = s, row'[s] = Line(event[c], env[c])
        PROVE  row'[s] \in LinesOf(s)
    BY <2>4 DEF StoreInv
  <2>5. QED
    BY <2>1, <2>2, <2>3, <2>4, RowStep
<1>8. QED
  BY <1>3, <1>5, <1>6, <1>7

LEMMA InductiveInit == Init => IInv
<1> SUFFICES ASSUME Init PROVE IInv
  OBVIOUS
<1>1. \A s \in Sessions : LinesOf(s) = {}
  BY DEF Init, LinesOf
<1>2. LaunchInv /\ PhaseInv /\ TraceInv /\ StoreInv
  BY DEF Init, LaunchInv, PhaseInv, TraceInv, StoreInv, Fin, Outcomes
<1>3. HistoryBackedByProcess /\ OutcomeBackedByTrace /\ IndexBeforeStore
  BY <1>1 DEF Init, HistoryBackedByProcess, OutcomeBackedByTrace, IndexBeforeStore, Terminal, Line
<1>4. QED
  BY <1>2, <1>3, TypeInit DEF IInv

LEMMA InductiveStep == IInv /\ [Next]_vars => IInv'
  BY TypeStep, LaunchStep, PhaseStep, TraceStep, HistoryStep DEF IInv

LEMMA Inductive == Spec => []IInv
  BY InductiveInit, InductiveStep, PTL DEF Spec

(* history never says that a run ended while nothing has been done to end  *)
(* its process (HistoryBackedByProcess), with any number of request threads *)
(* racing in result, stream and cancel.                                     *)
THEOREM EndedRunsEnded == Spec => []HistoryBackedByProcess
<1>1. IInv => HistoryBackedByProcess
  BY DEF IInv
<1>2. QED
  BY <1>1, Inductive, PTL

(* A recorded outcome is the one in the run's trace (OutcomeBackedByTrace). *)
THEOREM RecordedOutcomes == Spec => []OutcomeBackedByTrace
<1>1. IInv => OutcomeBackedByTrace
  BY DEF IInv
<1>2. QED
  BY <1>1, Inductive, PTL

(* runs.db is never ahead of index.jsonl (IndexBeforeStore), across crashes, *)
(* shutdowns, restarts and the migration.                                   *)
THEOREM StoreFollowsIndex == Spec => []IndexBeforeStore
<1>1. IInv => IndexBeforeStore
  BY DEF IInv
<1>2. QED
  BY <1>1, Inductive, PTL

(* What index.jsonl and runs.db say of a run is backed by its process and   *)
(* by its trace.                                                            *)
THEOREM RecordsBacked == Spec => []RecordsAreBacked
<1>1. HistoryBackedByProcess /\ OutcomeBackedByTrace /\ IndexBeforeStore => RecordsAreBacked
  BY DEF RecordsAreBacked
<1>2. QED
  BY <1>1, EndedRunsEnded, RecordedOutcomes, StoreFollowsIndex, PTL

-----------------------------------------------------------------------------
(* A run whose terminal row stands while no request is inside _finalize    *)
(* for it stays as it is, and nobody is told that a run ended while an     *)
(* answer still finds its bridge.                                          *)

(* Where requests, handles and signals may be: a stopped service has none, *)
(* and each of them points at a session that was launched.                 *)
PlaceInv ==
    /\ ~up => runs = {} /\ \A c \in Callers : on[c] = None
    /\ \A c \in Callers :
          /\ pc[c] = "idle" <=> on[c] = None
          /\ pc[c] \notin {"idle", "launch"} => child[on[c]] # "absent"
          /\ pc[c] # "idle" => asks[on[c]] # "none"
    /\ \A s \in Sessions : child[s] # "absent" => asks[s] # "none"
    /\ \A s \in Sessions : signalled[s] \/ s \in finalized => child[s] # "absent"

(* Past the claim the session is in _finalized.                            *)
ClaimInv == \A c \in Callers : pc[c] \in {"append", "record"} => on[c] \in finalized

(* A terminal row shuts _finalize: either this process remembers that it   *)
(* wrote it, or an earlier process wrote it and no handle is left.         *)
ShutInv ==
    \A s \in Sessions : Terminal(row[s]) =>
        \/ s \in finalized
        \/ s \notin runs /\ child[s] # "absent" /\ \A c \in Callers : on[c] # s

(* Whoever is past the pop, or was answered after it, finds the bridge     *)
(* taken; it is popped while the one thread that got it closes it.         *)
ClosedInv ==
    /\ \A c \in Callers : Fin(c) => asks[on[c]] \in {"popped", "closed"}
    /\ \A s \in Sessions :
          (s \in cancelled \/ \E r \in told[s] : r.via = "live") => asks[s] \in {"popped", "closed"}
    /\ \A c \in Callers : pc[c] = "shut" => asks[on[c]] = "popped"
    /\ \A c, d \in Callers : pc[c] = "shut" /\ pc[d] = "shut" /\ on[c] = on[d] => c = d
    /\ \A s \in Sessions : asks[s] = "popped" => \E c \in Callers : pc[c] = "shut" /\ on[c] = s

USE DEF childVars, memoryVars, historyVars, callerVars, clientVars

LEMMA PlaceStep == TypeInv /\ LaunchInv /\ PlaceInv /\ [Next]_vars => PlaceInv'
<1> SUFFICES ASSUME TypeInv /\ LaunchInv /\ PlaceInv, [Next]_vars PROVE PlaceInv'
  OBVIOUS
<1> USE RunServiceAssumption DEF RunServiceAssumption, TypeInv, TypeOK, ChildTypes, MemoryTypes, CallerTypes, LaunchInv, PlaceInv, PCs
<1>1. ASSUME NEW s \in Sessions, ChildLog(s) PROVE PlaceInv'
  BY <1>1 DEF ChildLog
<1>2. ASSUME NEW s \in Sessions, ChildReport(s) PROVE PlaceInv'
  BY <1>2 DEF ChildReport
<1>3. ASSUME NEW s \in Sessions, ChildExit(s) PROVE PlaceInv'
  BY <1>3 DEF ChildExit
<1>4. ASSUME NEW s \in Sessions, ChildRaises(s) PROVE PlaceInv'
  BY <1>4 DEF ChildRaises
<1>5. ASSUME NEW s \in Sessions, ChildKilled(s) PROVE PlaceInv'
  BY <1>5 DEF ChildKilled
<1>6. ASSUME NEW s \in Sessions, Drain(s) PROVE PlaceInv'
  BY <1>6 DEF Drain
<1>7. ASSUME NEW c \in Callers, SubmitLaunch(c) PROVE PlaceInv'
  BY <1>7 DEF SubmitLaunch, Go, Answered, Tell, EnterWait
<1>8. ASSUME NEW c \in Callers, SubmitFails(c) PROVE PlaceInv'
  BY <1>8 DEF SubmitFails, Go, Answered, Tell, EnterWait
<1>9. ASSUME NEW c \in Callers, SubmitRegister(c) PROVE PlaceInv'
  BY <1>9 DEF SubmitRegister, Go, Answered, Tell, EnterWait
<1>10. ASSUME NEW c \in Callers, SubmitIndex(c) PROVE PlaceInv'
  BY <1>10 DEF SubmitIndex, Go, Answered, Tell, EnterWait
<1>11. ASSUME NEW c \in Callers, SubmitStore(c) PROVE PlaceInv'
  BY <1>11 DEF SubmitStore, Go, Answered, Tell, EnterWait
<1>12. ASSUME NEW c \in Callers, StreamEnds(c) PROVE PlaceInv'
  BY <1>12 DEF StreamEnds, Go, Answered, Tell, EnterWait
<1>13. ASSUME NEW c \in Callers, WaitReturns(c) PROVE PlaceInv'
  BY <1>13 DEF WaitReturns, Go, Answered, Tell, EnterWait
<1>14. ASSUME NEW c \in Callers, WaitRaises(c) PROVE PlaceInv'
  BY <1>14 DEF WaitRaises, Go, Answered, Tell, EnterWait
<1>15. ASSUME NEW c \in Callers, ResultClose(c) PROVE PlaceInv'
  BY <1>15 DEF ResultClose, CloseAsk, Released, Answered, Go
<1>16. ASSUME NEW c \in Callers, CancelTerminate(c) PROVE PlaceInv'
  BY <1>16 DEF CancelTerminate, Go, Answered, Tell, EnterWait
<1>17. ASSUME NEW c \in Callers, CancelRelease(c) PROVE PlaceInv'
  BY <1>17 DEF CancelRelease, CloseAsk, Released, Answered, Go
<1>17a. ASSUME NEW c \in Callers, ShutBridge(c) PROVE PlaceInv'
  BY <1>17a DEF ShutBridge, Released, Answered, Go
<1>18. ASSUME NEW c \in Callers, FinalizeSkip(c) PROVE PlaceInv'
  BY <1>18 DEF FinalizeSkip, Go, Answered, Tell, EnterWait
<1>19. ASSUME NEW c \in Callers, FinalizeCheck(c) PROVE PlaceInv'
  BY <1>19 DEF FinalizeCheck, Go, Answered, Tell, EnterWait
<1>20. ASSUME NEW c \in Callers, FinalizeClaim(c) PROVE PlaceInv'
  BY <1>20 DEF FinalizeClaim, Go, Answered, Tell, EnterWait
<1>21. ASSUME NEW c \in Callers, FinalizeIndex(c) PROVE PlaceInv'
  BY <1>21 DEF FinalizeIndex, Go, Answered, Tell, EnterWait
<1>22. ASSUME NEW c \in Callers, FinalizeStore(c) PROVE PlaceInv'
  BY <1>22 DEF FinalizeStore, Go, Answered, Tell, EnterWait
<1>23. ASSUME NEW c \in Callers, NEW s \in Sessions, SubmitStart(c, s) PROVE PlaceInv'
  BY <1>23 DEF SubmitStart, Go, Answered, Tell, EnterWait
<1>24. ASSUME NEW c \in Callers, NEW s \in Sessions, Result(c, s) PROVE PlaceInv'
  BY <1>24 DEF Result, Go, Answered, Tell, EnterWait
<1>25. ASSUME NEW c \in Callers, NEW s \in Sessions, Stream(c, s) PROVE PlaceInv'
  BY <1>25 DEF Stream, Go, Answered, Tell, EnterWait
<1>26. ASSUME NEW c \in Callers, NEW s \in Sessions, Cancel(c, s) PROVE PlaceInv'
  BY <1>26 DEF Cancel, Go, Answered, Tell, EnterWait
<1>27. ASSUME NEW c \in Callers, NEW s \in Sessions, PersistedResult(c, s) PROVE PlaceInv'
  BY <1>27 DEF PersistedResult, Go, Answered, Tell, EnterWait
<1>28. CASE Crash
  BY <1>28 DEF Crash, Gone
<1>29. CASE Shutdown
  BY <1>29 DEF Shutdown, Gone
<1>30. CASE Restart
  BY <1>30 DEF Restart
<1>31. CASE UNCHANGED vars
  BY <1>31 DEF vars
<1>32. QED
  BY <1>1, <1>2, <1>3, <1>4, <1>5, <1>6, <1>7, <1>8, <1>9, <1>10, <1>11, <1>12, <1>13, <1>14, <1>15, <1>16, <1>17, <1>17a, <1>18, <1>19, <1>20, <1>21, <1>22, <1>23, <1>24, <1>25, <1>26, <1>27, <1>28, <1>29, <1>30, <1>31 DEF Next, ChildStep, CallerStep, Request

LEMMA ClosedStep == TypeInv /\ PlaceInv /\ ClosedInv /\ [Next]_vars => ClosedInv'
<1> SUFFICES ASSUME TypeInv /\ PlaceInv /\ ClosedInv, [Next]_vars PROVE ClosedInv'
  OBVIOUS
<1> USE RunServiceAssumption DEF RunServiceAssumption, TypeInv, TypeOK, MemoryTypes, CallerTypes, ClientTypes, PlaceInv, ClosedInv, Fin, PCs
<1>1. ASSUME NEW s \in Sessions, ChildLog(s) PROVE ClosedInv'
  BY <1>1 DEF ChildLog
<1>2. ASSUME NEW s \in Sessions, ChildReport(s) PROVE ClosedInv'
  BY <1>2 DEF ChildReport
<1>3. ASSUME NEW s \in Sessions, ChildExit(s) PROVE ClosedInv'
  BY <1>3 DEF ChildExit
<1>4. ASSUME NEW s \in Sessions, ChildRaises(s) PROVE ClosedInv'
  BY <1>4 DEF ChildRaises
<1>5. ASSUME NEW s \in Sessions, ChildKilled(s) PROVE ClosedInv'
  BY <1>5 DEF ChildKilled
<1>6. ASSUME NEW s \in Sessions, Drain(s) PROVE ClosedInv'
  BY <1>6 DEF Drain
<1>7. ASSUME NEW c \in Callers, SubmitLaunch(c) PROVE ClosedInv'
  BY <1>7 DEF SubmitLaunch, Go, Answered, Tell, EnterWait
<1>8. ASSUME NEW c \in Callers, SubmitFails(c) PROVE ClosedInv'
  BY <1>8 DEF SubmitFails, Go, Answered, Tell, EnterWait
<1>9. ASSUME NEW c \in Callers, SubmitRegister(c) PROVE ClosedInv'
  BY <1>9 DEF SubmitRegister, Go, Answered, Tell, EnterWait
<1>10. ASSUME NEW c \in Callers, SubmitIndex(c) PROVE ClosedInv'
  BY <1>10 DEF SubmitIndex, Go, Answered, Tell, EnterWait
<1>11. ASSUME NEW c \in Callers, SubmitStore(c) PROVE ClosedInv'
  BY <1>11 DEF SubmitStore, Go, Answered, Tell, EnterWait
<1>12. ASSUME NEW c \in Callers, StreamEnds(c) PROVE ClosedInv'
  BY <1>12 DEF StreamEnds, Go, Answered, Tell, EnterWait
<1>13. ASSUME NEW c \in Callers, WaitReturns(c) PROVE ClosedInv'
  BY <1>13 DEF WaitReturns, Go, Answered, Tell, EnterWait
<1>14. ASSUME NEW c \in Callers, WaitRaises(c) PROVE ClosedInv'
  BY <1>14 DEF WaitRaises, Go, Answered, Tell, EnterWait
<1>15. ASSUME NEW c \in Callers, ResultClose(c) PROVE ClosedInv'
  BY <1>15 DEF ResultClose, CloseAsk, Released, Answered, Go
<1>16. ASSUME NEW c \in Callers, CancelTerminate(c) PROVE ClosedInv'
  BY <1>16 DEF CancelTerminate, Go, Answered, Tell, EnterWait
<1>17. ASSUME NEW c \in Callers, CancelRelease(c) PROVE ClosedInv'
  BY <1>17 DEF CancelRelease, CloseAsk, Released, Answered, Go
<1>17a. ASSUME NEW c \in Callers, ShutBridge(c) PROVE ClosedInv'
  BY <1>17a DEF ShutBridge, Released, Answered, Go
<1>18. ASSUME NEW c \in Callers, FinalizeSkip(c) PROVE ClosedInv'
  BY <1>18 DEF FinalizeSkip, Go, Answered, Tell, EnterWait
<1>19. ASSUME NEW c \in Callers, FinalizeCheck(c) PROVE ClosedInv'
  BY <1>19 DEF FinalizeCheck, Go, Answered, Tell, EnterWait
<1>20. ASSUME NEW c \in Callers, FinalizeClaim(c) PROVE ClosedInv'
  BY <1>20 DEF FinalizeClaim, Go, Answered, Tell, EnterWait
<1>21. ASSUME NEW c \in Callers, FinalizeIndex(c) PROVE ClosedInv'
  BY <1>21 DEF FinalizeIndex, Go, Answered, Tell, EnterWait
<1>22. ASSUME NEW c \in Callers, FinalizeStore(c) PROVE ClosedInv'
  BY <1>22 DEF FinalizeStore, Go, Answered, Tell, EnterWait
<1>23. ASSUME NEW c \in Callers, NEW s \in Sessions, SubmitStart(c, s) PROVE ClosedInv'
  BY <1>23 DEF SubmitStart, Go, Answered, Tell, EnterWait
<1>24. ASSUME NEW c \in Callers, NEW s \in Sessions, Result(c, s) PROVE ClosedInv'
  BY <1>24 DEF Result, Go, Answered, Tell, EnterWait
<1>25. ASSUME NEW c \in Callers, NEW s \in Sessions, Stream(c, s) PROVE ClosedInv'
  BY <1>25 DEF Stream, Go, Answered, Tell, EnterWait
<1>26. ASSUME NEW c \in Callers, NEW s \in Sessions, Cancel(c, s) PROVE ClosedInv'
  BY <1>26 DEF Cancel, Go, Answered, Tell, EnterWait
<1>27. ASSUME NEW c \in Callers, NEW s \in Sessions, PersistedResult(c, s) PROVE ClosedInv'
  BY <1>27 DEF PersistedResult, Go, Answered, Tell, EnterWait
<1>28. CASE Crash
  BY <1>28 DEF Crash, Gone
<1>29. CASE Shutdown
  BY <1>29 DEF Shutdown, Gone
<1>30. CASE Restart
  BY <1>30 DEF Restart
<1>31. CASE UNCHANGED vars
  BY <1>31 DEF vars
<1>32. QED
  BY <1>1, <1>2, <1>3, <1>4, <1>5, <1>6, <1>7, <1>8, <1>9, <1>10, <1>11, <1>12, <1>13, <1>14, <1>15, <1>16, <1>17, <1>17a, <1>18, <1>19, <1>20, <1>21, <1>22, <1>23, <1>24, <1>25, <1>26, <1>27, <1>28, <1>29, <1>30, <1>31 DEF Next, ChildStep, CallerStep, Request

LEMMA ShutStep == IInv /\ PlaceInv /\ ClaimInv /\ ShutInv /\ [Next]_vars => (ClaimInv /\ ShutInv)'
<1> SUFFICES ASSUME IInv /\ PlaceInv /\ ClaimInv /\ ShutInv, [Next]_vars PROVE (ClaimInv /\ ShutInv)'
  OBVIOUS
<1> USE RunServiceAssumption DEF RunServiceAssumption, IInv, TypeInv, TypeOK, MemoryTypes, CallerTypes, HistoryTypes, PlaceInv, ClaimInv, ShutInv, PCs
<1>1. ASSUME NEW s \in Sessions, ChildLog(s) PROVE (ClaimInv /\ ShutInv)'
  BY <1>1 DEF ChildLog
<1>2. ASSUME NEW s \in Sessions, ChildReport(s) PROVE (ClaimInv /\ ShutInv)'
  BY <1>2 DEF ChildReport
<1>3. ASSUME NEW s \in Sessions, ChildExit(s) PROVE (ClaimInv /\ ShutInv)'
  BY <1>3 DEF ChildExit
<1>4. ASSUME NEW s \in Sessions, ChildRaises(s) PROVE (ClaimInv /\ ShutInv)'
  BY <1>4 DEF ChildRaises
<1>5. ASSUME NEW s \in Sessions, ChildKilled(s) PROVE (ClaimInv /\ ShutInv)'
  BY <1>5 DEF ChildKilled
<1>6. ASSUME NEW s \in Sessions, Drain(s) PROVE (ClaimInv /\ ShutInv)'
  BY <1>6 DEF Drain
<1>7. ASSUME NEW c \in Callers, SubmitLaunch(c) PROVE (ClaimInv /\ ShutInv)'
  BY <1>7 DEF SubmitLaunch, Go, Answered, Tell, EnterWait
<1>8. ASSUME NEW c \in Callers, SubmitFails(c) PROVE (ClaimInv /\ ShutInv)'
  BY <1>8 DEF SubmitFails, Go, Answered, Tell, EnterWait
<1>9. ASSUME NEW c \in Callers, SubmitRegister(c) PROVE (ClaimInv /\ ShutInv)'
  BY <1>9 DEF SubmitRegister, Go, Answered, Tell, EnterWait
<1>10. ASSUME NEW c \in Callers, SubmitIndex(c) PROVE (ClaimInv /\ ShutInv)'
  BY <1>10 DEF SubmitIndex, Go, Answered, Tell, EnterWait
<1>11. ASSUME NEW c \in Callers, SubmitStore(c) PROVE (ClaimInv /\ ShutInv)'
  BY <1>11 DEF SubmitStore, Go, Answered, Tell, EnterWait, Terminal, Line
<1>12. ASSUME NEW c \in Callers, StreamEnds(c) PROVE (ClaimInv /\ ShutInv)'
  BY <1>12 DEF StreamEnds, Go, Answered, Tell, EnterWait
<1>13. ASSUME NEW c \in Callers, WaitReturns(c) PROVE (ClaimInv /\ ShutInv)'
  BY <1>13 DEF WaitReturns, Go, Answered, Tell, EnterWait
<1>14. ASSUME NEW c \in Callers, WaitRaises(c) PROVE (ClaimInv /\ ShutInv)'
  BY <1>14 DEF WaitRaises, Go, Answered, Tell, EnterWait
<1>15. ASSUME NEW c \in Callers, ResultClose(c) PROVE (ClaimInv /\ ShutInv)'
  BY <1>15 DEF ResultClose, CloseAsk, Released, Answered, Go
<1>16. ASSUME NEW c \in Callers, CancelTerminate(c) PROVE (ClaimInv /\ ShutInv)'
  BY <1>16 DEF CancelTerminate, Go, Answered, Tell, EnterWait
<1>17. ASSUME NEW c \in Callers, CancelRelease(c) PROVE (ClaimInv /\ ShutInv)'
  BY <1>17 DEF CancelRelease, CloseAsk, Released, Answered, Go
<1>17a. ASSUME NEW c \in Callers, ShutBridge(c) PROVE (ClaimInv /\ ShutInv)'
  BY <1>17a DEF ShutBridge, Released, Answered, Go
<1>18. ASSUME NEW c \in Callers, FinalizeSkip(c) PROVE (ClaimInv /\ ShutInv)'
  BY <1>18 DEF FinalizeSkip, Go, Answered, Tell, EnterWait
<1>19. ASSUME NEW c \in Callers, FinalizeCheck(c) PROVE (ClaimInv /\ ShutInv)'
  BY <1>19 DEF FinalizeCheck, Go, Answered, Tell, EnterWait
<1>20. ASSUME NEW c \in Callers, FinalizeClaim(c) PROVE (ClaimInv /\ ShutInv)'
  BY <1>20 DEF FinalizeClaim, Go, Answered, Tell, EnterWait
<1>21. ASSUME NEW c \in Callers, FinalizeIndex(c) PROVE (ClaimInv /\ ShutInv)'
  BY <1>21 DEF FinalizeIndex, Go, Answered, Tell, EnterWait
<1>22. ASSUME NEW c \in Callers, FinalizeStore(c) PROVE (ClaimInv /\ ShutInv)'
  BY <1>22 DEF FinalizeStore, Go, Answered, Tell, EnterWait, Terminal, Line
<1>23. ASSUME NEW c \in Callers, NEW s \in Sessions, SubmitStart(c, s) PROVE (ClaimInv /\ ShutInv)'
  BY <1>23 DEF SubmitStart, Go, Answered, Tell, EnterWait
<1>24. ASSUME NEW c \in Callers, NEW s \in Sessions, Result(c, s) PROVE (ClaimInv /\ ShutInv)'
  BY <1>24 DEF Result, Go, Answered, Tell, EnterWait
<1>25. ASSUME NEW c \in Callers, NEW s \in Sessions, Stream(c, s) PROVE (ClaimInv /\ ShutInv)'
  BY <1>25 DEF Stream, Go, Answered, Tell, EnterWait
<1>26. ASSUME NEW c \in Callers, NEW s \in Sessions, Cancel(c, s) PROVE (ClaimInv /\ ShutInv)'
  BY <1>26 DEF Cancel, Go, Answered, Tell, EnterWait
<1>27. ASSUME NEW c \in Callers, NEW s \in Sessions, PersistedResult(c, s) PROVE (ClaimInv /\ ShutInv)'
  BY <1>27 DEF PersistedResult, Go, Answered, Tell, EnterWait
<1>28. CASE Crash
  BY <1>28 DEF Crash, Gone
<1>29. CASE Shutdown
  BY <1>29 DEF Shutdown, Gone
<1>30. CASE Restart
  <2>1. ASSUME NEW s \in Sessions, Terminal(row'[s])
        PROVE  child[s] # "absent"
    <3>1. row'[s] = row[s] \/ row'[s] \in LinesOf(s)
      BY <1>30, <2>1, MigratedBacked DEF Restart
    <3>2. Terminal(row[s]) => row[s] \in LinesOf(s)
      BY DEF IndexBeforeStore
    <3>3. row'[s] \in LinesOf(s)
      BY <2>1, <3>1, <3>2 DEF Terminal
    <3>4. QED
      BY <2>1, <3>3 DEF HistoryBackedByProcess, Terminal
  <2>2. QED
    BY <1>30, <2>1 DEF Restart
<1>31. CASE UNCHANGED vars
  BY <1>31 DEF vars
<1>32. QED
  BY <1>1, <1>2, <1>3, <1>4, <1>5, <1>6, <1>7, <1>8, <1>9, <1>10, <1>11, <1>12, <1>13, <1>14, <1>15, <1>16, <1>17, <1>17a, <1>18, <1>19, <1>20, <1>21, <1>22, <1>23, <1>24, <1>25, <1>26, <1>27, <1>28, <1>29, <1>30, <1>31 DEF Next, ChildStep, CallerStep, Request


-----------------------------------------------------------------------------
SettleInv == IInv /\ PlaceInv /\ ClaimInv /\ ShutInv /\ ClosedInv

LEMMA SettleInit == Init => SettleInv
<1> SUFFICES ASSUME Init PROVE SettleInv
  OBVIOUS
<1>1. PlaceInv /\ ClaimInv /\ ShutInv /\ ClosedInv
  BY DEF Init, PlaceInv, ClaimInv, ShutInv, ClosedInv, Fin, Terminal, Line
<1>2. QED
  BY <1>1, InductiveInit DEF SettleInv

LEMMA SettleStep == SettleInv /\ [Next]_vars => SettleInv'
<1> SUFFICES ASSUME SettleInv, [Next]_vars PROVE SettleInv'
  OBVIOUS
<1>1. TypeInv /\ LaunchInv
  BY DEF SettleInv, IInv
<1>2. PlaceInv'
  BY <1>1, PlaceStep DEF SettleInv
<1>3. (ClaimInv /\ ShutInv)'
  BY ShutStep DEF SettleInv
<1>4. ClosedInv'
  BY <1>1, ClosedStep DEF SettleInv
<1>5. QED
  BY <1>2, <1>3, <1>4, InductiveStep DEF SettleInv

LEMMA Settling == Spec => []SettleInv
  BY SettleInit, SettleStep, PTL DEF Spec

(* Nobody is told that a run ended while an answer still finds its bridge,  *)
(* and a bridge that was taken out of _asks has exactly one thread that is  *)
(* about to close it (BridgeReleased), with any number of threads.          *)
THEOREM BridgeIsReleased == Spec => []BridgeReleased
<1>1. ASSUME SettleInv, NEW s \in Sessions, asks[s] = "popped"
      PROVE  \E c \in Callers : Closers(s) = {c}
  <2>1. PICK c \in Callers : pc[c] = "shut" /\ on[c] = s
    BY <1>1 DEF SettleInv, ClosedInv
  <2>2. Closers(s) = {c}
    BY <1>1, <2>1 DEF SettleInv, ClosedInv, Closers
  <2>3. QED
    BY <2>2
<1>2. ASSUME SettleInv, NEW s \in Sessions, asks[s] # "popped"
      PROVE  Closers(s) = {}
  BY <1>2 DEF SettleInv, ClosedInv, Closers
<1>3. SettleInv => BridgeReleased
  BY <1>1, <1>2 DEF SettleInv, ClosedInv, BridgeReleased
<1>4. QED
  BY <1>3, Settling, PTL

-----------------------------------------------------------------------------

(* The only way into _finalize is its guard.                                *)
LEMMA WayIn ==
    ASSUME TypeInv, [Next]_vars
    PROVE  \A d \in Callers : Finalizing(d)' =>
              \/ Finalizing(d) /\ on'[d] = on[d]
              \/ FinalizeCheck(d)
<1> DEFINE Step(d) == \/ Finalizing(d) /\ on'[d] = on[d]
                     \/ FinalizeCheck(d)
<1> DEFINE Goal == \A d \in Callers : Finalizing(d)' => Step(d)
<1> USE DEF TypeInv, TypeOK, CallerTypes, PCs, Finalizing
<1>1. ASSUME NEW s \in Sessions, ChildLog(s) PROVE Goal
  BY <1>1 DEF ChildLog
<1>2. ASSUME NEW s \in Sessions, ChildReport(s) PROVE Goal
  BY <1>2 DEF ChildReport
<1>3. ASSUME NEW s \in Sessions, ChildExit(s) PROVE Goal
  BY <1>3 DEF ChildExit
<1>4. ASSUME NEW s \in Sessions, ChildRaises(s) PROVE Goal
  BY <1>4 DEF ChildRaises
<1>5. ASSUME NEW s \in Sessions, ChildKilled(s) PROVE Goal
  BY <1>5 DEF ChildKilled
<1>6. ASSUME NEW s \in Sessions, Drain(s) PROVE Goal
  BY <1>6 DEF Drain
<1>7. ASSUME NEW c \in Callers, SubmitLaunch(c) PROVE Goal
  BY <1>7 DEF SubmitLaunch, Go, Answered, Tell, EnterWait
<1>8. ASSUME NEW c \in Callers, SubmitFails(c) PROVE Goal
  BY <1>8 DEF SubmitFails, Go, Answered, Tell, EnterWait
<1>9. ASSUME NEW c \in Callers, SubmitRegister(c) PROVE Goal
  BY <1>9 DEF SubmitRegister, Go, Answered, Tell, EnterWait
<1>10. ASSUME NEW c \in Callers, SubmitIndex(c) PROVE Goal
  BY <1>10 DEF SubmitIndex, Go, Answered, Tell, EnterWait
<1>11. ASSUME NEW c \in Callers, SubmitStore(c) PROVE Goal
  BY <1>11 DEF SubmitStore, Go, Answered, Tell, EnterWait
<1>12. ASSUME NEW c \in Callers, StreamEnds(c) PROVE Goal
  BY <1>12 DEF StreamEnds, Go, Answered, Tell, EnterWait
<1>13. ASSUME NEW c \in Callers, WaitReturns(c) PROVE Goal
  BY <1>13 DEF WaitReturns, Go, Answered, Tell, EnterWait
<1>14. ASSUME NEW c \in Callers, WaitRaises(c) PROVE Goal
  BY <1>14 DEF WaitRaises, Go, Answered, Tell, EnterWait
<1>15. ASSUME NEW c \in Callers, ResultClose(c) PROVE Goal
  BY <1>15 DEF ResultClose, CloseAsk, Released, Answered, Go
<1>16. ASSUME NEW c \in Callers, CancelTerminate(c) PROVE Goal
  BY <1>16 DEF CancelTerminate, Go, Answered, Tell, EnterWait
<1>17. ASSUME NEW c \in Callers, CancelRelease(c) PROVE Goal
  BY <1>17 DEF CancelRelease, CloseAsk, Released, Answered, Go
<1>17a. ASSUME NEW c \in Callers, ShutBridge(c) PROVE Goal
  BY <1>17a DEF ShutBridge, Released, Answered, Go
<1>18. ASSUME NEW c \in Callers, FinalizeSkip(c) PROVE Goal
  BY <1>18 DEF FinalizeSkip, Go, Answered, Tell, EnterWait
<1>19. ASSUME NEW c \in Callers, FinalizeCheck(c) PROVE Goal
  BY <1>19 DEF FinalizeCheck, Go
<1>20. ASSUME NEW c \in Callers, FinalizeClaim(c) PROVE Goal
  BY <1>20 DEF FinalizeClaim, Go, Answered, Tell, EnterWait
<1>21. ASSUME NEW c \in Callers, FinalizeIndex(c) PROVE Goal
  BY <1>21 DEF FinalizeIndex, Go, Answered, Tell, EnterWait
<1>22. ASSUME NEW c \in Callers, FinalizeStore(c) PROVE Goal
  BY <1>22 DEF FinalizeStore, Go, Answered, Tell, EnterWait
<1>23. ASSUME NEW c \in Callers, NEW s \in Sessions, SubmitStart(c, s) PROVE Goal
  BY <1>23 DEF SubmitStart, Go, Answered, Tell, EnterWait
<1>24. ASSUME NEW c \in Callers, NEW s \in Sessions, Result(c, s) PROVE Goal
  BY <1>24 DEF Result, Go, Answered, Tell, EnterWait
<1>25. ASSUME NEW c \in Callers, NEW s \in Sessions, Stream(c, s) PROVE Goal
  BY <1>25 DEF Stream, Go, Answered, Tell, EnterWait
<1>26. ASSUME NEW c \in Callers, NEW s \in Sessions, Cancel(c, s) PROVE Goal
  BY <1>26 DEF Cancel, Go, Answered, Tell, EnterWait
<1>27. ASSUME NEW c \in Callers, NEW s \in Sessions, PersistedResult(c, s) PROVE Goal
  BY <1>27 DEF PersistedResult, Go, Answered, Tell, EnterWait
<1>28. CASE Crash
  BY <1>28 DEF Crash, Gone
<1>29. CASE Shutdown
  BY <1>29 DEF Shutdown, Gone
<1>30. CASE Restart
  BY <1>30 DEF Restart
<1>31. CASE UNCHANGED vars
  BY <1>31 DEF vars
<1>32. QED
  BY <1>1, <1>2, <1>3, <1>4, <1>5, <1>6, <1>7, <1>8, <1>9, <1>10, <1>11, <1>12, <1>13, <1>14, <1>15, <1>16, <1>17, <1>17a, <1>18, <1>19, <1>20, <1>21, <1>22, <1>23, <1>24, <1>25, <1>26, <1>27, <1>28, <1>29, <1>30, <1>31 DEF Next, ChildStep, CallerStep, Request


LEMMA EndLinesAppend ==
    ASSUME HistoryTypes, NEW r \in [s : Sessions, rec : Records], index' = Append(index, r),
           NEW s \in Sessions, ~(r.s = s /\ Terminal(r.rec))
    PROVE  EndLines(s)' = EndLines(s)
<1> DEFINE n == Len(index)
<1>1. n \in Nat /\ Len(index') = n + 1 /\ index'[n + 1] = r
  BY DEF HistoryTypes
<1>2. \A i \in 1..n : index'[i] = index[i]
  BY DEF HistoryTypes
<1>3. 1..(n + 1) = 1..n \cup {n + 1}
  BY <1>1
<1>4. QED
  BY <1>1, <1>2, <1>3 DEF EndLines, Terminal

LEMMA SettledStep ==
    ASSUME SettleInv, [Next]_vars, NEW s \in Sessions, Settled(s)
    PROVE  Settled(s)' /\ row'[s] = row[s] /\ EndLines(s)' = EndLines(s)
<1> USE DEF SettleInv, IInv, TypeInv, TypeOK, CallerTypes, HistoryTypes
<1>1. Terminal(row[s]) /\ \A c \in Callers : on[c] = s => ~Finalizing(c)
  BY DEF Settled
<1>2. row[s].event # "absent"
  BY <1>1 DEF Terminal
<1>3. row'[s] = row[s]
  <2>1. CASE Restart
    BY <1>2, <2>1 DEF Restart
  <2>2. ASSUME NEW c \in Callers, SubmitStore(c) PROVE row'[s] = row[s]
    BY <1>2, <2>2 DEF SubmitStore
  <2>3. ASSUME NEW c \in Callers, FinalizeStore(c) PROVE row'[s] = row[s]
    BY <1>1, <2>3 DEF FinalizeStore, Finalizing
  <2>4. QED
    BY <2>1, <2>2, <2>3, WritesOfHistory
<1>4. EndLines(s)' = EndLines(s)
  <2>1. CASE index' = index
    BY <2>1 DEF EndLines
  <2>2. ASSUME NEW c \in Callers, SubmitIndex(c) PROVE EndLines(s)' = EndLines(s)
    <3> DEFINE e == [s |-> on[c], rec |-> Line("submit", "none")]
    <3>1. e \in [s : Sessions, rec : Records] /\ index' = Append(index, e)
      BY <2>2 DEF SubmitIndex, Records, Event, Line
    <3>2. ~Terminal(e.rec)
      BY DEF Terminal, Line
    <3>3. QED
      BY <3>1, <3>2, EndLinesAppend
  <2>3. ASSUME NEW c \in Callers, FinalizeIndex(c) PROVE EndLines(s)' = EndLines(s)
    <3> DEFINE e == [s |-> on[c], rec |-> Line(event[c], env[c])]
    <3>1. e \in [s : Sessions, rec : Records] /\ index' = Append(index, e)
      BY <2>3 DEF FinalizeIndex, Records, Event, Line, Fin, Envelopes, Outcomes
    <3>2. on[c] # s
      BY <1>1, <2>3 DEF FinalizeIndex, Finalizing
    <3>3. QED
      BY <3>1, <3>2, EndLinesAppend
  <2>4. QED
    BY <2>1, <2>2, <2>3, WritesOfHistory
<1>5. ASSUME NEW c \in Callers, on'[c] = s, Finalizing(c)' PROVE FALSE
  <2>1. CASE Finalizing(c) /\ on'[c] = on[c]
    BY <1>1, <1>5, <2>1
  <2>2. CASE FinalizeCheck(c)
    <3>1. on[c] = s /\ s \notin finalized
      BY <1>5, <2>2 DEF FinalizeCheck
    <3>2. QED
      BY <1>1, <3>1 DEF ShutInv
  <2>3. QED
    BY <1>5, <2>1, <2>2, WayIn
<1>6. QED
  BY <1>1, <1>3, <1>4, <1>5 DEF Settled, Terminal

(* A settled run is final (SettledIsFinal): no result, stream, cancel, stop *)
(* or restart changes its row or ends it in the index a second time.        *)
THEOREM SettledRunsAreFinal == Spec => SettledIsFinal
<1> DEFINE Final == \A s \in Sessions :
                        Settled(s) => Settled(s)' /\ row'[s] = row[s] /\ EndLines(s)' = EndLines(s)
<1>1. SettleInv /\ [Next]_vars => [Final]_vars
  BY SettledStep
<1>2. Spec => [][Final]_vars
  <2> HIDE DEF Final
  <2>1. QED
    BY <1>1, Settling, PTL DEF Spec
<1>3. QED
  BY <1>2 DEF SettledIsFinal

-----------------------------------------------------------------------------
(* The two conditions under which NoLostTerminal is claimed.                *)
Calm == stops = 0 /\ ~EarlyClients

(* A client knows a run only after its row was inserted.                    *)
KnownInv ==
    Calm => /\ up
            /\ \A s \in known : row[s].event # "absent"
            /\ \A c \in Callers :
                  pc[c] \notin {"idle", "launch", "register", "index", "store"} => on[c] \in known

(* A run whose end is in the index is ended in the store, or the request    *)
(* that wrote the line is about to write the row.                           *)
PendingInv ==
    Calm => \A s \in Sessions :
                (\E r \in LinesOf(s) : Terminal(r)) =>
                    Terminal(row[s]) \/ \E c \in Callers : pc[c] = "record" /\ on[c] = s

(* A step leaves what clients know in the store; no calm begins anew.       *)
LEMMA KnownStep == TypeInv /\ KnownInv /\ [Next]_vars => KnownInv' /\ (Calm' => Calm)
<1> SUFFICES ASSUME TypeInv, KnownInv, [Next]_vars PROVE KnownInv' /\ (Calm' => Calm)
  OBVIOUS
<1> DEFINE Goal == KnownInv' /\ (Calm' => Calm)
<1> USE RunServiceAssumption DEF RunServiceAssumption, TypeInv, TypeOK, CallerTypes, MemoryTypes, HistoryTypes, ClientTypes, PCs, KnownInv, Calm
<1>1. ASSUME NEW s \in Sessions, ChildLog(s) PROVE Goal
  BY <1>1 DEF ChildLog
<1>2. ASSUME NEW s \in Sessions, ChildReport(s) PROVE Goal
  BY <1>2 DEF ChildReport
<1>3. ASSUME NEW s \in Sessions, ChildExit(s) PROVE Goal
  BY <1>3 DEF ChildExit
<1>4. ASSUME NEW s \in Sessions, ChildRaises(s) PROVE Goal
  BY <1>4 DEF ChildRaises
<1>5. ASSUME NEW s \in Sessions, ChildKilled(s) PROVE Goal
  BY <1>5 DEF ChildKilled
<1>6. ASSUME NEW s \in Sessions, Drain(s) PROVE Goal
  BY <1>6 DEF Drain
<1>7. ASSUME NEW c \in Callers, SubmitLaunch(c) PROVE Goal
  BY <1>7 DEF SubmitLaunch, Go, Answered, Tell, EnterWait, Reachable, Line
<1>8. ASSUME NEW c \in Callers, SubmitFails(c) PROVE Goal
  BY <1>8 DEF SubmitFails, Go, Answered, Tell, EnterWait, Reachable, Line
<1>9. ASSUME NEW c \in Callers, SubmitRegister(c) PROVE Goal
  BY <1>9 DEF SubmitRegister, Go, Answered, Tell, EnterWait, Reachable, Line
<1>10. ASSUME NEW c \in Callers, SubmitIndex(c) PROVE Goal
  BY <1>10 DEF SubmitIndex, Go, Answered, Tell, EnterWait, Reachable, Line
<1>11. ASSUME NEW c \in Callers, SubmitStore(c) PROVE Goal
  BY <1>11 DEF SubmitStore, Go, Answered, Tell, EnterWait, Reachable, Line
<1>12. ASSUME NEW c \in Callers, StreamEnds(c) PROVE Goal
  BY <1>12 DEF StreamEnds, Go, Answered, Tell, EnterWait, Reachable, Line
<1>13. ASSUME NEW c \in Callers, WaitReturns(c) PROVE Goal
  BY <1>13 DEF WaitReturns, Go, Answered, Tell, EnterWait, Reachable, Line
<1>14. ASSUME NEW c \in Callers, WaitRaises(c) PROVE Goal
  BY <1>14 DEF WaitRaises, Go, Answered, Tell, EnterWait, Reachable, Line
<1>15. ASSUME NEW c \in Callers, ResultClose(c) PROVE Goal
  BY <1>15 DEF ResultClose, CloseAsk, Released, Answered, Go, Reachable, Line
<1>16. ASSUME NEW c \in Callers, CancelTerminate(c) PROVE Goal
  BY <1>16 DEF CancelTerminate, Go, Answered, Tell, EnterWait, Reachable, Line
<1>17. ASSUME NEW c \in Callers, CancelRelease(c) PROVE Goal
  BY <1>17 DEF CancelRelease, CloseAsk, Released, Answered, Go, Reachable, Line
<1>17a. ASSUME NEW c \in Callers, ShutBridge(c) PROVE Goal
  BY <1>17a DEF ShutBridge, Released, Answered, Go, Reachable, Line
<1>18. ASSUME NEW c \in Callers, FinalizeSkip(c) PROVE Goal
  BY <1>18 DEF FinalizeSkip, Go, Answered, Tell, EnterWait, Reachable, Line
<1>19. ASSUME NEW c \in Callers, FinalizeCheck(c) PROVE Goal
  BY <1>19 DEF FinalizeCheck, Go, Answered, Tell, EnterWait, Reachable, Line
<1>20. ASSUME NEW c \in Callers, FinalizeClaim(c) PROVE Goal
  BY <1>20 DEF FinalizeClaim, Go, Answered, Tell, EnterWait, Reachable, Line
<1>21. ASSUME NEW c \in Callers, FinalizeIndex(c) PROVE Goal
  BY <1>21 DEF FinalizeIndex, Go, Answered, Tell, EnterWait, Reachable, Line
<1>22. ASSUME NEW c \in Callers, FinalizeStore(c) PROVE Goal
  BY <1>22 DEF FinalizeStore, Go, Answered, Tell, EnterWait, Reachable, Line
<1>23. ASSUME NEW c \in Callers, NEW s \in Sessions, SubmitStart(c, s) PROVE Goal
  BY <1>23 DEF SubmitStart, Go, Answered, Tell, EnterWait, Reachable, Line
<1>24. ASSUME NEW c \in Callers, NEW s \in Sessions, Result(c, s) PROVE Goal
  BY <1>24 DEF Result, Go, Answered, Tell, EnterWait, Reachable, Line
<1>25. ASSUME NEW c \in Callers, NEW s \in Sessions, Stream(c, s) PROVE Goal
  BY <1>25 DEF Stream, Go, Answered, Tell, EnterWait, Reachable, Line
<1>26. ASSUME NEW c \in Callers, NEW s \in Sessions, Cancel(c, s) PROVE Goal
  BY <1>26 DEF Cancel, Go, Answered, Tell, EnterWait, Reachable, Line
<1>27. ASSUME NEW c \in Callers, NEW s \in Sessions, PersistedResult(c, s) PROVE Goal
  BY <1>27 DEF PersistedResult, Go, Answered, Tell, EnterWait, Reachable, Line
<1>28. CASE Crash
  BY <1>28 DEF Crash, Gone
<1>29. CASE Shutdown
  BY <1>29 DEF Shutdown, Gone
<1>30. CASE Restart
  BY <1>30 DEF Restart
<1>31. CASE UNCHANGED vars
  BY <1>31 DEF vars
<1>32. QED
  BY <1>1, <1>2, <1>3, <1>4, <1>5, <1>6, <1>7, <1>8, <1>9, <1>10, <1>11, <1>12, <1>13, <1>14, <1>15, <1>16, <1>17, <1>17a, <1>18, <1>19, <1>20, <1>21, <1>22, <1>23, <1>24, <1>25, <1>26, <1>27, <1>28, <1>29, <1>30, <1>31 DEF Next, ChildStep, CallerStep, Request

(* Who is about to write the row goes on to write it, unless the service    *)
(* stops.                                                                   *)
LEMMA RecordGoesOn ==
    ASSUME TypeInv, [Next]_vars, stops' = 0
    PROVE  \A d \in Callers : pc[d] = "record" =>
              \/ pc'[d] = "record" /\ on'[d] = on[d]
              \/ FinalizeStore(d)
<1> DEFINE GoesOn(d) == \/ pc'[d] = "record" /\ on'[d] = on[d]
                       \/ FinalizeStore(d)
<1> DEFINE Goal == \A d \in Callers : pc[d] = "record" => GoesOn(d)
<1> USE DEF TypeInv, TypeOK, CallerTypes, MemoryTypes, PCs
<1>1. ASSUME NEW s \in Sessions, ChildLog(s) PROVE Goal
  BY <1>1 DEF ChildLog
<1>2. ASSUME NEW s \in Sessions, ChildReport(s) PROVE Goal
  BY <1>2 DEF ChildReport
<1>3. ASSUME NEW s \in Sessions, ChildExit(s) PROVE Goal
  BY <1>3 DEF ChildExit
<1>4. ASSUME NEW s \in Sessions, ChildRaises(s) PROVE Goal
  BY <1>4 DEF ChildRaises
<1>5. ASSUME NEW s \in Sessions, ChildKilled(s) PROVE Goal
  BY <1>5 DEF ChildKilled
<1>6. ASSUME NEW s \in Sessions, Drain(s) PROVE Goal
  BY <1>6 DEF Drain
<1>7. ASSUME NEW c \in Callers, SubmitLaunch(c) PROVE Goal
  BY <1>7 DEF SubmitLaunch, Go, Answered, Tell, EnterWait, Reachable, Line
<1>8. ASSUME NEW c \in Callers, SubmitFails(c) PROVE Goal
  BY <1>8 DEF SubmitFails, Go, Answered, Tell, EnterWait, Reachable, Line
<1>9. ASSUME NEW c \in Callers, SubmitRegister(c) PROVE Goal
  BY <1>9 DEF SubmitRegister, Go, Answered, Tell, EnterWait, Reachable, Line
<1>10. ASSUME NEW c \in Callers, SubmitIndex(c) PROVE Goal
  BY <1>10 DEF SubmitIndex, Go, Answered, Tell, EnterWait, Reachable, Line
<1>11. ASSUME NEW c \in Callers, SubmitStore(c) PROVE Goal
  BY <1>11 DEF SubmitStore, Go, Answered, Tell, EnterWait, Reachable, Line
<1>12. ASSUME NEW c \in Callers, StreamEnds(c) PROVE Goal
  BY <1>12 DEF StreamEnds, Go, Answered, Tell, EnterWait, Reachable, Line
<1>13. ASSUME NEW c \in Callers, WaitReturns(c) PROVE Goal
  BY <1>13 DEF WaitReturns, Go, Answered, Tell, EnterWait, Reachable, Line
<1>14. ASSUME NEW c \in Callers, WaitRaises(c) PROVE Goal
  BY <1>14 DEF WaitRaises, Go, Answered, Tell, EnterWait, Reachable, Line
<1>15. ASSUME NEW c \in Callers, ResultClose(c) PROVE Goal
  BY <1>15 DEF ResultClose, CloseAsk, Released, Answered, Go, Reachable, Line
<1>16. ASSUME NEW c \in Callers, CancelTerminate(c) PROVE Goal
  BY <1>16 DEF CancelTerminate, Go, Answered, Tell, EnterWait, Reachable, Line
<1>17. ASSUME NEW c \in Callers, CancelRelease(c) PROVE Goal
  BY <1>17 DEF CancelRelease, CloseAsk, Released, Answered, Go, Reachable, Line
<1>17a. ASSUME NEW c \in Callers, ShutBridge(c) PROVE Goal
  BY <1>17a DEF ShutBridge, Released, Answered, Go, Reachable, Line
<1>18. ASSUME NEW c \in Callers, FinalizeSkip(c) PROVE Goal
  BY <1>18 DEF FinalizeSkip, Go, Answered, Tell, EnterWait, Reachable, Line
<1>19. ASSUME NEW c \in Callers, FinalizeCheck(c) PROVE Goal
  BY <1>19 DEF FinalizeCheck, Go, Answered, Tell, EnterWait, Reachable, Line
<1>20. ASSUME NEW c \in Callers, FinalizeClaim(c) PROVE Goal
  BY <1>20 DEF FinalizeClaim, Go, Answered, Tell, EnterWait, Reachable, Line
<1>21. ASSUME NEW c \in Callers, FinalizeIndex(c) PROVE Goal
  BY <1>21 DEF FinalizeIndex, Go, Answered, Tell, EnterWait, Reachable, Line
<1>22. ASSUME NEW c \in Callers, FinalizeStore(c) PROVE Goal
  BY <1>22 DEF FinalizeStore, Go, Answered, Tell, EnterWait, Reachable, Line
<1>23. ASSUME NEW c \in Callers, NEW s \in Sessions, SubmitStart(c, s) PROVE Goal
  BY <1>23 DEF SubmitStart, Go, Answered, Tell, EnterWait, Reachable, Line
<1>24. ASSUME NEW c \in Callers, NEW s \in Sessions, Result(c, s) PROVE Goal
  BY <1>24 DEF Result, Go, Answered, Tell, EnterWait, Reachable, Line
<1>25. ASSUME NEW c \in Callers, NEW s \in Sessions, Stream(c, s) PROVE Goal
  BY <1>25 DEF Stream, Go, Answered, Tell, EnterWait, Reachable, Line
<1>26. ASSUME NEW c \in Callers, NEW s \in Sessions, Cancel(c, s) PROVE Goal
  BY <1>26 DEF Cancel, Go, Answered, Tell, EnterWait, Reachable, Line
<1>27. ASSUME NEW c \in Callers, NEW s \in Sessions, PersistedResult(c, s) PROVE Goal
  BY <1>27 DEF PersistedResult, Go, Answered, Tell, EnterWait, Reachable, Line
<1>28. CASE Crash
  BY <1>28 DEF Crash, Gone
<1>29. CASE Shutdown
  BY <1>29 DEF Shutdown, Gone
<1>30. CASE Restart
  BY <1>30 DEF Restart
<1>31. CASE UNCHANGED vars
  BY <1>31 DEF vars
<1>32. QED
  BY <1>1, <1>2, <1>3, <1>4, <1>5, <1>6, <1>7, <1>8, <1>9, <1>10, <1>11, <1>12, <1>13, <1>14, <1>15, <1>16, <1>17, <1>17a, <1>18, <1>19, <1>20, <1>21, <1>22, <1>23, <1>24, <1>25, <1>26, <1>27, <1>28, <1>29, <1>30, <1>31 DEF Next, ChildStep, CallerStep, Request

(* The row is there when its writer comes, so the write is not lost.        *)
LEMMA PendingStep == SettleInv /\ KnownInv /\ PendingInv /\ [Next]_vars => PendingInv'
<1> SUFFICES ASSUME SettleInv, KnownInv, PendingInv, [Next]_vars, Calm',
                    NEW s \in Sessions, NEW r \in LinesOf(s)', Terminal(r)
             PROVE  Terminal(row'[s]) \/ \E c \in Callers : pc'[c] = "record" /\ on'[c] = s
  BY DEF PendingInv
<1> USE DEF SettleInv, IInv, TypeInv, TypeOK, CallerTypes, MemoryTypes, HistoryTypes
<1>0. Calm /\ up /\ stops' = 0
  BY KnownStep DEF KnownInv, Calm
<1>1. Terminal(row[s]) => Terminal(row'[s])
  <2>1. ASSUME NEW c \in Callers, SubmitStore(c), Terminal(row[s]) PROVE row'[s] = row[s]
    BY <2>1 DEF SubmitStore, Terminal
  <2>2. ASSUME NEW c \in Callers, FinalizeStore(c), Terminal(row[s]) PROVE Terminal(row'[s])
    BY <2>2 DEF FinalizeStore, Terminal, Line
  <2>3. ~Restart
    BY <1>0 DEF Restart
  <2>4. QED
    BY <2>1, <2>2, <2>3, WritesOfHistory
<1>2. ASSUME NEW c \in Callers, pc[c] = "record", on[c] = s
      PROVE  Terminal(row'[s]) \/ (pc'[c] = "record" /\ on'[c] = s)
  <2>1. CASE FinalizeStore(c)
    <3>1. row[s].event # "absent"
      BY <1>0, <1>2 DEF KnownInv
    <3>2. row'[s] = Line(event[c], env[c])
      BY <1>2, <2>1, <3>1 DEF FinalizeStore
    <3>3. QED
      BY <3>2 DEF Terminal, Line
  <2>2. QED
    BY <1>0, <1>2, <2>1, RecordGoesOn
<1>3. CASE r \in LinesOf(s)
  <2>1. Terminal(row[s]) \/ \E c \in Callers : pc[c] = "record" /\ on[c] = s
    BY <1>0, <1>3 DEF PendingInv
  <2>2. QED
    BY <1>1, <1>2, <2>1
<1>4. ASSUME NEW c \in Callers, FinalizeIndex(c), on[c] = s
      PROVE  pc'[c] = "record" /\ on'[c] = s
  BY <1>4 DEF FinalizeIndex, Go
<1>5. CASE r \notin LinesOf(s)
  <2>1. \E c \in Callers : FinalizeIndex(c) /\ on[c] = s
    <3>1. PICK c \in Callers : SubmitIndex(c) \/ FinalizeIndex(c)
      BY <1>5, WritesOfHistory DEF LinesOf
    <3>2. CASE SubmitIndex(c)
      <4> DEFINE e == [s |-> on[c], rec |-> Line("submit", "none")]
      <4>1. e \in [s : Sessions, rec : Records] /\ index' = Append(index, e)
        BY <3>2 DEF SubmitIndex, Records, Event, Line
      <4>2. LinesOf(s)' = LinesOf(s) \cup (IF e.s = s THEN {e.rec} ELSE {})
        BY <4>1, LinesAppend
      <4>3. QED
        BY <1>5, <4>2 DEF Terminal, Line
    <3>3. CASE FinalizeIndex(c)
      <4> DEFINE e == [s |-> on[c], rec |-> Line(event[c], env[c])]
      <4>1. e \in [s : Sessions, rec : Records] /\ index' = Append(index, e)
        BY <3>3 DEF FinalizeIndex, Records, Event, Line, Fin, Envelopes, Outcomes
      <4>2. \A q \in Sessions : LinesOf(q)' = LinesOf(q) \cup (IF e.s = q THEN {e.rec} ELSE {})
        BY <4>1, LinesAppend
      <4>3. e.s = s
        BY <1>5, <4>2
      <4>4. QED
        BY <3>3, <4>3
    <3>4. QED
      BY <3>1, <3>2, <3>3
  <2>2. QED
    BY <1>4, <2>1
<1>6. QED
  BY <1>3, <1>5

(* In a service that has not been stopped, whose clients wait for submit,   *)
(* no end of a run that is in the index is missing from the store once the  *)
(* requests for the run are over.                                           *)
THEOREM TerminalsArrive == Spec => []NoLostTerminal
<1>1. Init => KnownInv /\ PendingInv
  BY DEF Init, KnownInv, PendingInv, LinesOf
<1>2. SettleInv /\ KnownInv /\ PendingInv /\ [Next]_vars => KnownInv' /\ PendingInv'
  BY KnownStep, PendingStep DEF SettleInv, IInv
<1>3. PendingInv => NoLostTerminal
  BY DEF PendingInv, Calm, NoLostTerminal, Delivered, Busy
<1>4. QED
  BY <1>1, <1>2, <1>3, Settling, PTL DEF Spec

=============================================================================
