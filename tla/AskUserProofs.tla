----------------------------- MODULE AskUserProofs -----------------------------
(***************************************************************************)
(* For any number of runs, questions, threads and answers: the listener's  *)
(* dict holds the questions that are served, a tool is hung up on by       *)
(* close() only, and a thread answers only the runs it was given to.       *)
(***************************************************************************)
EXTENDS AskUser, SurfacePipeline, TLAPS

(* Why a handler without a reply means that the listener was stopped.       *)
HangUpInv ==
    /\ \A q \in Questions :
          /\ handler[q] # "none" => tool[q] # "idle"
          /\ q \in victims => ~Listening(RunOf[q])
          /\ event[q] /\ reply[q] = None => ~Listening(RunOf[q])
          /\ handler[q] = "dropping" /\ tool[q] = "asking" => ~Listening(RunOf[q])
    /\ \A a \in Answerers : pc[a] = "event" => reply[aim[a]] # None

(* A thread that leads to a run, and the run's slot, are the run's own.     *)
Given(s) == {Home[s], Fallback[s]}

GivenInv ==
    /\ \A q \in Questions : handler[q] = "registering" => via[q] \in Given(RunOf[q])
    /\ \A s \in Sessions : slot[s] # None => RunOf[slot[s]] = s
    /\ \A t \in Threads : sessionAt[t] # None => t \in Given(sessionAt[t])
    /\ \A a \in Answerers :
          /\ pc[a] \in {"idle", "target", "slot"} => aim[a] = None
          /\ pc[a] = "idle" => thread[a] = None
          /\ pc[a] = "slot" => thread[a] \in Given(sess[a])

IInv == /\ TypeOK /\ HangUpInv /\ GivenInv
        /\ PendingIsServed /\ NoAnswerHangsUp /\ ThreadLeadsHome /\ AnswersStayInTheirThread

USE AskUserAssumption DEF AskUserAssumption, toolVars, handlerVars, bridgeVars, registryVars, answerVars

LEMMA TypeStep == TypeOK /\ [Next]_vars => TypeOK'
<1> SUFFICES ASSUME TypeOK, [Next]_vars PROVE TypeOK'
  OBVIOUS
<1> USE DEF TypeOK, ToolTypes, HandlerTypes, BridgeTypes, RegistryTypes, AnswerTypes, Registered, Routing
<1>1. ASSUME NEW q \in Questions, Ask(q) PROVE TypeOK'
  BY <1>1 DEF Ask
<1>2. ASSUME NEW q \in Questions, ToolTimesOut(q) PROVE TypeOK'
  BY <1>2 DEF ToolTimesOut
<1>3. ASSUME NEW q \in Questions, Accept(q) PROVE TypeOK'
  BY <1>3 DEF Accept, At
<1>3a. ASSUME NEW q \in Questions, NoLine(q) PROVE TypeOK'
  BY <1>3a DEF NoLine, At
<1>4. ASSUME NEW q \in Questions, Register(q) PROVE TypeOK'
  BY <1>4 DEF Register, At
<1>5. ASSUME NEW q \in Questions, TraceQuestion(q) PROVE TypeOK'
  BY <1>5 DEF TraceQuestion, At
<1>6. ASSUME NEW q \in Questions, RouteToTarget(q) PROVE TypeOK'
  BY <1>6 DEF RouteToTarget, At
<1>7. ASSUME NEW q \in Questions, RouteToFallback(q) PROVE TypeOK'
  BY <1>7 DEF RouteToFallback, At
<1>8. ASSUME NEW q \in Questions, RouteNowhere(q) PROVE TypeOK'
  BY <1>8 DEF RouteNowhere, At
<1>9. ASSUME NEW q \in Questions, RegisterFallback(q) PROVE TypeOK'
  BY <1>9 DEF RegisterFallback, At, RegisterTarget
<1>10. ASSUME NEW q \in Questions, PostQuestion(q) PROVE TypeOK'
  BY <1>10 DEF PostQuestion, At
<1>11. ASSUME NEW q \in Questions, PostFails(q) PROVE TypeOK'
  BY <1>11 DEF PostFails, At
<1>12. ASSUME NEW q \in Questions, SetPendingQuestion(q) PROVE TypeOK'
  BY <1>12 DEF SetPendingQuestion, At
<1>13. ASSUME NEW q \in Questions, HandlerWakes(q) PROVE TypeOK'
  BY <1>13 DEF HandlerWakes, At
<1>14. ASSUME NEW q \in Questions, SendReply(q) PROVE TypeOK'
  BY <1>14 DEF SendReply, At
<1>15. ASSUME NEW q \in Questions, DropConn(q) PROVE TypeOK'
  BY <1>15 DEF DropConn, At, HangUp
<1>15a. ASSUME NEW q \in Questions, Leave(q) PROVE TypeOK'
  BY <1>15a DEF Leave, At, HangUp
<1>16. ASSUME NEW q \in Questions, HandlerTimesOut(q) PROVE TypeOK'
  BY <1>16 DEF HandlerTimesOut, At
<1>17. ASSUME NEW q \in Questions, ReleaseEvent(q) PROVE TypeOK'
  BY <1>17 DEF ReleaseEvent
<1>18. ASSUME NEW q \in Questions, ReleaseConn(q) PROVE TypeOK'
  BY <1>18 DEF ReleaseConn, HangUp
<1>19. ASSUME NEW s \in Sessions, RegisterHome(s) PROVE TypeOK'
  BY <1>19 DEF RegisterHome, RegisterTarget
<1>20. ASSUME NEW s \in Sessions, PopBridge(s) PROVE TypeOK'
  BY <1>20 DEF PopBridge
<1>21. ASSUME NEW s \in Sessions, StopServer(s) PROVE TypeOK'
  BY <1>21 DEF StopServer
<1>22. ASSUME NEW s \in Sessions, TakePending(s) PROVE TypeOK'
  BY <1>22 DEF TakePending, Mine
<1>23. ASSUME NEW s \in Sessions, CloseEnds(s) PROVE TypeOK'
  BY <1>23 DEF CloseEnds, Mine
<1>24. ASSUME NEW a \in Answerers, FindSession(a) PROVE TypeOK'
  BY <1>24 DEF FindSession, Moves, Refuse
<1>25. ASSUME NEW a \in Answerers, TakeQuestion(a) PROVE TypeOK'
  BY <1>25 DEF TakeQuestion, Moves, Refuse
<1>26. ASSUME NEW a \in Answerers, FindBridge(a) PROVE TypeOK'
  BY <1>26 DEF FindBridge, Moves, Refuse
<1>27. ASSUME NEW a \in Answerers, Lookup(a) PROVE TypeOK'
  BY <1>27 DEF Lookup, Moves, Refuse
<1>28. ASSUME NEW a \in Answerers, SetReply(a) PROVE TypeOK'
  BY <1>28 DEF SetReply, Moves, Refuse
<1>29. ASSUME NEW a \in Answerers, SetEvent(a) PROVE TypeOK'
  BY <1>29 DEF SetEvent, Moves, Refuse
<1>30. ASSUME NEW a \in Answerers, ClearQuestion(a) PROVE TypeOK'
  BY <1>30 DEF ClearQuestion, Moves, Refuse
<1>31. ASSUME NEW a \in Answerers, NEW q \in Questions, BrowserAnswers(a, q) PROVE TypeOK'
  BY <1>31 DEF BrowserAnswers, Moves
<1>32. ASSUME NEW a \in Answerers, NEW t \in Threads, ThreadAnswers(a, t) PROVE TypeOK'
  BY <1>32 DEF ThreadAnswers, Moves
<1>33. CASE UNCHANGED vars
  BY <1>33 DEF vars
<1>34. QED
  BY <1>1, <1>2, <1>3, <1>3a, <1>4, <1>5, <1>6, <1>7, <1>8, <1>9, <1>10, <1>11, <1>12, <1>13, <1>14, <1>15, <1>15a, <1>16, <1>17, <1>18, <1>19, <1>20, <1>21, <1>22, <1>23, <1>24, <1>25, <1>26, <1>27, <1>28, <1>29, <1>30, <1>31, <1>32, <1>33 DEF Next, Handles, Routes, Releases, Closes, Answers

LEMMA PendingStep == TypeOK /\ PendingIsServed /\ [Next]_vars => PendingIsServed'
<1> SUFFICES ASSUME TypeOK /\ PendingIsServed, [Next]_vars PROVE PendingIsServed'
  OBVIOUS
<1> USE DEF TypeOK, HandlerTypes, BridgeTypes, Registered, Routing, PendingIsServed
<1>1. ASSUME NEW q \in Questions, Ask(q) PROVE PendingIsServed'
  BY <1>1 DEF Ask
<1>2. ASSUME NEW q \in Questions, ToolTimesOut(q) PROVE PendingIsServed'
  BY <1>2 DEF ToolTimesOut
<1>3. ASSUME NEW q \in Questions, Accept(q) PROVE PendingIsServed'
  BY <1>3 DEF Accept, At
<1>3a. ASSUME NEW q \in Questions, NoLine(q) PROVE PendingIsServed'
  BY <1>3a DEF NoLine, At
<1>4. ASSUME NEW q \in Questions, Register(q) PROVE PendingIsServed'
  BY <1>4 DEF Register, At
<1>5. ASSUME NEW q \in Questions, TraceQuestion(q) PROVE PendingIsServed'
  BY <1>5 DEF TraceQuestion, At
<1>6. ASSUME NEW q \in Questions, RouteToTarget(q) PROVE PendingIsServed'
  BY <1>6 DEF RouteToTarget, At
<1>7. ASSUME NEW q \in Questions, RouteToFallback(q) PROVE PendingIsServed'
  BY <1>7 DEF RouteToFallback, At
<1>8. ASSUME NEW q \in Questions, RouteNowhere(q) PROVE PendingIsServed'
  BY <1>8 DEF RouteNowhere, At
<1>9. ASSUME NEW q \in Questions, RegisterFallback(q) PROVE PendingIsServed'
  BY <1>9 DEF RegisterFallback, At, RegisterTarget
<1>10. ASSUME NEW q \in Questions, PostQuestion(q) PROVE PendingIsServed'
  BY <1>10 DEF PostQuestion, At
<1>11. ASSUME NEW q \in Questions, PostFails(q) PROVE PendingIsServed'
  BY <1>11 DEF PostFails, At
<1>12. ASSUME NEW q \in Questions, SetPendingQuestion(q) PROVE PendingIsServed'
  BY <1>12 DEF SetPendingQuestion, At
<1>13. ASSUME NEW q \in Questions, HandlerWakes(q) PROVE PendingIsServed'
  BY <1>13 DEF HandlerWakes, At
<1>14. ASSUME NEW q \in Questions, SendReply(q) PROVE PendingIsServed'
  BY <1>14 DEF SendReply, At
<1>15. ASSUME NEW q \in Questions, DropConn(q) PROVE PendingIsServed'
  BY <1>15 DEF DropConn, At, HangUp
<1>15a. ASSUME NEW q \in Questions, Leave(q) PROVE PendingIsServed'
  BY <1>15a DEF Leave, At, HangUp
<1>16. ASSUME NEW q \in Questions, HandlerTimesOut(q) PROVE PendingIsServed'
  BY <1>16 DEF HandlerTimesOut, At
<1>17. ASSUME NEW q \in Questions, ReleaseEvent(q) PROVE PendingIsServed'
  BY <1>17 DEF ReleaseEvent
<1>18. ASSUME NEW q \in Questions, ReleaseConn(q) PROVE PendingIsServed'
  BY <1>18 DEF ReleaseConn, HangUp
<1>19. ASSUME NEW s \in Sessions, RegisterHome(s) PROVE PendingIsServed'
  BY <1>19 DEF RegisterHome, RegisterTarget
<1>20. ASSUME NEW s \in Sessions, PopBridge(s) PROVE PendingIsServed'
  BY <1>20 DEF PopBridge
<1>21. ASSUME NEW s \in Sessions, StopServer(s) PROVE PendingIsServed'
  BY <1>21 DEF StopServer
<1>22. ASSUME NEW s \in Sessions, TakePending(s) PROVE PendingIsServed'
  BY <1>22 DEF TakePending, Mine
<1>23. ASSUME NEW s \in Sessions, CloseEnds(s) PROVE PendingIsServed'
  BY <1>23 DEF CloseEnds, Mine
<1>24. ASSUME NEW a \in Answerers, FindSession(a) PROVE PendingIsServed'
  BY <1>24 DEF FindSession, Moves, Refuse
<1>25. ASSUME NEW a \in Answerers, TakeQuestion(a) PROVE PendingIsServed'
  BY <1>25 DEF TakeQuestion, Moves, Refuse
<1>26. ASSUME NEW a \in Answerers, FindBridge(a) PROVE PendingIsServed'
  BY <1>26 DEF FindBridge, Moves, Refuse
<1>27. ASSUME NEW a \in Answerers, Lookup(a) PROVE PendingIsServed'
  BY <1>27 DEF Lookup, Moves, Refuse
<1>28. ASSUME NEW a \in Answerers, SetReply(a) PROVE PendingIsServed'
  BY <1>28 DEF SetReply, Moves, Refuse
<1>29. ASSUME NEW a \in Answerers, SetEvent(a) PROVE PendingIsServed'
  BY <1>29 DEF SetEvent, Moves, Refuse
<1>30. ASSUME NEW a \in Answerers, ClearQuestion(a) PROVE PendingIsServed'
  BY <1>30 DEF ClearQuestion, Moves, Refuse
<1>31. ASSUME NEW a \in Answerers, NEW q \in Questions, BrowserAnswers(a, q) PROVE PendingIsServed'
  BY <1>31 DEF BrowserAnswers, Moves
<1>32. ASSUME NEW a \in Answerers, NEW t \in Threads, ThreadAnswers(a, t) PROVE PendingIsServed'
  BY <1>32 DEF ThreadAnswers, Moves
<1>33. CASE UNCHANGED vars
  BY <1>33 DEF vars
<1>34. QED
  BY <1>1, <1>2, <1>3, <1>3a, <1>4, <1>5, <1>6, <1>7, <1>8, <1>9, <1>10, <1>11, <1>12, <1>13, <1>14, <1>15, <1>15a, <1>16, <1>17, <1>18, <1>19, <1>20, <1>21, <1>22, <1>23, <1>24, <1>25, <1>26, <1>27, <1>28, <1>29, <1>30, <1>31, <1>32, <1>33 DEF Next, Handles, Routes, Releases, Closes, Answers

LEMMA HangUpStep == TypeOK /\ HangUpInv /\ NoAnswerHangsUp /\ [Next]_vars => (HangUpInv /\ NoAnswerHangsUp)'
<1> SUFFICES ASSUME TypeOK /\ HangUpInv /\ NoAnswerHangsUp, [Next]_vars PROVE (HangUpInv /\ NoAnswerHangsUp)'
  OBVIOUS
<1> USE DEF TypeOK, ToolTypes, HandlerTypes, BridgeTypes, RegistryTypes, AnswerTypes, Registered, Routing, HangUpInv, NoAnswerHangsUp, Listening
<1>1. ASSUME NEW q \in Questions, Ask(q) PROVE (HangUpInv /\ NoAnswerHangsUp)'
  BY <1>1 DEF Ask
<1>2. ASSUME NEW q \in Questions, ToolTimesOut(q) PROVE (HangUpInv /\ NoAnswerHangsUp)'
  BY <1>2 DEF ToolTimesOut
<1>3. ASSUME NEW q \in Questions, Accept(q) PROVE (HangUpInv /\ NoAnswerHangsUp)'
  BY <1>3 DEF Accept, At
<1>3a. ASSUME NEW q \in Questions, NoLine(q) PROVE (HangUpInv /\ NoAnswerHangsUp)'
  BY <1>3a DEF NoLine, At
<1>4. ASSUME NEW q \in Questions, Register(q) PROVE (HangUpInv /\ NoAnswerHangsUp)'
  BY <1>4 DEF Register, At
<1>5. ASSUME NEW q \in Questions, TraceQuestion(q) PROVE (HangUpInv /\ NoAnswerHangsUp)'
  BY <1>5 DEF TraceQuestion, At
<1>6. ASSUME NEW q \in Questions, RouteToTarget(q) PROVE (HangUpInv /\ NoAnswerHangsUp)'
  BY <1>6 DEF RouteToTarget, At
<1>7. ASSUME NEW q \in Questions, RouteToFallback(q) PROVE (HangUpInv /\ NoAnswerHangsUp)'
  BY <1>7 DEF RouteToFallback, At
<1>8. ASSUME NEW q \in Questions, RouteNowhere(q) PROVE (HangUpInv /\ NoAnswerHangsUp)'
  BY <1>8 DEF RouteNowhere, At
<1>9. ASSUME NEW q \in Questions, RegisterFallback(q) PROVE (HangUpInv /\ NoAnswerHangsUp)'
  BY <1>9 DEF RegisterFallback, At, RegisterTarget
<1>10. ASSUME NEW q \in Questions, PostQuestion(q) PROVE (HangUpInv /\ NoAnswerHangsUp)'
  BY <1>10 DEF PostQuestion, At
<1>11. ASSUME NEW q \in Questions, PostFails(q) PROVE (HangUpInv /\ NoAnswerHangsUp)'
  BY <1>11 DEF PostFails, At
<1>12. ASSUME NEW q \in Questions, SetPendingQuestion(q) PROVE (HangUpInv /\ NoAnswerHangsUp)'
  BY <1>12 DEF SetPendingQuestion, At
<1>13. ASSUME NEW q \in Questions, HandlerWakes(q) PROVE (HangUpInv /\ NoAnswerHangsUp)'
  BY <1>13 DEF HandlerWakes, At
<1>14. ASSUME NEW q \in Questions, SendReply(q) PROVE (HangUpInv /\ NoAnswerHangsUp)'
  BY <1>14 DEF SendReply, At
<1>15. ASSUME NEW q \in Questions, DropConn(q) PROVE (HangUpInv /\ NoAnswerHangsUp)'
  BY <1>15 DEF DropConn, At, HangUp
<1>15a. ASSUME NEW q \in Questions, Leave(q) PROVE (HangUpInv /\ NoAnswerHangsUp)'
  BY <1>15a DEF Leave, At, HangUp
<1>16. ASSUME NEW q \in Questions, HandlerTimesOut(q) PROVE (HangUpInv /\ NoAnswerHangsUp)'
  BY <1>16 DEF HandlerTimesOut, At
<1>17. ASSUME NEW q \in Questions, ReleaseEvent(q) PROVE (HangUpInv /\ NoAnswerHangsUp)'
  BY <1>17 DEF ReleaseEvent
<1>18. ASSUME NEW q \in Questions, ReleaseConn(q) PROVE (HangUpInv /\ NoAnswerHangsUp)'
  BY <1>18 DEF ReleaseConn, HangUp
<1>19. ASSUME NEW s \in Sessions, RegisterHome(s) PROVE (HangUpInv /\ NoAnswerHangsUp)'
  BY <1>19 DEF RegisterHome, RegisterTarget
<1>20. ASSUME NEW s \in Sessions, PopBridge(s) PROVE (HangUpInv /\ NoAnswerHangsUp)'
  BY <1>20 DEF PopBridge
<1>21. ASSUME NEW s \in Sessions, StopServer(s) PROVE (HangUpInv /\ NoAnswerHangsUp)'
  BY <1>21 DEF StopServer
<1>22. ASSUME NEW s \in Sessions, TakePending(s) PROVE (HangUpInv /\ NoAnswerHangsUp)'
  BY <1>22 DEF TakePending, Mine
<1>23. ASSUME NEW s \in Sessions, CloseEnds(s) PROVE (HangUpInv /\ NoAnswerHangsUp)'
  BY <1>23 DEF CloseEnds, Mine
<1>24. ASSUME NEW a \in Answerers, FindSession(a) PROVE (HangUpInv /\ NoAnswerHangsUp)'
  BY <1>24 DEF FindSession, Moves, Refuse
<1>25. ASSUME NEW a \in Answerers, TakeQuestion(a) PROVE (HangUpInv /\ NoAnswerHangsUp)'
  BY <1>25 DEF TakeQuestion, Moves, Refuse
<1>26. ASSUME NEW a \in Answerers, FindBridge(a) PROVE (HangUpInv /\ NoAnswerHangsUp)'
  BY <1>26 DEF FindBridge, Moves, Refuse
<1>27. ASSUME NEW a \in Answerers, Lookup(a) PROVE (HangUpInv /\ NoAnswerHangsUp)'
  BY <1>27 DEF Lookup, Moves, Refuse
<1>28. ASSUME NEW a \in Answerers, SetReply(a) PROVE (HangUpInv /\ NoAnswerHangsUp)'
  BY <1>28 DEF SetReply, Moves, Refuse
<1>29. ASSUME NEW a \in Answerers, SetEvent(a) PROVE (HangUpInv /\ NoAnswerHangsUp)'
  BY <1>29 DEF SetEvent, Moves, Refuse
<1>30. ASSUME NEW a \in Answerers, ClearQuestion(a) PROVE (HangUpInv /\ NoAnswerHangsUp)'
  BY <1>30 DEF ClearQuestion, Moves, Refuse
<1>31. ASSUME NEW a \in Answerers, NEW q \in Questions, BrowserAnswers(a, q) PROVE (HangUpInv /\ NoAnswerHangsUp)'
  BY <1>31 DEF BrowserAnswers, Moves
<1>32. ASSUME NEW a \in Answerers, NEW t \in Threads, ThreadAnswers(a, t) PROVE (HangUpInv /\ NoAnswerHangsUp)'
  BY <1>32 DEF ThreadAnswers, Moves
<1>33. CASE UNCHANGED vars
  BY <1>33 DEF vars
<1>34. QED
  BY <1>1, <1>2, <1>3, <1>3a, <1>4, <1>5, <1>6, <1>7, <1>8, <1>9, <1>10, <1>11, <1>12, <1>13, <1>14, <1>15, <1>15a, <1>16, <1>17, <1>18, <1>19, <1>20, <1>21, <1>22, <1>23, <1>24, <1>25, <1>26, <1>27, <1>28, <1>29, <1>30, <1>31, <1>32, <1>33 DEF Next, Handles, Routes, Releases, Closes, Answers

LEMMA RegistryStep == TypeOK /\ ThreadLeadsHome /\ [Next]_vars => ThreadLeadsHome'
<1> SUFFICES ASSUME TypeOK /\ ThreadLeadsHome, [Next]_vars PROVE ThreadLeadsHome'
  OBVIOUS
<1> USE DEF TypeOK, RegistryTypes, HandlerTypes, ThreadLeadsHome
<1>1. ASSUME NEW q \in Questions, Ask(q) PROVE ThreadLeadsHome'
  BY <1>1 DEF Ask
<1>2. ASSUME NEW q \in Questions, ToolTimesOut(q) PROVE ThreadLeadsHome'
  BY <1>2 DEF ToolTimesOut
<1>3. ASSUME NEW q \in Questions, Accept(q) PROVE ThreadLeadsHome'
  BY <1>3 DEF Accept, At
<1>3a. ASSUME NEW q \in Questions, NoLine(q) PROVE ThreadLeadsHome'
  BY <1>3a DEF NoLine, At
<1>4. ASSUME NEW q \in Questions, Register(q) PROVE ThreadLeadsHome'
  BY <1>4 DEF Register, At
<1>5. ASSUME NEW q \in Questions, TraceQuestion(q) PROVE ThreadLeadsHome'
  BY <1>5 DEF TraceQuestion, At
<1>6. ASSUME NEW q \in Questions, RouteToTarget(q) PROVE ThreadLeadsHome'
  BY <1>6 DEF RouteToTarget, At
<1>7. ASSUME NEW q \in Questions, RouteToFallback(q) PROVE ThreadLeadsHome'
  BY <1>7 DEF RouteToFallback, At
<1>8. ASSUME NEW q \in Questions, RouteNowhere(q) PROVE ThreadLeadsHome'
  BY <1>8 DEF RouteNowhere, At
<1>9. ASSUME NEW q \in Questions, RegisterFallback(q) PROVE ThreadLeadsHome'
  BY <1>9 DEF RegisterFallback, At, RegisterTarget
<1>10. ASSUME NEW q \in Questions, PostQuestion(q) PROVE ThreadLeadsHome'
  BY <1>10 DEF PostQuestion, At
<1>11. ASSUME NEW q \in Questions, PostFails(q) PROVE ThreadLeadsHome'
  BY <1>11 DEF PostFails, At
<1>12. ASSUME NEW q \in Questions, SetPendingQuestion(q) PROVE ThreadLeadsHome'
  BY <1>12 DEF SetPendingQuestion, At
<1>13. ASSUME NEW q \in Questions, HandlerWakes(q) PROVE ThreadLeadsHome'
  BY <1>13 DEF HandlerWakes, At
<1>14. ASSUME NEW q \in Questions, SendReply(q) PROVE ThreadLeadsHome'
  BY <1>14 DEF SendReply, At
<1>15. ASSUME NEW q \in Questions, DropConn(q) PROVE ThreadLeadsHome'
  BY <1>15 DEF DropConn, At, HangUp
<1>15a. ASSUME NEW q \in Questions, Leave(q) PROVE ThreadLeadsHome'
  BY <1>15a DEF Leave, At, HangUp
<1>16. ASSUME NEW q \in Questions, HandlerTimesOut(q) PROVE ThreadLeadsHome'
  BY <1>16 DEF HandlerTimesOut, At
<1>17. ASSUME NEW q \in Questions, ReleaseEvent(q) PROVE ThreadLeadsHome'
  BY <1>17 DEF ReleaseEvent
<1>18. ASSUME NEW q \in Questions, ReleaseConn(q) PROVE ThreadLeadsHome'
  BY <1>18 DEF ReleaseConn, HangUp
<1>19. ASSUME NEW s \in Sessions, RegisterHome(s) PROVE ThreadLeadsHome'
  BY <1>19 DEF RegisterHome, RegisterTarget
<1>20. ASSUME NEW s \in Sessions, PopBridge(s) PROVE ThreadLeadsHome'
  BY <1>20 DEF PopBridge
<1>21. ASSUME NEW s \in Sessions, StopServer(s) PROVE ThreadLeadsHome'
  BY <1>21 DEF StopServer
<1>22. ASSUME NEW s \in Sessions, TakePending(s) PROVE ThreadLeadsHome'
  BY <1>22 DEF TakePending, Mine
<1>23. ASSUME NEW s \in Sessions, CloseEnds(s) PROVE ThreadLeadsHome'
  BY <1>23 DEF CloseEnds, Mine
<1>24. ASSUME NEW a \in Answerers, FindSession(a) PROVE ThreadLeadsHome'
  BY <1>24 DEF FindSession, Moves, Refuse
<1>25. ASSUME NEW a \in Answerers, TakeQuestion(a) PROVE ThreadLeadsHome'
  BY <1>25 DEF TakeQuestion, Moves, Refuse
<1>26. ASSUME NEW a \in Answerers, FindBridge(a) PROVE ThreadLeadsHome'
  BY <1>26 DEF FindBridge, Moves, Refuse
<1>27. ASSUME NEW a \in Answerers, Lookup(a) PROVE ThreadLeadsHome'
  BY <1>27 DEF Lookup, Moves, Refuse
<1>28. ASSUME NEW a \in Answerers, SetReply(a) PROVE ThreadLeadsHome'
  BY <1>28 DEF SetReply, Moves, Refuse
<1>29. ASSUME NEW a \in Answerers, SetEvent(a) PROVE ThreadLeadsHome'
  BY <1>29 DEF SetEvent, Moves, Refuse
<1>30. ASSUME NEW a \in Answerers, ClearQuestion(a) PROVE ThreadLeadsHome'
  BY <1>30 DEF ClearQuestion, Moves, Refuse
<1>31. ASSUME NEW a \in Answerers, NEW q \in Questions, BrowserAnswers(a, q) PROVE ThreadLeadsHome'
  BY <1>31 DEF BrowserAnswers, Moves
<1>32. ASSUME NEW a \in Answerers, NEW t \in Threads, ThreadAnswers(a, t) PROVE ThreadLeadsHome'
  BY <1>32 DEF ThreadAnswers, Moves
<1>33. CASE UNCHANGED vars
  BY <1>33 DEF vars
<1>34. QED
  BY <1>1, <1>2, <1>3, <1>3a, <1>4, <1>5, <1>6, <1>7, <1>8, <1>9, <1>10, <1>11, <1>12, <1>13, <1>14, <1>15, <1>15a, <1>16, <1>17, <1>18, <1>19, <1>20, <1>21, <1>22, <1>23, <1>24, <1>25, <1>26, <1>27, <1>28, <1>29, <1>30, <1>31, <1>32, <1>33 DEF Next, Handles, Routes, Releases, Closes, Answers

LEMMA GivenStep == TypeOK /\ GivenInv /\ AnswersStayInTheirThread /\ [Next]_vars => (GivenInv /\ AnswersStayInTheirThread)'
<1> SUFFICES ASSUME TypeOK /\ GivenInv /\ AnswersStayInTheirThread, [Next]_vars PROVE (GivenInv /\ AnswersStayInTheirThread)'
  OBVIOUS
<1> USE DEF TypeOK, ToolTypes, HandlerTypes, BridgeTypes, RegistryTypes, AnswerTypes, Registered, Routing, GivenInv, Given, AnswersStayInTheirThread
<1>1. ASSUME NEW q \in Questions, Ask(q) PROVE (GivenInv /\ AnswersStayInTheirThread)'
  BY <1>1 DEF Ask
<1>2. ASSUME NEW q \in Questions, ToolTimesOut(q) PROVE (GivenInv /\ AnswersStayInTheirThread)'
  BY <1>2 DEF ToolTimesOut
<1>3. ASSUME NEW q \in Questions, Accept(q) PROVE (GivenInv /\ AnswersStayInTheirThread)'
  BY <1>3 DEF Accept, At
<1>3a. ASSUME NEW q \in Questions, NoLine(q) PROVE (GivenInv /\ AnswersStayInTheirThread)'
  BY <1>3a DEF NoLine, At
<1>4. ASSUME NEW q \in Questions, Register(q) PROVE (GivenInv /\ AnswersStayInTheirThread)'
  BY <1>4 DEF Register, At
<1>5. ASSUME NEW q \in Questions, TraceQuestion(q) PROVE (GivenInv /\ AnswersStayInTheirThread)'
  BY <1>5 DEF TraceQuestion, At
<1>6. ASSUME NEW q \in Questions, RouteToTarget(q) PROVE (GivenInv /\ AnswersStayInTheirThread)'
  BY <1>6 DEF RouteToTarget, At
<1>7. ASSUME NEW q \in Questions, RouteToFallback(q) PROVE (GivenInv /\ AnswersStayInTheirThread)'
  BY <1>7 DEF RouteToFallback, At
<1>8. ASSUME NEW q \in Questions, RouteNowhere(q) PROVE (GivenInv /\ AnswersStayInTheirThread)'
  BY <1>8 DEF RouteNowhere, At
<1>9. ASSUME NEW q \in Questions, RegisterFallback(q) PROVE (GivenInv /\ AnswersStayInTheirThread)'
  BY <1>9 DEF RegisterFallback, At, RegisterTarget
<1>10. ASSUME NEW q \in Questions, PostQuestion(q) PROVE (GivenInv /\ AnswersStayInTheirThread)'
  BY <1>10 DEF PostQuestion, At
<1>11. ASSUME NEW q \in Questions, PostFails(q) PROVE (GivenInv /\ AnswersStayInTheirThread)'
  BY <1>11 DEF PostFails, At
<1>12. ASSUME NEW q \in Questions, SetPendingQuestion(q) PROVE (GivenInv /\ AnswersStayInTheirThread)'
  BY <1>12 DEF SetPendingQuestion, At
<1>13. ASSUME NEW q \in Questions, HandlerWakes(q) PROVE (GivenInv /\ AnswersStayInTheirThread)'
  BY <1>13 DEF HandlerWakes, At
<1>14. ASSUME NEW q \in Questions, SendReply(q) PROVE (GivenInv /\ AnswersStayInTheirThread)'
  BY <1>14 DEF SendReply, At
<1>15. ASSUME NEW q \in Questions, DropConn(q) PROVE (GivenInv /\ AnswersStayInTheirThread)'
  BY <1>15 DEF DropConn, At, HangUp
<1>15a. ASSUME NEW q \in Questions, Leave(q) PROVE (GivenInv /\ AnswersStayInTheirThread)'
  BY <1>15a DEF Leave, At, HangUp
<1>16. ASSUME NEW q \in Questions, HandlerTimesOut(q) PROVE (GivenInv /\ AnswersStayInTheirThread)'
  BY <1>16 DEF HandlerTimesOut, At
<1>17. ASSUME NEW q \in Questions, ReleaseEvent(q) PROVE (GivenInv /\ AnswersStayInTheirThread)'
  BY <1>17 DEF ReleaseEvent
<1>18. ASSUME NEW q \in Questions, ReleaseConn(q) PROVE (GivenInv /\ AnswersStayInTheirThread)'
  BY <1>18 DEF ReleaseConn, HangUp
<1>19. ASSUME NEW s \in Sessions, RegisterHome(s) PROVE (GivenInv /\ AnswersStayInTheirThread)'
  BY <1>19 DEF RegisterHome, RegisterTarget
<1>20. ASSUME NEW s \in Sessions, PopBridge(s) PROVE (GivenInv /\ AnswersStayInTheirThread)'
  BY <1>20 DEF PopBridge
<1>21. ASSUME NEW s \in Sessions, StopServer(s) PROVE (GivenInv /\ AnswersStayInTheirThread)'
  BY <1>21 DEF StopServer
<1>22. ASSUME NEW s \in Sessions, TakePending(s) PROVE (GivenInv /\ AnswersStayInTheirThread)'
  BY <1>22 DEF TakePending, Mine
<1>23. ASSUME NEW s \in Sessions, CloseEnds(s) PROVE (GivenInv /\ AnswersStayInTheirThread)'
  BY <1>23 DEF CloseEnds, Mine
<1>24. ASSUME NEW a \in Answerers, FindSession(a) PROVE (GivenInv /\ AnswersStayInTheirThread)'
  BY <1>24 DEF FindSession, Moves, Refuse
<1>25. ASSUME NEW a \in Answerers, TakeQuestion(a) PROVE (GivenInv /\ AnswersStayInTheirThread)'
  BY <1>25 DEF TakeQuestion, Moves, Refuse
<1>26. ASSUME NEW a \in Answerers, FindBridge(a) PROVE (GivenInv /\ AnswersStayInTheirThread)'
  BY <1>26 DEF FindBridge, Moves, Refuse
<1>27. ASSUME NEW a \in Answerers, Lookup(a) PROVE (GivenInv /\ AnswersStayInTheirThread)'
  BY <1>27 DEF Lookup, Moves, Refuse
<1>28. ASSUME NEW a \in Answerers, SetReply(a) PROVE (GivenInv /\ AnswersStayInTheirThread)'
  BY <1>28 DEF SetReply, Moves, Refuse
<1>29. ASSUME NEW a \in Answerers, SetEvent(a) PROVE (GivenInv /\ AnswersStayInTheirThread)'
  BY <1>29 DEF SetEvent, Moves, Refuse
<1>30. ASSUME NEW a \in Answerers, ClearQuestion(a) PROVE (GivenInv /\ AnswersStayInTheirThread)'
  BY <1>30 DEF ClearQuestion, Moves, Refuse
<1>31. ASSUME NEW a \in Answerers, NEW q \in Questions, BrowserAnswers(a, q) PROVE (GivenInv /\ AnswersStayInTheirThread)'
  BY <1>31 DEF BrowserAnswers, Moves
<1>32. ASSUME NEW a \in Answerers, NEW t \in Threads, ThreadAnswers(a, t) PROVE (GivenInv /\ AnswersStayInTheirThread)'
  BY <1>32 DEF ThreadAnswers, Moves
<1>33. CASE UNCHANGED vars
  BY <1>33 DEF vars
<1>34. QED
  BY <1>1, <1>2, <1>3, <1>3a, <1>4, <1>5, <1>6, <1>7, <1>8, <1>9, <1>10, <1>11, <1>12, <1>13, <1>14, <1>15, <1>15a, <1>16, <1>17, <1>18, <1>19, <1>20, <1>21, <1>22, <1>23, <1>24, <1>25, <1>26, <1>27, <1>28, <1>29, <1>30, <1>31, <1>32, <1>33 DEF Next, Handles, Routes, Releases, Closes, Answers
-----------------------------------------------------------------------------
LEMMA InductiveInit == Init => IInv
<1> SUFFICES ASSUME Init PROVE IInv
  OBVIOUS
<1>1. TypeOK
  BY DEF Init, TypeOK, ToolTypes, HandlerTypes, BridgeTypes, RegistryTypes, AnswerTypes
<1>2. HangUpInv /\ GivenInv
  BY DEF Init, HangUpInv, GivenInv
<1>3. PendingIsServed /\ NoAnswerHangsUp /\ ThreadLeadsHome /\ AnswersStayInTheirThread
  BY DEF Init, PendingIsServed, NoAnswerHangsUp, ThreadLeadsHome, AnswersStayInTheirThread, Registered, Routing
<1>4. QED
  BY <1>1, <1>2, <1>3 DEF IInv

LEMMA InductiveStep == IInv /\ [Next]_vars => IInv'
  BY TypeStep, PendingStep, HangUpStep, RegistryStep, GivenStep DEF IInv

LEMMA Inductive == Spec => []IInv
  BY InductiveInit, InductiveStep, PTL DEF Spec

(* The variables of AskUser keep their types.                               *)
THEOREM TypeCorrect == Spec => []TypeOK
<1>1. IInv => TypeOK
  BY DEF IInv
<1>2. QED
  BY <1>1, Inductive, PTL

(* The listener's dict holds exactly the questions that are being served,   *)
(* until close() empties it (PendingIsServed).                              *)
THEOREM PendingServed == Spec => []PendingIsServed
<1>1. IInv => PendingIsServed
  BY DEF IInv
<1>2. QED
  BY <1>1, Inductive, PTL

(* A tool is hung up on by close() or by a handler that has waited its time, *)
(* never by an answer (NoAnswerHangsUp), however many answers race for it   *)
(* and whatever timeouts fire.                                              *)
THEOREM NeverHungUpByAnswer == Spec => []NoAnswerHangsUp
<1>1. IInv => NoAnswerHangsUp
  BY DEF IInv
<1>2. QED
  BY <1>1, Inductive, PTL

(* Both: questions that are shown are served, and cut off by no answer.     *)
THEOREM BridgeOrderly == Spec => []BridgeIsOrderly
<1>1. PendingIsServed /\ NoAnswerHangsUp => BridgeIsOrderly
  BY DEF BridgeIsOrderly
<1>2. QED
  BY <1>1, PendingServed, NeverHungUpByAnswer, PTL

(* The two maps of the registry agree in the direction replies travel       *)
(* (ThreadLeadsHome), so what is written in a thread only answers a run     *)
(* that was given the thread (AnswersStayInTheirThread).                    *)
THEOREM AnswersStay == Spec => []ThreadsStayApart
<1>1. IInv => ThreadsStayApart
  BY DEF IInv, ThreadsStayApart
<1>2. QED
  BY <1>1, Inductive, PTL

(***************************************************************************)
(* The pipeline: for any window size, any number of events, deliveries and *)
(* crashes, an event starts a second run only after its id has left the    *)
(* window.                                                                 *)
(***************************************************************************)

Active(d) == stage[d] \in {"fresh", "allowed", "acked"} \cup Launched

(* A delivery that got through has its id in the window or out of it again; *)
(* of one event, two get through only with the id out of it.                *)
WindowInv ==
    /\ \A d \in Deliveries : Active(d) => Remembers(ev[d]) \/ ev[d] \in forgotten
    /\ \A c, d \in Deliveries :
          c # d /\ Active(c) /\ Active(d) /\ ev[c] = ev[d] => ev[c] \in forgotten

PipelineInv == PipelineTypeOK /\ WindowInv

(* Appending an id to a full window loses the oldest one and no other.      *)
LEMMA WindowMoves ==
    ASSUME PipelineTypeOK, NEW e \in Events, NEW id \in Events, Remembers(id),
           Len(seen) >= Window, seen' = Append(Tail(seen), e)
    PROVE  Remembers(id)' \/ id = Head(seen)
<1> USE SurfaceAssumption DEF SurfaceAssumption, PipelineTypeOK
<1>1. PICK i \in 1..Len(seen) : seen[i] = id
  BY DEF Remembers
<1>2. seen # <<>> /\ Len(Tail(seen)) = Len(seen) - 1 /\ Tail(seen) \in Seq(Events)
  OBVIOUS
<1>3. CASE i = 1
  BY <1>1, <1>2, <1>3
<1>4. CASE i # 1
  <2>1. i - 1 \in 1..Len(Tail(seen)) /\ Tail(seen)[i - 1] = id
    BY <1>1, <1>2, <1>4
  <2>2. i - 1 \in 1..Len(seen') /\ seen'[i - 1] = id
    BY <1>2, <2>1
  <2>3. QED
    BY <2>2 DEF Remembers
<1>5. QED
  BY <1>3, <1>4

LEMMA WindowTypes ==
    ASSUME PipelineTypeOK, NEW d \in Deliveries, NEW e \in Events, Fresh(d, e)
    PROVE  /\ seen' \in Seq(Events) /\ Len(seen') <= Window
           /\ Len(seen') >= 1 /\ seen'[Len(seen')] = e
           /\ forgotten \subseteq forgotten' /\ forgotten' \in SUBSET Events
<1> USE SurfaceAssumption DEF SurfaceAssumption, PipelineTypeOK
<1>1. CASE Len(seen) < Window
  <2>1. seen' = Append(seen, e) /\ forgotten' = forgotten
    BY <1>1 DEF Fresh
  <2>2. Len(seen') = Len(seen) + 1 /\ seen'[Len(seen) + 1] = e /\ seen' \in Seq(Events)
    BY <2>1
  <2>3. QED
    BY <1>1, <2>1, <2>2
<1>2. CASE Len(seen) >= Window
  <2>1. seen' = Append(Tail(seen), e) /\ forgotten' = forgotten \cup {Head(seen)}
    BY <1>2 DEF Fresh
  <2>2. /\ seen # <<>> /\ Head(seen) \in Events
        /\ Tail(seen) \in Seq(Events) /\ Len(Tail(seen)) = Len(seen) - 1
    BY <1>2
  <2>3. Len(seen') = Len(seen) /\ seen'[Len(seen)] = e /\ seen' \in Seq(Events)
    BY <2>1, <2>2
  <2>4. QED
    BY <1>2, <2>1, <2>2, <2>3
<1>3. QED
  BY <1>1, <1>2

LEMMA PipelineTypeStep == PipelineTypeOK /\ [PipelineNext]_pipelineVars => PipelineTypeOK'
<1> SUFFICES ASSUME PipelineTypeOK, [PipelineNext]_pipelineVars PROVE PipelineTypeOK'
  OBVIOUS
<1> USE SurfaceAssumption DEF SurfaceAssumption, PipelineTypeOK, Launched
<1>1. ASSUME NEW d \in Deliveries, NEW e \in Events, Duplicate(d, e) PROVE PipelineTypeOK'
  BY <1>1 DEF Duplicate, Goes
<1>2. ASSUME NEW d \in Deliveries, NEW e \in Events, Fresh(d, e) PROVE PipelineTypeOK'
  <2>1. seen' \in Seq(Events) /\ Len(seen') <= Window /\ forgotten' \in SUBSET Events
    BY <1>2, WindowTypes
  <2>2. QED
    BY <1>2, <2>1 DEF Fresh, Goes
<1>3. ASSUME NEW d \in Deliveries, Step(d) PROVE PipelineTypeOK'
  <2>1. UNCHANGED <<ev, seen, limit, crashes, forgotten>>
    BY <1>3 DEF Step, ShowCatalog, QuotaAllows, QuotaRefuses, Ack, AckRaises, Submit,
        RecordSubmit, ResultReturns, DeliverResult, Raises, ErrorRaises, Ends, Running
  <2>2. row' \in [Deliveries -> {"none", "running", "finished"}]
    BY <1>3 DEF Step, ShowCatalog, QuotaAllows, QuotaRefuses, Ack, AckRaises, Submit,
        RecordSubmit, ResultReturns, DeliverResult, Raises, ErrorRaises, Ends, Running
  <2>3. said' \in [Deliveries -> SUBSET {"catalog", "refused", "result", "error"}]
    BY <1>3 DEF Step, ShowCatalog, QuotaAllows, QuotaRefuses, Ack, AckRaises, Submit,
        RecordSubmit, ResultReturns, DeliverResult, Raises, ErrorRaises, Ends, Running, Say
  <2>4. /\ stage' \in [Deliveries -> {"idle", "fresh", "allowed", "acked", "done", "gone"} \cup Launched]
        /\ \A c \in Deliveries : stage'[c] # "idle" => stage[c] # "idle"
    BY <1>3 DEF Step, ShowCatalog, QuotaAllows, QuotaRefuses, Ack, AckRaises, Submit,
        RecordSubmit, ResultReturns, DeliverResult, Raises, ErrorRaises, Ends, Running, Goes
  <2>5. raised' \in [Deliveries -> {"none", "ack", "report"}]
    BY <1>3 DEF Step, ShowCatalog, QuotaAllows, QuotaRefuses, Ack, AckRaises, Submit,
        RecordSubmit, ResultReturns, DeliverResult, Raises, ErrorRaises, Ends, Running
  <2>6. QED
    BY <2>1, <2>2, <2>3, <2>4, <2>5
<1>4. CASE Crash
  <2>1. /\ stage' \in [Deliveries -> {"idle", "fresh", "allowed", "acked", "done", "gone"} \cup Launched]
        /\ \A c \in Deliveries : stage'[c] # "idle" => stage[c] # "idle"
    BY <1>4 DEF Crash
  <2>2. /\ seen' = <<>> /\ forgotten' \in SUBSET Events /\ crashes' \in 0..MaxCrashes
        /\ limit' \in Limits
    BY <1>4 DEF Crash
  <2>3. QED
    BY <1>4, <2>1, <2>2 DEF Crash
<1>5. CASE UNCHANGED pipelineVars
  BY <1>5 DEF pipelineVars
<1>6. QED
  BY <1>1, <1>2, <1>3, <1>4, <1>5 DEF PipelineNext

LEMMA WindowStep == PipelineTypeOK /\ WindowInv /\ [PipelineNext]_pipelineVars => WindowInv'
<1> SUFFICES ASSUME PipelineTypeOK, WindowInv, [PipelineNext]_pipelineVars PROVE WindowInv'
  OBVIOUS
<1> USE SurfaceAssumption DEF SurfaceAssumption, WindowInv, Active, Launched
<1>0. \A d \in Deliveries : Active(d) => ev[d] \in Events
  BY DEF PipelineTypeOK
<1>1. ASSUME NEW d \in Deliveries, NEW e \in Events, Duplicate(d, e) PROVE WindowInv'
  BY <1>1 DEF Duplicate, Goes, Remembers, PipelineTypeOK
<1>2. ASSUME NEW d \in Deliveries, NEW e \in Events, Fresh(d, e) PROVE WindowInv'
  <2>1. /\ ~Remembers(e) /\ ~Active(d) /\ Active(d)' /\ ev'[d] = e
        /\ \A c \in Deliveries \ {d} : (Active(c)' <=> Active(c)) /\ ev'[c] = ev[c]
    BY <1>2 DEF Fresh, Goes, PipelineTypeOK
  <2>2. forgotten \subseteq forgotten' /\ Remembers(e)'
    <3>1. seen' \in Seq(Events) /\ Len(seen') >= 1 /\ seen'[Len(seen')] = e
      BY <1>2, WindowTypes
    <3>2. QED
      BY <1>2, <3>1, WindowTypes DEF Remembers
  <2>3. ASSUME NEW id \in Events, Remembers(id) PROVE Remembers(id)' \/ id \in forgotten'
    <3>1. CASE Len(seen) < Window
      <4>1. seen' = Append(seen, e) /\ seen \in Seq(Events)
        BY <1>2, <3>1 DEF Fresh, PipelineTypeOK
      <4>2. PICK i \in 1..Len(seen) : seen[i] = id
        BY <2>3 DEF Remembers
      <4>3. i \in 1..Len(seen') /\ seen'[i] = id
        BY <4>1, <4>2
      <4>4. QED
        BY <4>3 DEF Remembers
    <3>2. CASE Len(seen) >= Window
      BY <1>2, <2>3, <3>2, WindowMoves DEF Fresh, PipelineTypeOK
    <3>3. QED
      BY <3>1, <3>2 DEF PipelineTypeOK
  <2>4. QED
    BY <1>0, <2>1, <2>2, <2>3
<1>3. ASSUME NEW d \in Deliveries, Step(d) PROVE WindowInv'
  <2>1. UNCHANGED <<ev, seen, forgotten>>
    BY <1>3 DEF Step, ShowCatalog, QuotaAllows, QuotaRefuses, Ack, AckRaises, Submit,
        RecordSubmit, ResultReturns, DeliverResult, Raises, ErrorRaises, Ends, Running
  <2>2. \A c \in Deliveries : Active(c)' => Active(c)
    BY <1>3 DEF Step, ShowCatalog, QuotaAllows, QuotaRefuses, Ack, AckRaises, Submit,
        RecordSubmit, ResultReturns, DeliverResult, Raises, ErrorRaises, Ends, Running, Goes, PipelineTypeOK
  <2>3. QED
    BY <2>1, <2>2 DEF Remembers
<1>4. CASE Crash
  <2>1. \A c \in Deliveries : Active(c)' => Active(c)
    BY <1>4 DEF Crash
  <2>2. forgotten \subseteq forgotten' /\ ev' = ev /\ \A id \in Events : Remembers(id) => id \in forgotten'
    BY <1>4 DEF Crash, Remembers
  <2>3. QED
    BY <1>0, <2>1, <2>2
<1>5. CASE UNCHANGED pipelineVars
  BY <1>5 DEF pipelineVars, Remembers
<1>6. QED
  BY <1>1, <1>2, <1>3, <1>4, <1>5 DEF PipelineNext

LEMMA PipelineInductive == PipelineSpec => []PipelineInv
<1>1. PipelineInit => PipelineInv
  BY SurfaceAssumption DEF SurfaceAssumption, PipelineInit, PipelineInv, PipelineTypeOK, WindowInv, Active, Launched
<1>2. PipelineInv /\ [PipelineNext]_pipelineVars => PipelineInv'
  BY PipelineTypeStep, WindowStep DEF PipelineInv
<1>3. QED
  BY <1>1, <1>2, PTL DEF PipelineSpec

(* The variables keep their types; in particular the window never holds     *)
(* more ids than its size.                                                  *)
THEOREM PipelineTypes == PipelineSpec => []PipelineTypeOK
<1>1. PipelineInv => PipelineTypeOK
  BY DEF PipelineInv
<1>2. QED
  BY <1>1, PipelineInductive, PTL

(* No replay inside the window (NoReplayInWindow): duplicates that arrive   *)
(* together, after a refusal or after a crash start no second run while the *)
(* id is remembered.                                                        *)
THEOREM NoReplay == PipelineSpec => []NoReplayInWindow
<1>1. PipelineInv => NoReplayInWindow
  BY DEF PipelineInv, WindowInv, Active, NoReplayInWindow
<1>2. QED
  BY <1>1, PipelineInductive, PTL
=============================================================================
