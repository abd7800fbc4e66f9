------------------------------- MODULE MCAskUser -------------------------------
(* AskUser with one or two runs; which thread a run starts from is the      *)
(* interesting part of the configuration.                                   *)
EXTENDS AskUser, TLC

CONSTANTS r1, r2, q1, q2, t1, t2, t3

(* One run, two questions, started from a thread.                           *)
OneRun     == {r1}
OneAsk     == q1 :> r1
TwoAsks    == (q1 :> r1) @@ (q2 :> r1)
FromT1     == r1 :> t1
NoFallback == r1 :> None

(* The run is asking before its thread is known, and is moved back from the *)
(* fallback thread.                                                         *)
ToT3       == r1 :> t3

(* Two runs with a question each.                                           *)
TwoRuns    == {r1, r2}
OneAskEach == (q1 :> r1) @@ (q2 :> r2)
EachItsOwn == (r1 :> t1) @@ (r2 :> t2)
R2Falls    == (r1 :> None) @@ (r2 :> t3)
=============================================================================
