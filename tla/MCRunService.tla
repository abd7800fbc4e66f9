----------------------------- MODULE MCRunService -----------------------------
(* RunService on small sets of sessions and request threads. *)
EXTENDS RunService, TLC

CallersAreAlike == Permutations(Callers)
=============================================================================
