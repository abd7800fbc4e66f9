----------------------------- MODULE MCRepoRun -----------------------------
(* Instances of RepoRun: every run is of the one issue.  Runs of two       *)
(* issues share nothing but the bundle, which runs of one issue share too. *)
EXTENDS RepoRun, TLC

CONSTANT i1

OneIssue == [r \in Runs |-> i1]

RunsAreAlike == Permutations(Runs)
=============================================================================
