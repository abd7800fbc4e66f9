---------------------------- MODULE MCConventions ----------------------------
(* Instances of Conventions: versions of one key or of two, issued, mined   *)
(* or approved.                                                             *)
EXTENDS Conventions, TLC

CONSTANTS p1, p2, p3, o1, o2, k1, k2, i1, i2, w1

Rec(k, v, s, i, a) ==
    [key |-> k, version |-> v, supersedes |-> s, issuer |-> i, approved |-> a, sound |-> TRUE]

\* An issuer's two versions of a key, each the other's successor, another issuer's,
\* and a convention of another key, mined and approved, and its successor.
Rivals == {Rec(k1, 1, None, i1, FALSE), Rec(k1, 2, 1, i1, FALSE), Rec(k1, 1, 2, i1, FALSE),
           Rec(k1, 3, 1, i2, FALSE), Rec(k2, 1, None, None, TRUE),
           Rec(k2, 2, 1, None, TRUE)}

\* A convention that was mined and approved, and its successor.
Successors == {Rec(k1, 1, None, None, TRUE), Rec(k1, 2, 1, None, TRUE)}

\* Passes and processes are alike.
Alike == Permutations(Passes) \cup Permutations(Processes)
=============================================================================
