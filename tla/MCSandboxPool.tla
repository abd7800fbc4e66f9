---------------------------- MODULE MCSandboxPool ----------------------------
(* Instances of SandboxPool: as many callers as containers in the pool, or *)
(* one more.                                                               *)
EXTENDS SandboxPool, TLC

CONSTANTS k1, k2, k3, k4, k5, k6, k7

Seven == {k1, k2, k3, k4, k5, k6, k7}
=============================================================================
