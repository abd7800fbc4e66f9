--------------------------- MODULE MCSurfacePipeline ---------------------------
(* SurfacePipeline with three events, one of which names no catalog entry.  *)
EXTENDS SurfacePipeline, TLC

CONSTANTS e1, e2, e3, w1, w2

Known   == {e1, e2}
Tenants == (e1 :> w1) @@ (e2 :> w1) @@ (e3 :> w2)

DeliveriesAreAlike == Permutations(Deliveries)
=============================================================================
