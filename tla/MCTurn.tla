-------------------------------- MODULE MCTurn --------------------------------
(* Turn with every backend; a response costs a little of each count, with   *)
(* much or nothing read from the cache.                                     *)
EXTENDS Turn, TLC


Cold == [fresh |-> 2, cached |-> 0, out |-> 1]
Warm == [fresh |-> 1, cached |-> 2, out |-> 1]
Some == {Cold, Warm}
One  == {Warm}
=============================================================================
