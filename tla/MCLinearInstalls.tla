--------------------------- MODULE MCLinearInstalls ---------------------------
(* Instances of LinearInstalls: two servers and a callback.  A unit of time *)
(* is 150 s, so that the margin of 300 s is two units.                      *)
EXTENDS LinearInstalls, TLC

ClientsAreAlike == Permutations(Clients)
=============================================================================
