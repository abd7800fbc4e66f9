------------------------------ MODULE MCSetups ------------------------------
(* Instances of Setups: two texts are enough for a file to change and to   *)
(* change back, two versions for a tool to be replaced.                    *)
EXTENDS Setups, TLC

CONSTANTS a, b

TwoVersions == 1 .. 2

\* No skill; one that was authored as files; one that the service wrote, and one that
\* has been edited since.
Plain == [meta |-> a, prompt |-> a]
Edited == [meta |-> b, prompt |-> b]
Unrecorded == [revision |-> 0, sha |-> Absent]
FourLayers ==
    {[skill |-> Absent, history |-> Unrecorded], [skill |-> Plain, history |-> Unrecorded],
     [skill |-> Plain, history |-> [revision |-> 1, sha |-> Plain]],
     [skill |-> Plain, history |-> [revision |-> 1, sha |-> Edited]]}
OneLayer == {[skill |-> Plain, history |-> Unrecorded]}
=============================================================================
