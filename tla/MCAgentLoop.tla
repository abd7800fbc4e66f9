------------------------------ MODULE MCAgentLoop ------------------------------
(* AgentLoop on small instances; costs are 0, 1 or 2 units.                 *)
EXTENDS AgentLoop, TLC

CONSTANTS g1, g2, s1, s2

TwoGroups == {g1, g2}
NoGroup   == {}

(* An agent with one call a turn, and one that fans out.                    *)
OneByOne   == {"tool", "decompose", "specialist", "spawn"}
Delegating == {"decompose", "spawn", g1, g2}

OneSignature  == {s1}
TwoSignatures == {s1, s2}

GroupsAreAlike == Permutations({g1, g2})
=============================================================================
