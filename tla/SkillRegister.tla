--------------------------- MODULE SkillRegister ---------------------------
(***************************************************************************)
(* What the writes of a layer promise of one skill (setups/store.py) to    *)
(* whoever looks at it at one instant, without a lock: each request that   *)
(* is carried out replaces the whole skill, or removes it, between the     *)
(* request and its answer, exactly once, one request at a time; a request  *)
(* that is refused leaves it alone.  While a skill is being replaced there *)
(* is none, and a request that fails then, or a crash, leaves none.        *)
(***************************************************************************)
CONSTANTS
    Clients,   \* who may ask for a write
    Skills,    \* the contents a skill can have
    Absent,    \* no skill
    Nothing    \* no write asked for

VARIABLES
    item,      \* the skill
    pending,   \* what a client has asked for and is not done
    swapping   \* who is replacing it

vars == <<item, pending, swapping>>

Init ==
    /\ item \in Skills \cup {Absent}
    /\ pending = [c \in Clients |-> Nothing]
    /\ swapping = {}

Ask(c) ==
    /\ pending[c] = Nothing
    /\ \E s \in Skills \cup {Absent} : pending' = [pending EXCEPT ![c] = s]
    /\ UNCHANGED <<item, swapping>>

TakeAway(c) ==
    /\ pending[c] \in Skills
    /\ swapping = {}
    /\ item' = Absent
    /\ swapping' = {c}
    /\ UNCHANGED pending

Apply(c) ==
    /\ pending[c] # Nothing
    /\ swapping = IF pending[c] = Absent THEN {} ELSE {c}
    /\ item' = pending[c]
    /\ pending' = [pending EXCEPT ![c] = Nothing]
    /\ swapping' = {}

\* Refused, or failed.
GiveUp(c) ==
    /\ pending' = [pending EXCEPT ![c] = Nothing]
    /\ swapping' = swapping \ {c}
    /\ UNCHANGED item

Crash ==
    /\ pending' = [c \in Clients |-> Nothing]
    /\ swapping' = {}
    /\ UNCHANGED item

Next == Crash \/ \E c \in Clients : Ask(c) \/ TakeAway(c) \/ Apply(c) \/ GiveUp(c)

Spec == Init /\ [][Next]_vars
=============================================================================
