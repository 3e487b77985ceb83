------------------------------ MODULE Registry ------------------------------
(***************************************************************************)
(* What provisioning promises, with no gateway, no requests and no crashes *)
(* in it: a slug belongs to the one who founded it, for good; people are   *)
(* admitted and never removed; and the money a venture brings with it is   *)
(* recorded once, by one of its people.                                    *)
(***************************************************************************)

CONSTANTS
    Lots,      \* slugs
    Folk,      \* people
    Sums,      \* what a venture may bring with it
    Nobody     \* no founder, no savings

VARIABLES
    founder,   \* founder[v]: who founded v
    roster,    \* roster[v]: who was ever admitted to v
    savings    \* savings[v]: what v brought with it, and who recorded it

registryVars == <<founder, roster, savings>>

RegistryInit ==
    /\ founder = [v \in Lots |-> Nobody]
    /\ roster = [v \in Lots |-> {}]
    /\ savings = [v \in Lots |-> Nobody]

Found(v, p) ==
    /\ founder[v] = Nobody
    /\ founder' = [founder EXCEPT ![v] = p]
    /\ roster' = [roster EXCEPT ![v] = @ \cup {p}]
    /\ UNCHANGED savings

Admit(v, p) ==
    /\ founder[v] # Nobody
    /\ roster' = [roster EXCEPT ![v] = @ \cup {p}]
    /\ UNCHANGED <<founder, savings>>

Record(v, p, sum) ==
    /\ p \in roster[v]
    /\ savings[v] = Nobody
    /\ savings' = [savings EXCEPT ![v] = [seed |-> sum, by |-> p]]
    /\ UNCHANGED <<founder, roster>>

RegistryNext ==
    \E v \in Lots, p \in Folk :
        \/ Found(v, p)
        \/ Admit(v, p)
        \/ \E sum \in Sums : Record(v, p, sum)

RegistrySpec == RegistryInit /\ [][RegistryNext]_registryVars
=============================================================================
