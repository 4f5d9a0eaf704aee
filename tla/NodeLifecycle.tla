--------------------------- MODULE NodeLifecycle ---------------------------
(* The life of one relay node as the protocol's documents tell it: it joins *)
(* with nothing at stake, bonds stake until it is active, takes stake out   *)
(* only while it is active, and loses all of it to a slash, which only an   *)
(* appeal the council approves can lift.  The registry implements it for    *)
(* every node, in any interleaving of the nodes, the council and the clock. *)
EXTENDS Integers

VARIABLES
    status,   \* "NotRegistered", "Inactive", "Active" or "Slashed"
    bond,     \* what the node has at stake
    own,      \* whether the node itself signed the step
    approved  \* whether the council approved the step

vars == <<status, bond>>

Init == status = "NotRegistered" /\ bond = 0

Join ==
    /\ own'
    /\ status = "NotRegistered" /\ status' = "Inactive"
    /\ bond' = 0

\* More stake, and with enough of it activity.
Bond ==
    /\ own'
    /\ status \in {"Inactive", "Active"}
    /\ bond' > bond
    /\ status' \in {status, "Active"}

\* Less stake, and with too little of it no activity.
Unbond ==
    /\ own'
    /\ status = "Active"
    /\ 0 <= bond' /\ bond' < bond
    /\ status' \in {"Active", "Inactive"}

Slash ==
    /\ approved'
    /\ status \in {"Inactive", "Active"} /\ status' = "Slashed"
    /\ bond' = 0

Reinstate ==
    /\ approved'
    /\ status = "Slashed" /\ status' = "Inactive"
    /\ bond' = 0

Next == Join \/ Bond \/ Unbond \/ Slash \/ Reinstate

Spec == Init /\ [][Next]_vars

=============================================================================
