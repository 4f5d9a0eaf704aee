------------------------------- MODULE Vault -------------------------------
(* What a custodian promises, whatever its books look like: funds that are  *)
(* free or reserved are held, they are freed by being received, and they    *)
(* are paid out or reserved only with approval.  The treasury implements    *)
(* it, on its own and when the fee distributor calls it.                    *)
EXTENDS Integers

VARIABLES
    free,      \* funds that may be paid out or reserved
    reserved,  \* funds set aside; there is no step that releases them
    held,      \* funds in the custodian's account
    approved   \* whether the step was approved by those who may

vars == <<free, reserved, held>>

TypeOK == free \in Nat /\ reserved \in Nat /\ held \in Nat

Init == free = 0 /\ reserved = 0 /\ held \in Nat

\* Funds arrive; at most what arrives is freed, the rest is a gift.
Receive ==
    /\ free' >= free
    /\ held' - held >= free' - free
    /\ UNCHANGED reserved

\* Free funds are paid out, or back into the custodian's own account.
PayOut ==
    /\ approved'
    /\ 0 <= free' /\ free' < free
    /\ held' \in {held, held - (free - free')}
    /\ UNCHANGED reserved

\* Free funds are set aside and stay where they are.
Reserve ==
    /\ approved'
    /\ 0 <= free' /\ free' < free
    /\ reserved' - reserved = free - free'
    /\ UNCHANGED held

Next == Receive \/ PayOut \/ Reserve

Spec == Init /\ [][Next]_vars

\* Everything free or reserved is held.
Solvent == free + reserved <= held

=============================================================================
