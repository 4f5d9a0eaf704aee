---------------------------- MODULE Arbitration ----------------------------
(* What the parties to one transaction may expect of its arbitration: it is *)
(* opened at most once, by one of its two parties, and decided at most      *)
(* once, for one of them.  The resolver implements it for every             *)
(* transaction, with disputes, rulings and the index between them.          *)
CONSTANT Undecided  \* no party: the winner of a case that is not decided

VARIABLES
    parties,  \* the two parties of the case; {} when there is none
    winner,   \* the party it was decided for, or Undecided
    signed    \* who signed the step

vars == <<parties, winner>>

Init == parties = {} /\ winner = Undecided

Open ==
    /\ parties = {}
    /\ \E p, q \in parties' : p # q /\ parties' = {p, q} /\ p \in signed'
    /\ UNCHANGED winner

Decide ==
    /\ parties # {}
    /\ winner = Undecided
    /\ winner' \in parties
    /\ UNCHANGED parties

Next == Open \/ Decide

Spec == Init /\ [][Next]_vars

=============================================================================
