---------------------------- MODULE AdminCouncil ----------------------------
(* The AdminCouncil record that every contract of the protocol stores, and  *)
(* the require_council_auth loop that guards each administrative entry      *)
(* point.  signers is the set of addresses whose authorisation the          *)
(* transaction carries.                                                     *)
EXTENDS Integers, Sequences, FiniteSets

\* What storage holds before initialize: no council that initialize accepts
\* has threshold zero, so the empty record stands for the absent key.
NoCouncil == [members |-> <<>>, threshold |-> 0]

ValidCouncil(c) == c.threshold # 0 /\ c.threshold <= Len(c.members)

\* Seeded fault: the loop leaves one member early.
AuthOneShort(c, signers) ==
    /\ c # NoCouncil
    /\ c.threshold <= Len(c.members)
    /\ \A i \in 1 .. c.threshold - 1 : c.members[i] \in signers

\* The loop asks members in list order, traps at the first that has not
\* signed, and stops once threshold members were asked: the FIRST threshold
\* members must all have signed.
RequireCouncilAuth(c, signers) ==
    /\ c # NoCouncil
    /\ c.threshold <= Len(c.members)
    /\ \A i \in 1 .. c.threshold : c.members[i] \in signers

\* The members who signed, and the seats they fill.  The code lets one address
\* be listed more than once; it then fills as many seats.
Signatories(c, signers) == {m \in signers : \E i \in DOMAIN c.members : c.members[i] = m}
SignedSeats(c, signers) == {i \in DOMAIN c.members : c.members[i] \in signers}

\* There is a council, and threshold of its seats approved.
Quorum(c, signers) ==
    /\ c # NoCouncil
    /\ Cardinality(SignedSeats(c, signers)) >= c.threshold

=============================================================================
