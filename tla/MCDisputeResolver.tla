------------------------- MODULE MCDisputeResolver -------------------------
(* Two parties, two transactions, proofs that verify and proofs that do not. *)
EXTENDS DisputeResolver

CONSTANTS p1, p2, c1, t1, t2

MCParties == {p1, p2}
MCMembers == {c1}
MCTxIds == {t1, t2}
MCCouncils ==
    {[members |-> <<c1>>, threshold |-> 1], [members |-> <<c1>>, threshold |-> 2]}
\* Each party's own proof, with a tie, and one that loses to both.
MCProofs ==
    {[signer |-> p1, sequence |-> 1], [signer |-> p2, sequence |-> 1],
     [signer |-> p2, sequence |-> 2]}
MCWindows == {0, 1, 4}

=============================================================================
