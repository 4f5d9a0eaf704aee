----------------------------- MODULE MCTreasury -----------------------------
(* A small treasury: two accounts, who are also the council (one of two,    *)
(* both, or one who holds both seats), two programs, and amounts around the *)
(* edges of the guards.                                                     *)
EXTENDS Treasury

CONSTANTS a1, a2, treasury

MCAccounts == {a1, a2}
MCCouncils ==
    {[members |-> <<a1, a2>>, threshold |-> 2],
     [members |-> <<a1, a2>>, threshold |-> 1],
     [members |-> <<a1, a1>>, threshold |-> 2],
     [members |-> <<a1>>, threshold |-> 2],
     [members |-> <<a1>>, threshold |-> 0]}
MCAmounts == 0 .. 2
MCNameLengths == {2, 64, 65}
MCInitialTokens == [h \in Holders |-> IF h = a2 THEN 2 ELSE 0]

=============================================================================
