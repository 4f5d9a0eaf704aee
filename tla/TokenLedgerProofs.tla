------------------------- MODULE TokenLedgerProofs -------------------------
(* What callers of token::Client::transfer may rely on.                     *)
EXTENDS TokenLedger, TLAPS

\* A transfer that the token contract accepts leaves every holder with a
\* natural number of tokens (TokenLedger!Transfer under CanTransfer).
LEMMA TransferType ==
    ASSUME NEW H, NEW ledger \in [H -> Nat], NEW from \in H, NEW to \in H,
           NEW amount \in Int, CanTransfer(ledger, from, amount)
    PROVE  Transfer(ledger, from, to, amount) \in [H -> Nat]
<1> DEFINE debited == [ledger EXCEPT ![from] = ledger[from] - amount]
<1>1. debited \in [H -> Nat]
  BY DEF CanTransfer
<1>2. Transfer(ledger, from, to, amount) = [debited EXCEPT ![to] = debited[to] + amount]
  BY DEF Transfer
<1>3. amount \in Nat
  BY DEF CanTransfer
<1> QED  BY <1>1, <1>2, <1>3

\* Between two different holders the sender loses exactly the amount, the
\* receiver gains it, and nobody else notices.
LEMMA TransferMoves ==
    ASSUME NEW H, NEW ledger \in [H -> Nat], NEW from \in H, NEW to \in H,
           NEW amount \in Int, from # to
    PROVE  /\ Transfer(ledger, from, to, amount)[from] = ledger[from] - amount
           /\ Transfer(ledger, from, to, amount)[to] = ledger[to] + amount
           /\ \A h \in H \ {from, to} : Transfer(ledger, from, to, amount)[h] = ledger[h]
  BY DEF Transfer

\* A transfer to oneself changes nothing.
LEMMA TransferToSelf ==
    ASSUME NEW H, NEW ledger \in [H -> Nat], NEW a \in H, NEW amount \in Int
    PROVE  Transfer(ledger, a, a, amount) = ledger
<1> DEFINE after == Transfer(ledger, a, a, amount)
<1>1. after[a] = ledger[a]
  BY DEF Transfer
<1>2. \A h \in H \ {a} : after[h] = ledger[h]
  BY DEF Transfer
<1>3. after = [h \in H |-> after[h]]
  BY DEF Transfer
<1>4. ledger = [h \in H |-> ledger[h]]
  OBVIOUS
<1> QED  BY <1>1, <1>2, <1>3, <1>4

\* Whoever the receiver is: nobody but the sender ends with less, and the
\* sender with no less than the amount short.
LEMMA TransferBounds ==
    ASSUME NEW H, NEW ledger \in [H -> Nat], NEW from \in H, NEW to \in H,
           NEW amount \in Int, amount >= 0, NEW h \in H
    PROVE  /\ Transfer(ledger, from, to, amount)[h] \in Int
           /\ h # from => Transfer(ledger, from, to, amount)[h] >= ledger[h]
           /\ Transfer(ledger, from, to, amount)[h] >= ledger[h] - amount
<1> DEFINE after == Transfer(ledger, from, to, amount)
<1>0. ledger[h] \in Nat /\ ledger[from] \in Nat /\ ledger[to] \in Nat
  OBVIOUS
<1>1. CASE from = to
  <2>1. after = ledger
    BY <1>1, TransferToSelf
  <2> QED  BY <2>1, <1>0
<1>2. CASE from # to
  <2>1. /\ after[from] = ledger[from] - amount
        /\ after[to] = ledger[to] + amount
        /\ h \notin {from, to} => after[h] = ledger[h]
    BY <1>2, TransferMoves
  <2> HIDE DEF after
  <2>2. /\ after[h] \in Int
        /\ h # from => after[h] >= ledger[h]
        /\ after[h] >= ledger[h] - amount
    BY <2>1, <1>0, <1>2
  <2> QED  BY <2>2 DEF after
<1> QED  BY <1>1, <1>2

=============================================================================
