---------------------------- MODULE TokenLedger ----------------------------
(* The token the contracts move: a Stellar Asset Contract reached through   *)
(* token::Client::transfer.  The contract is external; what is modelled is  *)
(* what the callers rely on.  A ledger maps every holder to its balance.    *)
(* transfer traps, and with it the whole transaction, on a negative amount  *)
(* or an insufficient balance.  Authorisation of the sender is a guard of   *)
(* the caller: an account signs, a contract authorises its own transfers.   *)
EXTENDS Integers

CanTransfer(ledger, from, amount) == 0 <= amount /\ amount <= ledger[from]

\* The sender is debited before the receiver is credited, so a transfer to
\* oneself ends where it began.
Transfer(ledger, from, to, amount) ==
    LET debited == [ledger EXCEPT ![from] = @ - amount]
    IN  [debited EXCEPT ![to] = @ + amount]

=============================================================================
