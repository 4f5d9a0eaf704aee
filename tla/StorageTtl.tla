----------------------------- MODULE StorageTtl -----------------------------
(* The lifetime of a storage entry.  Every contract of the protocol extends *)
(* it with the same two constants: its instance entry at the start of every *)
(* entry point, a persistent entry whenever a helper of storage.rs reads or *)
(* writes it.  What the host does with an entry that is not extended in     *)
(* time is external: the entry is archived, every transaction that touches  *)
(* it fails, and anybody may restore it unchanged.                          *)
EXTENDS Integers

CONSTANTS
    LEDGER_BUMP_THRESHOLD,  \* ledgers: a shorter remaining life is extended
    LEDGER_BUMP_AMOUNT,     \* ledgers: the life after an extension
    MinTtl                  \* ledgers a new or restored entry lives, itself included

\* The host refuses a threshold above the amount.
ASSUME TtlAssumption ==
    /\ LEDGER_BUMP_THRESHOLD \in Nat /\ LEDGER_BUMP_AMOUNT \in Nat /\ MinTtl \in Nat \ {0}
    /\ LEDGER_BUMP_THRESHOLD <= LEDGER_BUMP_AMOUNT

IsLive(until, ledger) == ledger <= until
Created(ledger) == ledger + MinTtl - 1

\* Seeded fault: an entry is extended by the amount, not to it.
ExtendedBy(until, ledger) ==
    IF until - ledger <= LEDGER_BUMP_THRESHOLD THEN until + LEDGER_BUMP_AMOUNT ELSE until

Extended(until, ledger) ==
    IF until - ledger <= LEDGER_BUMP_THRESHOLD THEN ledger + LEDGER_BUMP_AMOUNT ELSE until

=============================================================================
