------------------------------ MODULE Protocol ------------------------------
(* The relay registry beside the fee distributor and its treasury, as they  *)
(* are deployed together: one transaction at a time, of one of them.  Both  *)
(* know the same relays.  Each has a token address of its own: stakes are   *)
(* on stake_tokens, fees and the treasury's funds on tokens.                *)
EXTENDS Integers

CONSTANTS
    Nodes,        \* the relays, known to both contracts
    Members,      \* addresses that may sit on a council
    RegistryAddr, FeeAddr, TreasuryAddr,
    StakeTokens,  \* balances of the registry's token before the contracts are used
    FeeTokens,    \* balances of the fee distributor's and the treasury's token
    Councils, MinStakes, LockPeriods, Metadata, Amounts, MaxI128, MaxU64, CloseTime,
    FeeRates, ShareRates, BatchIds, BatchSizes, NonRootAuth, NameLengths,
    MaxEntries, MaxPrograms

VARIABLES
    config, token_set, nodes, locks, node_count, now, stake_tokens, history,
    fee_config, earnings, fee_entries,
    council, balance, stats, entries, programs, tokens,
    signers

registryVars == <<config, token_set, nodes, locks, node_count, now, stake_tokens, history>>
feeVars == <<fee_config, earnings, fee_entries, council, balance, stats, entries, programs, tokens>>
vars == <<registryVars, feeVars, signers>>

R == INSTANCE RelayRegistry WITH InitialTokens <- StakeTokens, tokens <- stake_tokens
F == INSTANCE FeeDistributor WITH
        Accounts <- Nodes \cup Members, InitialTokens <- FeeTokens

Init == R!Init /\ F!Init

RegistryStep == R!Next /\ UNCHANGED feeVars
FeeStep == F!Next /\ UNCHANGED registryVars

Next == RegistryStep \/ FeeStep

Spec == Init /\ [][Next]_vars

\* Documented: the fee distributor queries the registry, to verify that a node is
\* active before it distributes fees.  So only active nodes earn.
EarnersAreActive ==
    [][\A relay \in Nodes :
          earnings'[relay].total_earned > earnings[relay].total_earned
             => R!is_active(relay)]_vars

=============================================================================
