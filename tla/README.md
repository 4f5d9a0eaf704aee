# StellarConduit contracts: a TLA+ model, its checks and its proofs

The repository holds four Soroban smart contracts that settle payments relayed
over a mesh network: a registry of relay nodes and their stakes, a distributor
of relay fees, a treasury, and a resolver of disputes. This directory models
the four contracts as state machines, checks them with TLC on small instances
and proves theorems about all of them with TLAPS, for every value of the
constants.

Paths below are relative to the repository root (`src/` here).

## 1. Inventory

| Component | Source | State | Operations |
|---|---|---|---|
| Treasury | `contracts/treasury/src` | council, token address, booked balance, lifetime statistics, numbered history, spending programs | `initialize`, `deposit`, `withdraw`, `create_program`, `update_program_budget`, `deactivate_program`, `allocate`; views |
| Relay registry | `contracts/relay-registry/src` | council, minimum stake, lock period, token address, node records, one pending unstake per node, node count | `initialize`, `register`, `update_metadata`, `stake`, `unstake`, `finalize_unstake`, `slash`, `reinstate_node`; views |
| Fee distributor | `contracts/fee-distributor/src` | fee configuration, treasury and token addresses, earnings per relay, one entry per batch | `initialize`, `distribute`, `claim`, `set_fee_rate`; views |
| Dispute resolver | `contracts/dispute-resolver/src` | council, window, disputes, index by transaction, rulings, public keys | `initialize`, `raise_dispute`, `respond`, `resolve`; views |
| Admin council | `require_council_auth` in three of the contracts | the council record | the authorisation loop |
| Token (external) | `token::Client` | balances | `transfer` |
| Storage lifetimes | `extend_instance_ttl` and `extend_ttl` in every `storage.rs` | the last ledger in which an entry is live | extension, archival, restoration |

**How they interact.** Every contract but the resolver moves tokens of one asset
contract. The fee distributor's `distribute` transfers the treasury's share and
then calls the treasury's `deposit` in the same transaction. The registry is not
called by any other contract (the fee distributor's README says it is; the code
does not; `Protocol` composes them as they are deployed and the run
`earners_inactive` shows what follows). The resolver stores a council and never asks it.

**What is hard.** Soroban executes one transaction at a time and rolls a failing
one back completely, so there are no data races. What remains, and what a
unit test hardly reaches, is the order of calls of several actors: a slash
between an unstake and its finalization, a second unstake before the first is
finalized, an answer in the ledger in which the window closes, a budget lowered
after a deactivation, registration before initialization, two contracts' books
that must agree after a nested call, an entry archived before the lock it
records is over. `PROJECT.json` lists these hazards with the
line where each bites and the properties that cover it.

**What makes each component correct.**

* Treasury: booked tokens exist; balance, statistics, history and program
  spending describe the same movements; nothing leaves without the council.
* Registry: every token has exactly one place; status follows stake; a lock
  lasts; slashing leaves nothing behind; only the node or the council changes
  what a node holds.
* Fee distributor: earnings are the sum of the batches; a batch counts once;
  what the distributor says it paid the treasury is what the treasury booked.
* Resolver: one dispute per transaction, one final ruling per dispute, given to
  the right party and not before the window allows it; disputes end.

## 2. Modules

```
TokenLedger   AdminCouncil
     \          /      \
      Treasury, RelayRegistry     DisputeResolver
         |            |    \
   FeeDistributor     |   RegistryLifetimes --- StorageTtl
         \            |
           Protocol (both, side by side)

what they implement:   Vault            NodeLifecycle      Arbitration
                         ^                    ^                 ^
                Treasury, also under     RelayRegistry    DisputeResolver
                FeeDistributor           (per node)       (per transaction)

MCTreasury, MCRelayRegistry, MCFeeDistributor, MCDisputeResolver,
MCRegistryLifetimes, MCProtocol                        instances for TLC
SumProofs (sums over finite functions)
TokenLedgerProofs, AdminCouncilProofs, TreasuryProofs, RelayRegistryProofs,
DisputeResolverProofs, FeeDistributorProofs, RegistryLifetimesProofs
```

**Convention.** An entry point is one action with the entry point's name. Its
guards are the conditions under which the call returns `Ok`; a call that
returns an error or traps changes nothing, so it is no step. This is what the
host does: an `Err` or a panic undoes all storage writes and transfers of the
transaction, also those made before the failing line (`deposit` writes its
books before it transfers). `signers` is a history variable: the addresses whose
authorisation the last transaction carried. Absent storage keys are values that
no entry point writes (`NoCouncil`, `NotRegistered`, `NoLock`, `NoFeeEntry`,
`NoProof`, id zero).

* `TokenLedger`: `CanTransfer` is the condition under which `transfer` does not
  trap, `Transfer` its effect. External; modelled from its use.
* `AdminCouncil`: `RequireCouncilAuth` is the loop of `require_council_auth`.
  It asks members in list order, traps at the first who has not signed and stops
  after `threshold`, so the *first* threshold members must sign. `Quorum` is what
  the contracts need of it: threshold seats of the council were signed for
  (`SignedSeats`). `initialize` accepts a list that repeats a member, who then
  fills as many seats (`Signatories` are the people). Whether the host lets an
  address be asked twice in one call is not in the repository; the model lets it.
* `Treasury`: `council`, `balance`, `stats`, `entries`, `programs` are the
  storage; `tokens` is the asset contract's ledger. `DepositOn` is `deposit` on a
  given ledger, so that the fee distributor can call it in the middle of its own
  transaction. `token_transfer` lets accounts send tokens past the contract.
  `stats` keeps the three lifetime totals; the stored `current_balance` field is
  always overwritten on reading.
* `RelayRegistry`: `config`, `nodes`, `locks`, `node_count` are the storage.
  `token_set` stands for the token address, which no entry point writes: the
  repository's tests write it into the storage from outside
  (`contracts/relay-registry/tests/relay-registry-test.rs:198`), and
  `set_token_address` models that. `now` is the ledger timestamp and
  `CloseLedger` advances it by `CloseTime` seconds. `history` is a history
  variable per node: what was seized, what a later unstake replaced, when it
  last unstaked.
* `FeeDistributor`: `fee_config`, `earnings`, `fee_entries` are its storage; the
  other variables are the treasury's, and `TreasuryStep` is any transaction of
  the treasury or the token. `distribute` is one action over both contracts.
  `NonRootAuth` says whether the environment lets `deposit` move the fee
  distributor's tokens: the tests do (`mock_all_auths_allowing_non_root_auth`),
  a network does not, and there every `distribute` with a positive share fails.
  The runs take the case in which it succeeds, because in the other nothing of
  the nested call is reachable.
* `DisputeResolver`: `disputes` is the numbered table, `tx_dispute` the index,
  `rulings` the stored rulings, `keys` the parties with a public key. A proof is
  a record of the key it verifies under and its sequence number. `Verifies`
  is `verify_proof`: it answers true or traps, never false, so the branches of
  the ruling tree for an invalid proof do not occur. `set_public_key` is done
  from outside by the tests; no entry point does it. `resolved_at` and
  `raised_at` are ledger numbers here, timestamps in the code; no decision of
  the code reads them.

* `Protocol` only composes: the registry beside the fee distributor and its treasury, one
  transaction at a time. Stakes and fees have a ledger each, because the two
  contracts are configured with a token each.
* `StorageTtl`: when an entry is live and what `extend_ttl(threshold, amount)`
  does to its last ledger. `RegistryLifetimes` adds to every entry point of
  `RelayRegistry` what it does to the lifetimes of the instance, `Node` and
  `LockEntry` entries it touches; an archived entry makes the call fail.
  The views `get_node` and `is_active` extend too and are actions here
  (`is_active` also answers for an address without an entry). Restoring one is an action of its own, open to everybody. One step of the
  clock is one ledger here.

Three modules say what a part promises without saying how.
* `Vault`: funds are received, paid out or set aside; the last two need
  approval. `Treasury!TreasuryIsVault` maps `free` to the booked balance,
  `reserved` to the lifetime allocations, `held` to the token account;
  `FeeDistributor!TreasuryStaysVault` is the same for the composition.
* `NodeLifecycle`: join, bond, unbond, slash, reinstate, with the consent each
  needs. `RelayRegistry!NodesLiveAsDocumented` maps every node's record to it.
* `Arbitration`: one case, opened once by one of two parties, decided once for
  one of them. `DisputeResolver!EveryTxIsArbitrated` maps every transaction to
  it, through the index, the table and the rulings.

Operators under a comment "Seeded fault" are no part of the model: each is a
plausible bug of the definition that follows it, and every property of a
passing run is violated when one of them takes that definition's place
(`PROJECT.json`, "mutants"). `Next`, and what only chooses between other actions,
has no source lines of its own under "map": each of its disjuncts has.

## 3. Runs

Passing runs explore every reachable state of their instance.

| Run | Instance and bounds | What it shows |
|---|---|---|
| `treasury` | 2 accounts who are also the council (1-of-2, 2-of-2, one member in both seats, two invalid councils), amounts 0..2, 2 tokens, `MaxI128 = 3`, `MaxEntries = 3`, `MaxPrograms = 2` | books, history and token account agree; outflow needs a quorum; budgets hold; deactivation is final; the treasury is a vault |
| `registry` | 2 nodes with 3 and 2 tokens, amounts 0..3, a council of 2 in 3 seats who must both sign, minimum stake 2, lock 1 or 2 seconds, `CloseTime = 1`, `MaxU64 = 3`, `MaxI128 = 5` | custody, status, slashing, lock and consent; every node follows the documented life cycle; pending unstakes end |
| `fees` | 2 relays, 2 batches of size 1 or 2, rates 5000 and 10000, shares 0, 5000 and 20000, 5 tokens, a council of 2 in 3 seats; the treasury interleaves with amounts of 1 | earnings, batches and the treasury's history agree across the nested call; the treasury stays a vault; a relay that insists is paid unless the account runs dry |
| `disputes` | 2 parties, 2 transactions, 3 proofs (a tie, one that loses, and wrong ones), windows 1 and 4, `MaxU32 = 3`, `LastRaise = 1` | one right, final ruling at the right time; every transaction is arbitrated; disputes end unless a proof stays unverifiable |
| `lifetimes` | 1 node, locks of 2 and 4 ledgers, threshold 2, amount 3, `MinTtl = 2`, 7 ledgers | a lock within the threshold never outlives the entries it needs; a longer one still ends if somebody restores |
| `lock_overwritten` | as `registry` | violation: a second unstake loses the first amount |
| `node_count` | as `registry` | violation: `initialize` forgets registered nodes |
| `lock_in_ledgers` | as `registry`, ledgers every 5 seconds, lock 6 | violation: the lock is over after 2 ledgers, not 6 |
| `share_moved_twice` | as `fees` | violation: twice the recorded share leaves the distributor |
| `earnings_fall` | as `fees` | violation: a share above 100 % lowers lifetime earnings |
| `earners_inactive` | 2 relays, registry, fee distributor and treasury together | violation: an unregistered relay earns |
| `dispute_stuck` | as `disputes`, one transaction | violation: an unverifiable proof blocks `resolve` for ever |

**Why the bounds are enough.** The contracts treat accounts, nodes, batches and
transactions uniformly and never iterate over them; two of each give every pair
of concurrent actors, and the case of one actor's tokens paid to another.
Amounts run from zero past every limit that is compared: below, at and above the
minimum stake, the stake, the budget and the balance. The treasury's checked
additions both succeed and fail (`MaxI128 = 3` is less than what two circulating
tokens can add up to), and so do the unlock time and the dispute deadline. A
stake cannot overflow, here as in the code, because the asset's whole supply fits
an i128; nor can a relay's earnings within two batches. Three entries allow a deposit, a use and one more movement
of every kind; the proofs remove this bound for the arithmetic. `MaxEntries`,
`MaxPrograms` and `LastRaise` are bounds of the model only; `MaxI128`, `MaxU64`
and `MaxU32` stand for the machine limits that the code checks. `LastRaise`
keeps the deadline of a dispute inside the modelled ledgers, so that it can
expire. Symmetry is not used: the liveness runs would not allow it, the others
do not need it.

In `lifetimes` the constants keep the order of the deployed ones (a threshold of
about 15 days, an amount of about 30, a minimum lifetime shorter than the
threshold: the test snapshots record `min_persistent_entry_ttl` 4096). What is
guaranteed is the threshold, not the amount: a call in the ledger before an
extension falls due leaves the entry with the threshold only. One lock is
within the threshold, one beyond every extension, so that both the guarantee and
archival with restoration happen.

**Deadlock.** It is checked in `treasury`, `registry`, `fees` and `lifetimes`,
where some call is always possible. In `disputes` a behaviour may really end: all disputes
ruled on or stuck and the ledger counter at its limit.

**Fairness.** Three kinds only.
* Time: weak fairness of `CloseLedger`. Ledgers close whatever the contracts do.
* A caller that insists: weak fairness of `finalize_unstake(n)` for the node that
  wants its tokens, of `claim(relay)` for the relay that wants its earnings, and
  of `resolve(id)`, which anybody may call. The contracts
  schedule nothing themselves; the liveness properties say that a caller who
  keeps trying succeeds in the end, not that somebody must call.
* In `lifetimes`, restoration by the node that waits (weak fairness), and strong
  fairness of its `finalize_unstake`: the instance may be archived again between
  two attempts, so the call is possible again and again, not for good.

`ClaimsSettle` allows for a claim that the account cannot pay, because nobody is
obliged to fund it. No party is assumed to answer or to get its key stored. `KeyedFairSpec` adds
that every key is stored in the end and is used only by `dispute_stuck`, to show
that the dispute is stuck even then.

## 4. Findings

Each is a violated property with the line of the documentation it contradicts,
in `PROJECT.json` under "findings": the overwritten pending unstake, the reset
node count, the lock period in seconds, the double transfer of the treasury
share, the unvalidated share, the registry that is never consulted, and the
dispute that cannot be resolved.

## 5. Proofs

All theorems are proved for arbitrary sets of accounts, nodes, amounts and
councils, from the named assumptions in the modules: addresses of contracts
differ from those of accounts, amounts are integers, initial balances are
natural numbers, a council is a sequence of accounts with a threshold. The sets
over which something is summed are finite (`FiniteNodes`: an address has a fixed
number of bytes; `FiniteBatchIds`: a batch id is a u64), of any size. The
lifetimes need what the host enforces (`TtlAssumption`: the threshold is at most
the amount).
The resolver's theorems
need the placeholder for "no party" to be no party's address.

*Sums.* The properties that add something up use `SumFunction` of the community
modules, a fold whose definition is recursive over a set. What a recursive
definition computes is usually shown by induction, and the induction theorems of
the library take an operator as a parameter, which the installed provers cannot
instantiate. `SumProofs` goes another way: of the subsets for which a statement
about their sum fails there is a smallest (`SmallestSubset`, from the least
number principle for a set), and taking one element out of it gives a
contradiction. That the fold is a function that satisfies its equation at all
(`TableEquation`) is shown in the same manner: the tables that satisfy it up to
a set exist for every finite set and agree where they overlap. From this come the facts the
contracts' proofs cite: the order of summation does not matter (`SumRemove`),
changing one summand changes the sum by as much (`SumChange`), appending an
element adds it (`SumAppend`), a sum of natural numbers is no less than any of
them (`SumIsNoLess`).

*Treasury.* `TypeCorrect` is inductive by itself and carries the absence of
overflow and negative values. Reconciliation (`StatsReconcile`) is inductive
given the types: each movement adds the same amount on both sides. `Backing` is
not obvious because `withdraw` can pay the treasury itself and accounts can send
tokens past it; the proof goes over `Transfer`'s lemmas (`TokenLedgerProofs`):
a transfer changes the treasury's balance by what the treasury booked or by
something non-negative. `WithinBudgetHolds` and `DeactivationIsFinal` follow from the guards of
`allocate` and `update_program_budget`, program by program.
`OutflowIsAuthorised` uses `AuthIsQuorum`: the first `threshold` seats of the
list are signed for. What that means in people is the theorem's second half: the
seats that the loop does not ask hold too few people to hide more than the
repeats in the list, so at least `threshold` less the repeats signed, which is
`threshold` where nobody is listed twice. Nothing is assumed of the list.
`TreasuryImplementsVault` maps each entry point to a step of the vault: a deposit
or a direct transfer is a receipt, a withdrawal a payment (possibly to itself), an
allocation a reservation. `BooksClosed` (no council, no balance) makes the
assignment `balance = 0` in `initialize` a stutter. `AuditTrailHolds` and
`SpentReconcilesHolds` are inductive given the types and the sum lemmas: a booking
appends one entry and adds the same amount to the statistics of its kind
(`BookEntry`); an allocation changes the spending of one program.
`WithdrawalsAreFunded` draws the conclusion that matters to a caller from
`Backing`: what passes the balance check does not trap in the token contract.

*Registry.* `ActiveIffStaked` and `SlashedHoldsNothing` are not inductive alone:
that a slashed node has no pending unstake depends on only active nodes getting
one, that an active node has its minimum depends on there being no active node
before initialization. `Standings` adds what is missing: before `initialize`
nobody has a lock and the configuration is empty, afterwards the minimum and the
period are positive, an unregistered address has neither stake nor lock, and a
pending entry unlocks exactly one period after its node last called `unstake`
(which `LockIsKept` needs). `TokensAreAccounted` shows that the five places of a
node's tokens keep their sum in every action, with another node's transfer
leaving them alone.

`RegistryImplementsLifecycle` takes every step of the registry, for every
node, to an edge of the life cycle or a stutter. `CountIsBounded` rests on
`RegisteredStep`: only `register` adds a node, nothing removes one, and the
count moves with it or is reset.

`CustodyHolds` is inductive given the types: every step that touches stakes or
pending unstakes moves at least as many tokens into the account as it adds to
one node's holdings (`HoldingsChange` turns that into a change of the sum);
slash and a replaced unstake take from the holdings and move nothing.
`ReleasesAreFunded` follows: the pending amount of one node is no more than the
sum, so `finalize_unstake` finds it on the account.

*Resolver.* `RulingIffResolved` and `OneDisputePerTx` are not inductive alone:
that `resolve` adds the first ruling of a dispute, and `raise_dispute` the first
dispute of a transaction, depends on table and index agreeing. `Cases` says they
do: a dispute is between two parties, its transaction's index entry points to it,
and it has an answer exactly when its status says so (`Recorded`); the index
points to nothing else (`Indexed`). With it `RulingsAreJust` follows the branches
of `resolve`, and `ResolverImplementsArbitration` reads a case off the index.

*Fee distributor.* The proofs are over both contracts: the treasury's own
transactions interleave (`TreasuryStepTokens`: none of them takes from the fee
distributor), and one runs inside `distribute` (`ShareMovesTwice`).
`OutflowIsAccounted` then goes call by call. The second part of
`FeeDistributorProofs` instantiates `TreasuryProofs` under the composition: the
treasury's own steps keep its invariant by its own lemmas, calls that do not
reach it leave it alone, and `NestedDeposit` adds the one new case, a deposit on
a ledger that has already moved. From these follow the types of both contracts
and that the treasury remains a vault. `EarningsAddUp`: a distribution writes an
entry where there was none, so it adds the relay's part to the relay's sum and
nothing to another's (`PayoutsChange`); a claim moves between the two halves of
the record. `SharesAreBooked` relates the two contracts: a distribution adds its
share to the sum over the fee entries (`SharesChange`) and, through the nested
`deposit`, to the sum over the treasury's history (`DepositsChange`); the
treasury's own movements name other actors (`OwnEntries`), which is where it is
needed that a contract's address is no account's.

*Lifetimes.* Every action of `RegistryLifetimes` is an action of the registry or
leaves its state alone (`RegistryStep`), so what is proved of the registry holds
under archival too (`StandingsHold`).
`LockWindowIsLive` is not inductive: it says nothing of an entry once time has
passed the point it speaks about, and nothing of how long an entry lives on.
`LifeInv` says it: while an unstake is pending, the instance, the node's entry
and the pending entry live at least to the ledger of the unstake plus the
threshold (`Sustained`). `unstake` extends all three, every other call, a
restoration included, leaves an entry alone or lengthens its life
(`ExtensionBounds`), and the calls that take the pending entry away end the
unstake. A second unstake starts the promise anew. `LockInLedgers` then compares
seconds and ledgers: a lock of so many seconds is over within as many ledgers,
however fast they close. TLC checked `Sustained` on the instance of
`lifetimes` before it was proved.

*Left to TLC.* Liveness (`UnlockEventually`, `ClaimsSettle`, `DisputesSettle`,
`UnlockDespiteArchival`), which needs fairness and `ENABLED`. Every invariant and
every action property of a passing run is also a theorem. The documented
properties that the violation runs refute are false and have none.

## 6. Not modelled

The lifetimes of the other contracts' entries: they are extended with the same
constants, an archived entry loses no data, and nothing in those contracts waits
for a time except a dispute, whose window is not held against them.
Error codes, events, memos, names, regions and reasons: not read by any
decision, except lengths, which are kept. Views other than `get_treasury_stats`, `calculate_fee`, `is_active` and
`get_node`: they return stored values.
Hashes and signatures: a proof verifies under one key or not. The signed message
of a proof is not tied to a dispute, and in the model any proof of a party may
be submitted in any dispute. Scripts, CI and tests are not part of the running
system. Code that is never called (`append_entry`, `get_allocation`,
`remove_node`, `DisputeStatus::Expired`) is left out.

**Present behaviour that is meant to change.** `allocate` takes tokens off the
balance and transfers none: `contracts/treasury/src/lib.rs:385-394` is a TODO to
send them to the program's recipient, and `docs/contract-specs.md:554` says that
the treasury "disburses them via spending programs". The model follows the code
as it is. So the allocation half of `Backing`, and the vault's `Reserve`, which
keeps the tokens on the account (in `TreasuryIsVault` and `TreasuryStaysVault`),
describe today's treasury: until it pays, an allocated token is not spent a second
time. They are not a claim that allocated tokens should stay.

Limits of what is modelled: the fee distributor is configured with the deployed
treasury and one token; in the registry tokens move only through the
contract, so `NodeAccounting` is about the contract's own doing; member
addresses are those that sign, not contracts with their own rules.

## 7. Plan

Done, in this order: the token and the council; the treasury with its proofs;
the registry with its proofs; the fee distributor composed with the treasury;
the resolver; the vault, the life cycle and the arbitration with the refinements;
the protocol of registry and fee distributor; the registry's storage lifetimes;
the proofs for the resolver and for the fee distributor with its treasury; the
sums, the custody of the registry, and the lifetimes for all constants.

Next:
1. Lifetimes of a dispute against its window.
2. The payment that `allocate` leaves to be done, once the code does it: `Backing`
   then loses its allocations and the vault's `Reserve` becomes a payment.
