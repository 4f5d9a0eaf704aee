--------------------------- MODULE RelayRegistry ---------------------------
(* The relay registry contract: relay nodes register, stake tokens into the *)
(* contract's account to become Active, unstake through a time lock, and    *)
(* are slashed or reinstated by the admin council.  One transaction is one  *)
(* action; a transaction that fails or traps changes nothing.               *)
(*                                                                          *)
(* Abstracted: region names (their length is kept), capacity, registered_at *)
(* and last_active, the slashing reason, events, storage lifetimes.         *)
EXTENDS AdminCouncil, TokenLedger, Functions, FiniteSets

CONSTANTS
    Nodes,          \* addresses that may run a relay node
    Members,        \* addresses that may sit on the council
    RegistryAddr,   \* the registry's own contract address
    Councils,       \* the councils a caller may pass to initialize
    MinStakes,      \* the min_stake arguments a caller may pass
    LockPeriods,    \* the stake_lock_period arguments a caller may pass
    Metadata,       \* the metadata a caller may pass
    Amounts,        \* the i128 amounts a caller may pass
    MaxI128,        \* the largest i128
    MaxU64,         \* the largest timestamp
    CloseTime,      \* seconds from one ledger to the next
    InitialTokens   \* token balances before the contract is used

Accounts == Nodes \cup Members
Holders == Nodes \cup {RegistryAddr}

ASSUME RegistryAssumption ==
    /\ RegistryAddr \notin Nodes
    /\ \A c \in Councils : c \in [members : Seq(Accounts), threshold : Nat]
    /\ MinStakes \subseteq Int
    /\ LockPeriods \subseteq Nat
    /\ Metadata \subseteq [uptime_commitment : Nat, region_len : Nat]
    /\ Amounts \subseteq Int
    /\ MaxI128 \in Nat /\ MaxU64 \in Nat /\ CloseTime \in Nat \ {0}
    /\ InitialTokens \in [Holders -> Nat]

\* An address is a fixed number of bytes.
ASSUME FiniteNodes == IsFiniteSet(Nodes)

VARIABLES
    config,     \* AdminCouncil, MinStake and StakeLockPeriod
    token_set,  \* whether TokenAddress is in storage
    nodes,      \* Node(address); NotRegistered where there is none
    locks,      \* the pending unstake per address; NoLock where there is none
    node_count, \* NodeCount
    now,        \* the ledger timestamp, in seconds
    tokens,     \* the token contract's ledger
    signers,    \* history: the authorisations the last transaction carried
    history     \* history: per node, what left its stake and when

vars == <<config, token_set, nodes, locks, node_count, now, tokens, signers, history>>

\* The getters of absent keys return zero, or trap where a council is needed.
NoConfig == [council |-> NoCouncil, min_stake |-> 0, stake_lock_period |-> 0]
Config == [council : [members : Seq(Accounts), threshold : Nat],
           min_stake : Nat, stake_lock_period : Nat]

\* An absent node and an absent pending unstake are records that no entry point
\* writes: a stored status is never "NotRegistered", a stored amount never zero.
NodeStatus == {"Active", "Inactive", "Slashed", "NotRegistered"}
NodeMetadata == [uptime_commitment : Nat, region_len : Nat]
RelayNode == [stake : Nat, status : NodeStatus, metadata : NodeMetadata]
NotRegistered ==
    [stake |-> 0, status |-> "NotRegistered",
     metadata |-> [uptime_commitment |-> 0, region_len |-> 0]]

StakeEntry == [amount : Nat, unlocks_at : Nat]
NoLock == [amount |-> 0, unlocks_at |-> 0]

Registered(n) == nodes[n].status # "NotRegistered"
Pending(n) == locks[n] # NoLock
Staked(n) == nodes[n].stake
Locked(n) == locks[n].amount

\* seized: forfeited by slash.  replaced: pending unstakes that a later unstake
\* wrote over.  unstaked_at: when the node last called unstake.
History == [seized : Nat, replaced : Nat, unstaked_at : Nat]

TypeOK ==
    /\ config \in Config
    /\ token_set \in BOOLEAN
    /\ nodes \in [Nodes -> RelayNode]
    /\ locks \in [Nodes -> StakeEntry]
    /\ node_count \in Nat
    /\ now \in 0 .. MaxU64
    /\ tokens \in [Holders -> Nat]
    /\ signers \in SUBSET Accounts
    /\ history \in [Nodes -> History]

Init ==
    /\ config = NoConfig
    /\ token_set = FALSE
    /\ nodes = [n \in Nodes |-> NotRegistered]
    /\ locks = [n \in Nodes |-> NoLock]
    /\ node_count = 0
    /\ now = 0
    /\ tokens = InitialTokens
    /\ signers = {}
    /\ history = [n \in Nodes |-> [seized |-> 0, replaced |-> 0, unstaked_at |-> 0]]

-----------------------------------------------------------------------------
(* Steps that several entry points share.                                   *)

Initialized == config.council # NoCouncil
ValidUptime(m) == m.uptime_commitment <= 100

\* checked_add on i128, and on the u64 timestamp.
AddFits(a, b) == a + b <= MaxI128
TimeFits(t, period) == t + period <= MaxU64

\* Seeded faults: one token more than there is can be unstaked; promotion one
\* token early; a demotion that is left out; the lock counted from time zero.
HasAllButOne(n, amount) == amount <= nodes[n].stake + 1
PromoteEarly(status, stake) == IF stake + 1 >= config.min_stake THEN "Active" ELSE status
NeverDemote(status, stake) == status
LockFromZero(period) == period

\* The InsufficientStake check.
HasStaked(n, amount) == amount <= nodes[n].stake

\* stake promotes and never demotes; unstake demotes and never promotes.
Promoted(status, stake) == IF stake >= config.min_stake THEN "Active" ELSE status
Demoted(status, stake) == IF stake < config.min_stake THEN "Inactive" ELSE status

Restaked(node, total, status) == [node EXCEPT !.stake = total, !.status = status]

UnlockAfter(period) == now + period

-----------------------------------------------------------------------------
(* The entry points.                                                        *)

\* Nobody has to sign.  The node count is reset, whoever registered before.
initialize(c, minStake, period) ==
    /\ ~Initialized
    /\ minStake > 0
    /\ period # 0
    /\ ValidCouncil(c)
    /\ config' = [council |-> c, min_stake |-> minStake, stake_lock_period |-> period]
    /\ node_count' = 0
    /\ signers' = {}
    /\ UNCHANGED <<token_set, nodes, locks, now, tokens, history>>

\* No entry point writes the token address.  The repository's tests write it
\* from outside, into the storage of an initialized contract.
set_token_address ==
    /\ Initialized
    /\ token_set' = TRUE
    /\ signers' = {}
    /\ UNCHANGED <<config, nodes, locks, node_count, now, tokens, history>>

\* Seeded fault: an existing node is registered over.
RegisterAgain(n) == TRUE
CanRegister(n) == ~Registered(n)

\* Also possible before initialize; the region's length is not looked at.
register(n, m) ==
    /\ CanRegister(n)
    /\ ValidUptime(m)
    /\ nodes' = [nodes EXCEPT ![n] = [stake |-> 0, status |-> "Inactive", metadata |-> m]]
    /\ node_count' = node_count + 1
    /\ signers' = {n}
    /\ UNCHANGED <<config, token_set, locks, now, tokens, history>>

update_metadata(n, m) ==
    /\ Registered(n)
    /\ ValidUptime(m) /\ m.region_len <= 32
    /\ nodes' = [nodes EXCEPT ![n].metadata = m]
    /\ signers' = {n}
    /\ UNCHANGED <<config, token_set, locks, node_count, now, tokens, history>>

stake(n, amount) ==
    /\ Registered(n)
    /\ nodes[n].status # "Slashed"
    /\ amount > 0
    /\ AddFits(nodes[n].stake, amount)
    /\ token_set
    /\ CanTransfer(tokens, n, amount)
    /\ tokens' = Transfer(tokens, n, RegistryAddr, amount)
    /\ LET total == nodes[n].stake + amount IN
          nodes' = [nodes EXCEPT ![n] = Restaked(@, total, Promoted(@.status, total))]
    /\ signers' = {n}
    /\ UNCHANGED <<config, token_set, locks, node_count, now, history>>

\* set_lock_entry writes the only entry the node has: one that was pending is
\* gone, and its tokens with it.
SetLockEntry(n, amount) ==
    /\ locks' = [locks EXCEPT ![n] =
                    [amount |-> amount, unlocks_at |-> UnlockAfter(config.stake_lock_period)]]
    /\ history' = [history EXCEPT ![n] =
                      [seized |-> @.seized, replaced |-> @.replaced + Locked(n),
                       unstaked_at |-> now]]

unstake(n, amount) ==
    /\ amount > 0
    /\ Registered(n)
    /\ nodes[n].status = "Active"
    /\ TimeFits(now, config.stake_lock_period)
    /\ HasStaked(n, amount)
    /\ LET rest == nodes[n].stake - amount IN
          nodes' = [nodes EXCEPT ![n] = Restaked(@, rest, Demoted(@.status, rest))]
    /\ SetLockEntry(n, amount)
    /\ signers' = {n}
    /\ UNCHANGED <<config, token_set, node_count, now, tokens>>

\* Seeded fault: the entry survives its own payment.
KeepLockEntry(n) == locks' = locks
RemoveLockEntry(n) == locks' = [locks EXCEPT ![n] = NoLock]

\* No look at the node's status.
finalize_unstake(n) ==
    /\ Pending(n)
    /\ now >= locks[n].unlocks_at
    /\ RemoveLockEntry(n)
    /\ token_set
    /\ CanTransfer(tokens, RegistryAddr, locks[n].amount)
    /\ tokens' = Transfer(tokens, RegistryAddr, n, locks[n].amount)
    /\ signers' = {n}
    /\ UNCHANGED <<config, token_set, nodes, node_count, now, history>>

\* Seeded fault: the pending unstake is out of slash's reach.
SeizeStakeOnly(n) ==
    /\ locks' = locks
    /\ history' = [history EXCEPT ![n].seized = @ + nodes[n].stake]

\* The pending unstake, if any, is taken with the stake.
Seize(n) ==
    /\ AddFits(nodes[n].stake, Locked(n))
    /\ locks' = [locks EXCEPT ![n] = NoLock]
    /\ history' = [history EXCEPT ![n].seized = @ + nodes[n].stake + Locked(n)]

\* The seized tokens stay on the registry's account: no transfer is made.
slash(auth, n) ==
    /\ RequireCouncilAuth(config.council, auth)
    /\ Registered(n)
    /\ nodes[n].status # "Slashed"
    /\ nodes' = [nodes EXCEPT ![n] = Restaked(@, 0, "Slashed")]
    /\ Seize(n)
    /\ signers' = auth
    /\ UNCHANGED <<config, token_set, node_count, now, tokens>>

reinstate_node(auth, n) ==
    /\ RequireCouncilAuth(config.council, auth)
    /\ Registered(n)
    /\ nodes[n].status = "Slashed"
    /\ nodes' = [nodes EXCEPT ![n].status = "Inactive"]
    /\ signers' = auth
    /\ UNCHANGED <<config, token_set, locks, node_count, now, tokens, history>>

is_active(n) == Registered(n) /\ nodes[n].status = "Active"

\* A ledger closes and the timestamp advances.
CloseLedger ==
    /\ TimeFits(now, CloseTime)
    /\ now' = now + CloseTime
    /\ signers' = {}
    /\ UNCHANGED <<config, token_set, nodes, locks, node_count, tokens, history>>

Next ==
    \/ \E c \in Councils, minStake \in MinStakes, period \in LockPeriods :
          initialize(c, minStake, period)
    \/ set_token_address
    \/ \E n \in Nodes, m \in Metadata : register(n, m)
    \/ \E n \in Nodes, m \in Metadata : update_metadata(n, m)
    \/ \E n \in Nodes, amount \in Amounts : stake(n, amount)
    \/ \E n \in Nodes, amount \in Amounts : unstake(n, amount)
    \/ \E n \in Nodes : finalize_unstake(n)
    \/ \E auth \in SUBSET Accounts, n \in Nodes : slash(auth, n)
    \/ \E auth \in SUBSET Accounts, n \in Nodes : reinstate_node(auth, n)
    \/ CloseLedger

Spec == Init /\ [][Next]_vars

\* Time goes on, and a node that waits for its tokens keeps calling
\* finalize_unstake until the call succeeds.
FairSpec == Spec /\ WF_vars(CloseLedger) /\ \A n \in Nodes : WF_vars(finalize_unstake(n))

-----------------------------------------------------------------------------
(* Properties.                                                              *)

\* Every token a node ever had is in its wallet, staked, pending, seized by a
\* slash or in a pending unstake that a later one replaced: no call pays a node
\* twice, or pays it with another node's tokens.
NodeAccounting ==
    \A n \in Nodes :
        tokens[n] + Staked(n) + Locked(n) + history[n].seized + history[n].replaced
            = InitialTokens[n]

\* The registry's account covers all stakes and pending unstakes together, so
\* no finalize_unstake can trap for want of tokens.
Holdings == [n \in Nodes |-> Staked(n) + Locked(n)]
Custody == SumFunction(Holdings) <= tokens[RegistryAddr]

\* A node that is not slashed is Active exactly when its stake has reached the
\* minimum, through every order of stake, unstake, slash and reinstate.
ActiveIffStaked ==
    Initialized =>
        \A n \in Nodes : Registered(n) /\ nodes[n].status # "Slashed" =>
            (is_active(n) <=> nodes[n].stake >= config.min_stake)

\* Slashing reaches everything: a slashed node has no stake and no pending
\* unstake it could still finalize, and an unregistered address has none.
SlashedHoldsNothing ==
    \A n \in Nodes :
        /\ Registered(n) /\ nodes[n].status = "Slashed" => Staked(n) = 0 /\ ~Pending(n)
        /\ ~Registered(n) => ~Pending(n)

\* The node count never exceeds the number of registered nodes (it may fall
\* short of it: initialize resets it after earlier registrations).
CountNeverExceeds == node_count <= Cardinality({n \in Nodes : Registered(n)})

\* Tokens leave the registry only for one node, and only when a whole lock
\* period has passed since that node last called unstake.
NoEarlyRelease ==
    [][tokens'[RegistryAddr] < tokens[RegistryAddr] =>
          \E n \in Nodes :
              /\ tokens'[n] - tokens[n] = tokens[RegistryAddr] - tokens'[RegistryAddr]
              /\ now >= history[n].unstaked_at + config.stake_lock_period]_vars

\* What a node has at stake or pending shrinks, or its status changes, only in a
\* transaction signed by the node itself or by a quorum of the council.
ConsentOrQuorum ==
    [][\A n \in Nodes :
          \/ /\ Staked(n)' + Locked(n)' >= Staked(n) + Locked(n)
             /\ nodes'[n].status = nodes[n].status
          \/ n \in signers'
          \/ Quorum(config.council, signers')]_vars

\* A pending unstake is eventually paid out or seized.
UnlockEventually == \A n \in Nodes : Pending(n) ~> ~Pending(n)

\* Every node leads the documented life, in any interleaving: nobody washes off a
\* slash by registering, staking or unstaking, and stake leaves active nodes only.
Life(n) == INSTANCE NodeLifecycle WITH status <- nodes[n].status, bond <- nodes[n].stake,
              own <- n \in signers, approved <- Quorum(config.council, signers)
NodesLiveAsDocumented ==
    /\ \A n \in Nodes : Life(n)!Init
    /\ [][\A n \in Nodes : [Life(n)!Next]_(Life(n)!vars)]_vars

\* Documented: after unstake the tokens can be fetched with finalize_unstake
\* once the lock period is over.  So none may vanish from the pending entry.
UnstakedIsRecoverable == \A n \in Nodes : history[n].replaced = 0

\* Documented: the lock period is a number of ledgers that must pass between
\* unstake and the release of the tokens.
LedgerAt(time) == time \div CloseTime
LockLastsLedgers ==
    [][\A n \in Nodes : Pending(n) /\ tokens'[n] > tokens[n] =>
          LedgerAt(now) >= LedgerAt(history[n].unstaked_at) + config.stake_lock_period]_vars

\* Documented: NodeCount is the total number of registered relay nodes.
CountIsExact == node_count = Cardinality({n \in Nodes : Registered(n)})

=============================================================================
