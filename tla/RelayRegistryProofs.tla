------------------------ MODULE RelayRegistryProofs ------------------------
(* Type correctness of the relay registry, the invariant that ties status,  *)
(* stake and pending unstake of a node together, and what follows from it   *)
(* about accounting, slashing, the time lock and consent.                   *)
EXTENDS RelayRegistry, TokenLedgerProofs, AdminCouncilProofs, SumProofs

LEMMA NodeUpdate ==
    ASSUME nodes \in [Nodes -> RelayNode], NEW n \in Nodes, NEW r \in RelayNode
    PROVE  [nodes EXCEPT ![n] = r] \in [Nodes -> RelayNode]
  OBVIOUS

\* What stake, unstake and slash write is a node record.
LEMMA RestakedType ==
    ASSUME NEW node \in RelayNode, NEW total \in Nat, NEW status \in NodeStatus
    PROVE  Restaked(node, total, status) \in RelayNode
  BY DEF Restaked, RelayNode

\* Promotion and demotion yield a status.
LEMMA StatusType ==
    ASSUME NEW status \in NodeStatus, NEW total
    PROVE  Promoted(status, total) \in NodeStatus /\ Demoted(status, total) \in NodeStatus
  BY DEF Promoted, Demoted, NodeStatus

-----------------------------------------------------------------------------
(* Type correctness.                                                        *)

LEMMA TypeInit == Init => TypeOK
<1> SUFFICES ASSUME Init PROVE TypeOK
  OBVIOUS
<1>1. config \in Config
  BY DEF Init, NoConfig, Config, NoCouncil
<1>2. nodes \in [Nodes -> RelayNode]
  BY DEF Init, NotRegistered, RelayNode, NodeStatus, NodeMetadata
<1>3. locks \in [Nodes -> StakeEntry] /\ history \in [Nodes -> History]
  BY DEF Init, NoLock, StakeEntry, History
<1>4. tokens \in [Holders -> Nat] /\ node_count \in Nat /\ now \in 0 .. MaxU64
  BY RegistryAssumption DEF Init
<1>5. token_set \in BOOLEAN /\ signers \in SUBSET Accounts
  BY DEF Init
<1> QED  BY <1>1, <1>2, <1>3, <1>4, <1>5 DEF TypeOK

LEMMA TypeStep == TypeOK /\ [Next]_vars => TypeOK'
<1> SUFFICES ASSUME TypeOK, [Next]_vars PROVE TypeOK'
  OBVIOUS
<1> USE RegistryAssumption
<1>0. /\ nodes \in [Nodes -> RelayNode] /\ locks \in [Nodes -> StakeEntry]
      /\ history \in [Nodes -> History] /\ tokens \in [Holders -> Nat]
      /\ RegistryAddr \in Holders /\ Nodes \subseteq Holders /\ Nodes \subseteq Accounts
  BY DEF TypeOK, Holders, Accounts
<1>1. CASE UNCHANGED vars
  BY <1>1 DEF vars, TypeOK
<1>2. ASSUME NEW c \in Councils, NEW minStake \in MinStakes, NEW period \in LockPeriods,
             initialize(c, minStake, period)
      PROVE  TypeOK'
  <2>1. c \in [members : Seq(Accounts), threshold : Nat]
    OBVIOUS
  <2>2. minStake \in Nat /\ period \in Nat
    BY <1>2 DEF initialize
  <2>3. config' \in Config
    BY <1>2, <2>1, <2>2 DEF initialize, Config
  <2> QED  BY <1>2, <2>3 DEF initialize, TypeOK
<1>3. ASSUME set_token_address PROVE TypeOK'
  BY <1>3 DEF set_token_address, TypeOK
<1>4. ASSUME NEW n \in Nodes, NEW m \in Metadata, register(n, m) PROVE TypeOK'
  <2>1. m \in NodeMetadata
    BY <1>4 DEF NodeMetadata
  <2>2. [stake |-> 0, status |-> "Inactive", metadata |-> m] \in RelayNode
    BY <2>1 DEF RelayNode, NodeStatus
  <2>3. nodes' \in [Nodes -> RelayNode]
    BY <1>4, <1>0, <2>2, NodeUpdate DEF register
  <2> QED  BY <1>4, <1>0, <2>3 DEF register, TypeOK
<1>5. ASSUME NEW n \in Nodes, NEW m \in Metadata, update_metadata(n, m) PROVE TypeOK'
  <2>1. m \in NodeMetadata
    BY <1>5 DEF NodeMetadata
  <2>2. [nodes[n] EXCEPT !.metadata = m] \in RelayNode
    <3>1. nodes[n] \in RelayNode
      BY <1>0
    <3> QED  BY <2>1, <3>1 DEF RelayNode
  <2>3. nodes' \in [Nodes -> RelayNode]
    BY <1>5, <1>0, <2>2, NodeUpdate DEF update_metadata
  <2> QED  BY <1>5, <1>0, <2>3 DEF update_metadata, TypeOK
<1>6. ASSUME NEW n \in Nodes, NEW amount \in Amounts, stake(n, amount) PROVE TypeOK'
  <2>1. amount \in Int /\ amount > 0 /\ CanTransfer(tokens, n, amount)
    BY <1>6 DEF stake
  <2>2. nodes[n].stake \in Nat /\ nodes[n].status \in NodeStatus
    BY <1>0 DEF RelayNode
  <2>3. nodes' \in [Nodes -> RelayNode]
    BY <1>6, <1>0, <2>1, <2>2, StatusType, RestakedType DEF stake
  <2>4. tokens' \in [Holders -> Nat]
    BY <1>6, <1>0, <2>1, TransferType DEF stake
  <2> QED  BY <1>6, <1>0, <2>3, <2>4 DEF stake, TypeOK
<1>7. ASSUME NEW n \in Nodes, NEW amount \in Amounts, unstake(n, amount) PROVE TypeOK'
  <2>1. amount \in Int /\ amount > 0 /\ amount <= nodes[n].stake
    BY <1>7 DEF unstake, HasStaked
  <2>2. nodes[n].stake \in Nat /\ nodes[n].status \in NodeStatus /\ Locked(n) \in Nat
    BY <1>0 DEF RelayNode, StakeEntry, Locked
  <2>3. nodes' \in [Nodes -> RelayNode]
    BY <1>7, <1>0, <2>1, <2>2, StatusType, RestakedType DEF unstake
  <2>4. config.stake_lock_period \in Nat /\ now \in Nat
    BY DEF TypeOK, Config
  <2>5. [amount |-> amount, unlocks_at |-> UnlockAfter(config.stake_lock_period)] \in StakeEntry
    BY <2>1, <2>4 DEF StakeEntry, UnlockAfter
  <2>6. locks' \in [Nodes -> StakeEntry]
    BY <1>7, <1>0, <2>5 DEF unstake, SetLockEntry
  <2>7. history' \in [Nodes -> History]
    <3> DEFINE r == [seized |-> history[n].seized, unstaked_at |-> now,
                     replaced |-> history[n].replaced + Locked(n)]
    <3>1. history' = [history EXCEPT ![n] = r]
      BY <1>7 DEF unstake, SetLockEntry
    <3>2. history[n].seized \in Nat /\ history[n].replaced \in Nat
      BY <1>0 DEF History
    <3>3. r \in History
      BY <2>2, <2>4, <3>2 DEF History
    <3> HIDE DEF r
    <3> QED  BY <1>0, <3>1, <3>3
  <2> QED  BY <1>7, <1>0, <2>3, <2>6, <2>7 DEF unstake, TypeOK
<1>8. ASSUME NEW n \in Nodes, finalize_unstake(n) PROVE TypeOK'
  <2>1. locks' \in [Nodes -> StakeEntry]
    BY <1>8, <1>0 DEF finalize_unstake, RemoveLockEntry, NoLock, StakeEntry
  <2>2. locks[n].amount \in Int
    BY <1>0 DEF StakeEntry
  <2>3. tokens' \in [Holders -> Nat]
    BY <1>8, <1>0, <2>2, TransferType DEF finalize_unstake
  <2> QED  BY <1>8, <1>0, <2>1, <2>3 DEF finalize_unstake, TypeOK
<1>9. ASSUME NEW auth \in SUBSET Accounts, NEW n \in Nodes, slash(auth, n) PROVE TypeOK'
  <2>1. nodes' \in [Nodes -> RelayNode]
    BY <1>9, <1>0, RestakedType DEF slash, NodeStatus
  <2>2. locks' \in [Nodes -> StakeEntry]
    BY <1>9, <1>0 DEF slash, Seize, NoLock, StakeEntry
  <2>3. history[n].seized + nodes[n].stake + Locked(n) \in Nat
    BY <1>0 DEF History, RelayNode, StakeEntry, Locked
  <2>4. history' \in [Nodes -> History]
    BY <1>9, <1>0, <2>3 DEF slash, Seize, History
  <2> QED  BY <1>9, <1>0, <2>1, <2>2, <2>4 DEF slash, TypeOK
<1>10. ASSUME NEW auth \in SUBSET Accounts, NEW n \in Nodes, reinstate_node(auth, n)
       PROVE  TypeOK'
  <2>1. nodes' \in [Nodes -> RelayNode]
    BY <1>10, <1>0 DEF reinstate_node, RelayNode, NodeStatus
  <2> QED  BY <1>10, <1>0, <2>1 DEF reinstate_node, TypeOK
<1>11. ASSUME CloseLedger PROVE TypeOK'
  BY <1>11 DEF CloseLedger, TimeFits, TypeOK
<1> QED
  BY <1>1, <1>2, <1>3, <1>4, <1>5, <1>6, <1>7, <1>8, <1>9, <1>10, <1>11 DEF Next

\* The registry's storage keeps its types through every entry point, whatever
\* the arguments and the councils (all of relay-registry/src/lib.rs).
THEOREM TypeCorrect == Spec => []TypeOK
  BY TypeInit, TypeStep, PTL DEF Spec

-----------------------------------------------------------------------------
(* The invariant on a node's standing.                                      *)

\* Status, stake and pending unstake of one node, and the configuration they
\* were made under.
Standing(n) ==
    /\ nodes[n].status \in {"NotRegistered", "Slashed"} => nodes[n].stake = 0 /\ ~Pending(n)
    /\ Pending(n) =>
          /\ Initialized
          /\ locks[n].unlocks_at = history[n].unstaked_at + config.stake_lock_period
    /\ Initialized /\ nodes[n].status \in {"Active", "Inactive"} =>
          (nodes[n].status = "Active" <=> nodes[n].stake >= config.min_stake)
    /\ ~Initialized => nodes[n].stake = 0 /\ nodes[n].status # "Active"

Configured ==
    /\ Initialized => config.min_stake > 0
    /\ token_set => Initialized

Standings == Configured /\ \A n \in Nodes : Standing(n)

LEMMA StandingsInit == Init => Standings
  BY DEF Init, Standings, Configured, Standing, Initialized, Pending, NoConfig, NotRegistered

\* A node that a step does not touch keeps its standing.
LEMMA StandingKept ==
    ASSUME NEW m \in Nodes, Standing(m), config' = config, nodes'[m] = nodes[m],
           locks'[m] = locks[m], history'[m] = history[m]
    PROVE  Standing(m)'
  BY DEF Standing, Initialized, Pending

LEMMA StandingsStep == TypeOK /\ Standings /\ [Next]_vars => Standings'
<1> SUFFICES ASSUME TypeOK, Standings, [Next]_vars PROVE Standings'
  OBVIOUS
<1> USE RegistryAssumption
<1>0. /\ nodes \in [Nodes -> RelayNode] /\ locks \in [Nodes -> StakeEntry]
      /\ history \in [Nodes -> History] /\ now \in Nat /\ config \in Config
      /\ \A m \in Nodes : Standing(m)
  BY DEF TypeOK, Standings
<1>a. ASSUME config' = config, token_set => token_set', token_set' => Initialized
      PROVE  Configured'
  BY <1>a DEF Configured, Standings, Initialized
<1>b. token_set => Initialized
  BY DEF Standings, Configured
<1>1. CASE UNCHANGED vars
  <2>1. \A m \in Nodes : Standing(m)'
    BY <1>1, <1>0, StandingKept DEF vars
  <2> QED  BY <1>1, <1>a, <1>b, <2>1 DEF Standings, vars
<1>2. ASSUME NEW c \in Councils, NEW minStake \in MinStakes, NEW period \in LockPeriods,
             initialize(c, minStake, period)
      PROVE  Standings'
  <2>1. /\ config' = [council |-> c, min_stake |-> minStake, stake_lock_period |-> period]
        /\ minStake > 0 /\ nodes' = nodes /\ locks' = locks
        /\ token_set' = token_set /\ ~Initialized
    BY <1>2 DEF initialize
  <2>a. c # NoCouncil
    BY <1>2 DEF initialize, ValidCouncil, NoCouncil
  <2>2. Initialized' /\ config'.min_stake = minStake /\ minStake \in Int
    BY <2>1, <2>a DEF Initialized
  <2>3. ASSUME NEW m \in Nodes PROVE Standing(m)'
    <3>1. Standing(m) /\ nodes[m] \in RelayNode
      BY <1>0
    <3>2. nodes[m].stake = 0 /\ nodes[m].status # "Active" /\ ~Pending(m)
      BY <3>1, <2>1 DEF Standing
    <3> QED  BY <3>2, <2>1, <2>2 DEF Standing, Pending
  <2> QED  BY <2>1, <2>2, <2>3 DEF Standings, Configured
<1>3. ASSUME set_token_address PROVE Standings'
  <2>1. \A m \in Nodes : Standing(m)'
    BY <1>3, <1>0, StandingKept DEF set_token_address
  <2> QED  BY <1>3, <1>a, <2>1 DEF Standings, set_token_address
<1>4. ASSUME NEW n \in Nodes, NEW m \in Metadata, register(n, m) PROVE Standings'
  <2>1. /\ config' = config /\ locks' = locks /\ history' = history
        /\ token_set' = token_set /\ nodes[n].status = "NotRegistered"
        /\ nodes'[n].stake = 0 /\ nodes'[n].status = "Inactive"
        /\ \A o \in Nodes \ {n} : nodes'[o] = nodes[o]
    BY <1>4, <1>0 DEF register, CanRegister, Registered
  <2>2. Standing(n) /\ Configured
    BY <1>0 DEF Standings
  <2>3. config.min_stake \in Nat
    BY <1>0 DEF Config
  <2>4. Standing(n)'
    BY <2>1, <2>2, <2>3 DEF Standing, Configured, Initialized, Pending
  <2>5. \A o \in Nodes : Standing(o)'
    BY <2>1, <2>4, <1>0, StandingKept
  <2> QED  BY <2>1, <2>5, <1>a, <1>b DEF Standings
<1>5. ASSUME NEW n \in Nodes, NEW m \in Metadata, update_metadata(n, m) PROVE Standings'
  <2>1. /\ config' = config /\ locks' = locks /\ history' = history
        /\ token_set' = token_set
        /\ nodes'[n].stake = nodes[n].stake /\ nodes'[n].status = nodes[n].status
        /\ \A o \in Nodes \ {n} : nodes'[o] = nodes[o]
    <3>1. nodes[n] \in RelayNode
      BY <1>0
    <3> QED  BY <1>5, <1>0, <3>1 DEF update_metadata, RelayNode
  <2>2. Standing(n)
    BY <1>0
  <2>3. Standing(n)'
    BY <2>1, <2>2 DEF Standing, Initialized, Pending
  <2>4. \A o \in Nodes : Standing(o)'
    BY <2>1, <2>3, <1>0, StandingKept
  <2> QED  BY <2>1, <2>4, <1>a, <1>b DEF Standings
<1>6. ASSUME NEW n \in Nodes, NEW amount \in Amounts, stake(n, amount) PROVE Standings'
  <2> DEFINE total == nodes[n].stake + amount
  <2>0. nodes[n] \in RelayNode /\ nodes[n].stake \in Nat /\ config.min_stake \in Nat
    BY <1>0 DEF RelayNode, Config
  <2>1. /\ config' = config /\ locks' = locks /\ history' = history
        /\ token_set' = token_set /\ token_set /\ amount > 0 /\ amount \in Int
        /\ nodes[n].status \notin {"NotRegistered", "Slashed"}
        /\ nodes' = [nodes EXCEPT ![n] = Restaked(nodes[n], total, Promoted(nodes[n].status, total))]
    BY <1>6 DEF stake, Registered
  <2>2. /\ nodes'[n].stake = total /\ nodes'[n].status = Promoted(nodes[n].status, total)
        /\ \A o \in Nodes \ {n} : nodes'[o] = nodes[o]
    BY <2>1, <2>0, <1>0 DEF Restaked, RelayNode
  <2>3. Standing(n) /\ nodes[n].status \in {"Active", "Inactive"} /\ Initialized
    BY <2>0, <2>1, <1>0, <1>b DEF RelayNode, NodeStatus
  <2>4. Standing(n)'
    BY <2>0, <2>1, <2>2, <2>3 DEF Standing, Promoted, Initialized, Pending
  <2>5. \A o \in Nodes : Standing(o)'
    BY <2>1, <2>2, <2>4, <1>0, StandingKept
  <2> QED  BY <2>1, <2>5, <1>a, <1>b DEF Standings
<1>7. ASSUME NEW n \in Nodes, NEW amount \in Amounts, unstake(n, amount) PROVE Standings'
  <2> DEFINE rest == nodes[n].stake - amount
  <2>0. /\ nodes[n] \in RelayNode /\ nodes[n].stake \in Nat /\ config.min_stake \in Nat
        /\ config.stake_lock_period \in Nat
    BY <1>0 DEF RelayNode, Config
  <2>1. /\ config' = config /\ token_set' = token_set
        /\ amount > 0 /\ amount \in Int /\ amount <= nodes[n].stake
        /\ nodes[n].status = "Active" /\ SetLockEntry(n, amount)
        /\ nodes' = [nodes EXCEPT ![n] = Restaked(nodes[n], rest, Demoted(nodes[n].status, rest))]
    BY <1>7 DEF unstake, HasStaked
  <2>2. /\ nodes'[n].stake = rest /\ nodes'[n].status = Demoted("Active", rest)
        /\ \A o \in Nodes \ {n} : nodes'[o] = nodes[o]
    BY <2>1, <2>0, <1>0 DEF Restaked, RelayNode
  <2>3. /\ locks'[n].unlocks_at = now + config.stake_lock_period
        /\ history'[n].unstaked_at = now
        /\ \A o \in Nodes \ {n} : locks'[o] = locks[o] /\ history'[o] = history[o]
    BY <2>1, <1>0 DEF SetLockEntry, UnlockAfter
  <2>4. Standing(n) /\ Initialized
    BY <2>1, <1>0 DEF Standing
  <2>5. Standing(n)'
    BY <2>0, <2>1, <2>2, <2>3, <2>4 DEF Standing, Demoted, Initialized, Pending
  <2>6. \A o \in Nodes : Standing(o)'
    BY <2>1, <2>2, <2>3, <2>5, <1>0, StandingKept
  <2> QED  BY <2>1, <2>6, <1>a, <1>b DEF Standings
<1>8. ASSUME NEW n \in Nodes, finalize_unstake(n) PROVE Standings'
  <2>1. /\ config' = config /\ token_set' = token_set /\ nodes' = nodes /\ history' = history
        /\ locks'[n] = NoLock /\ \A o \in Nodes \ {n} : locks'[o] = locks[o]
    BY <1>8, <1>0 DEF finalize_unstake, RemoveLockEntry
  <2>2. Standing(n)
    BY <1>0
  <2>3. Standing(n)'
    BY <2>1, <2>2 DEF Standing, Initialized, Pending
  <2>4. \A o \in Nodes : Standing(o)'
    BY <2>1, <2>3, <1>0, StandingKept
  <2> QED  BY <2>1, <2>4, <1>a, <1>b DEF Standings
<1>9. ASSUME NEW auth \in SUBSET Accounts, NEW n \in Nodes, slash(auth, n) PROVE Standings'
  <2>0. nodes[n] \in RelayNode
    BY <1>0
  <2>1. /\ config' = config /\ token_set' = token_set /\ config.council # NoCouncil
        /\ nodes' = [nodes EXCEPT ![n] = Restaked(nodes[n], 0, "Slashed")]
        /\ Seize(n)
    BY <1>9 DEF slash, RequireCouncilAuth
  <2>2. /\ nodes'[n].stake = 0 /\ nodes'[n].status = "Slashed"
        /\ \A o \in Nodes \ {n} : nodes'[o] = nodes[o]
    BY <2>1, <2>0, <1>0 DEF Restaked, RelayNode
  <2>3. /\ locks'[n] = NoLock
        /\ \A o \in Nodes \ {n} : locks'[o] = locks[o] /\ history'[o] = history[o]
    BY <2>1, <1>0 DEF Seize
  <2>4. Standing(n)'
    BY <2>1, <2>2, <2>3 DEF Standing, Initialized, Pending
  <2>5. \A o \in Nodes : Standing(o)'
    BY <2>1, <2>2, <2>3, <2>4, <1>0, StandingKept
  <2> QED  BY <2>1, <2>5, <1>a, <1>b DEF Standings
<1>10. ASSUME NEW auth \in SUBSET Accounts, NEW n \in Nodes, reinstate_node(auth, n)
       PROVE  Standings'
  <2>0. nodes[n] \in RelayNode /\ config.min_stake \in Nat /\ Configured /\ Standing(n)
    BY <1>0 DEF Config, Standings
  <2>1. /\ config' = config /\ token_set' = token_set /\ locks' = locks /\ history' = history
        /\ nodes[n].status = "Slashed"
        /\ nodes'[n].stake = nodes[n].stake /\ nodes'[n].status = "Inactive"
        /\ \A o \in Nodes \ {n} : nodes'[o] = nodes[o]
    BY <1>10, <1>0, <2>0 DEF reinstate_node, RelayNode
  <2>2. Standing(n)'
    BY <2>0, <2>1 DEF Standing, Configured, Initialized, Pending
  <2>3. \A o \in Nodes : Standing(o)'
    BY <2>1, <2>2, <1>0, StandingKept
  <2> QED  BY <2>1, <2>3, <1>a, <1>b DEF Standings
<1>11. ASSUME CloseLedger PROVE Standings'
  <2>1. \A m \in Nodes : Standing(m)'
    BY <1>11, <1>0, StandingKept DEF CloseLedger
  <2> QED  BY <1>11, <1>a, <1>b, <2>1 DEF Standings, CloseLedger
<1> QED
  BY <1>1, <1>2, <1>3, <1>4, <1>5, <1>6, <1>7, <1>8, <1>9, <1>10, <1>11 DEF Next

LEMMA StandingsHold == Spec => [](TypeOK /\ Standings)
  BY TypeInit, TypeStep, StandingsInit, StandingsStep, PTL DEF Spec

\* A node that is not slashed is Active exactly when its stake has reached the
\* minimum (the promotion of stake, the demotion of unstake, and the resets of
\* slash, reinstate_node and initialize together).
THEOREM ActiveMeansStaked == Spec => []ActiveIffStaked
<1>1. TypeOK /\ Standings => ActiveIffStaked
  BY DEF TypeOK, Standings, Standing, ActiveIffStaked, is_active, Registered, RelayNode,
         NodeStatus
<1> QED  BY <1>1, StandingsHold, PTL

\* A slashed node keeps neither stake nor a pending unstake, whichever of slash
\* and unstake came first.
THEOREM SlashIsComplete == Spec => []SlashedHoldsNothing
<1>1. Standings => SlashedHoldsNothing
  BY DEF Standings, Standing, SlashedHoldsNothing, Registered, Staked
<1> QED  BY <1>1, StandingsHold, PTL

-----------------------------------------------------------------------------
(* Every token is accounted for.                                            *)

Account(n) == tokens[n] + nodes[n].stake + locks[n].amount
                 + history[n].seized + history[n].replaced

\* A step that touches nothing of a node leaves its account as it was.
LEMMA AccountKept ==
    ASSUME NEW m \in Nodes, tokens'[m] = tokens[m], nodes'[m].stake = nodes[m].stake,
           locks'[m] = locks[m], history'[m] = history[m]
    PROVE  Account(m)' = Account(m)
  BY DEF Account

LEMMA AccountStep ==
    ASSUME TypeOK, Standings, [Next]_vars, NEW m \in Nodes
    PROVE  Account(m)' = Account(m)
<1> USE RegistryAssumption
<1>0. /\ nodes \in [Nodes -> RelayNode] /\ locks \in [Nodes -> StakeEntry]
      /\ history \in [Nodes -> History] /\ tokens \in [Holders -> Nat]
      /\ RegistryAddr \in Holders /\ Nodes \subseteq Holders
      /\ \A n \in Nodes : Standing(n)
  BY DEF TypeOK, Standings, Holders
<1>n. \A n \in Nodes : n # RegistryAddr
  OBVIOUS
<1>m. /\ tokens[m] \in Nat /\ nodes[m].stake \in Nat /\ locks[m].amount \in Nat
      /\ history[m].seized \in Nat /\ history[m].replaced \in Nat
  BY <1>0 DEF RelayNode, StakeEntry, History
<1>1. CASE /\ UNCHANGED <<nodes, locks, tokens, history>>
  BY <1>1, AccountKept
<1>2. ASSUME NEW n \in Nodes, NEW d \in Metadata, register(n, d)
      PROVE  Account(m)' = Account(m)
  <2>1. nodes[n].stake = 0
    BY <1>0, <1>2 DEF register, CanRegister, Registered, Standing
  <2>2. nodes'[m].stake = nodes[m].stake
    BY <1>0, <1>2, <2>1 DEF register
  <2> QED  BY <1>2, <2>2, AccountKept DEF register
<1>3. ASSUME NEW n \in Nodes, NEW d \in Metadata, update_metadata(n, d)
      PROVE  Account(m)' = Account(m)
  <2>1. nodes[m] \in RelayNode
    BY <1>0
  <2>2. nodes'[m].stake = nodes[m].stake
    BY <1>0, <1>3, <2>1 DEF update_metadata, RelayNode
  <2> QED  BY <1>3, <2>2, AccountKept DEF update_metadata
<1>4. ASSUME NEW n \in Nodes, NEW amount \in Amounts, stake(n, amount)
      PROVE  Account(m)' = Account(m)
  <2>1. /\ amount \in Int /\ n \in Holders /\ n # RegistryAddr
        /\ locks' = locks /\ history' = history
        /\ tokens' = Transfer(tokens, n, RegistryAddr, amount)
    BY <1>4, <1>0, <1>n DEF stake
  <2> DEFINE after == Transfer(tokens, n, RegistryAddr, amount)
  <2>a. /\ after[n] = tokens[n] - amount
        /\ \A h \in Holders \ {n, RegistryAddr} : after[h] = tokens[h]
    <3>1. /\ tokens \in [Holders -> Nat] /\ n \in Holders /\ RegistryAddr \in Holders
          /\ amount \in Int /\ n # RegistryAddr
      BY <2>1, <1>0
    <3> QED  BY <3>1 DEF Transfer
  <2>2. /\ tokens'[n] = tokens[n] - amount
        /\ \A h \in Holders \ {n, RegistryAddr} : tokens'[h] = tokens[h]
    BY <2>1, <2>a
  <2>3. nodes[n] \in RelayNode
    BY <1>0
  <2>4. /\ nodes'[n].stake = nodes[n].stake + amount
        /\ \A o \in Nodes \ {n} : nodes'[o] = nodes[o]
    BY <1>4, <1>0, <2>3 DEF stake, Restaked, RelayNode
  <2>5. CASE m = n
    BY <2>1, <2>2, <2>4, <2>5, <1>m DEF Account
  <2>6. CASE m # n
    <3>1. tokens'[m] = tokens[m] /\ nodes'[m] = nodes[m]
      BY <2>2, <2>4, <2>6, <1>0, <1>n
    <3> QED  BY <2>1, <3>1, AccountKept
  <2> QED  BY <2>5, <2>6
<1>5. ASSUME NEW n \in Nodes, NEW amount \in Amounts, unstake(n, amount)
      PROVE  Account(m)' = Account(m)
  <2>1. amount \in Int /\ tokens' = tokens /\ SetLockEntry(n, amount)
    BY <1>5 DEF unstake, HasStaked
  <2>2. /\ locks'[n].amount = amount
        /\ history'[n].seized = history[n].seized
        /\ history'[n].replaced = history[n].replaced + locks[n].amount
        /\ \A o \in Nodes \ {n} : locks'[o] = locks[o] /\ history'[o] = history[o]
    BY <2>1, <1>0 DEF SetLockEntry, Locked
  <2>3. nodes[n] \in RelayNode
    BY <1>0
  <2>4. /\ nodes'[n].stake = nodes[n].stake - amount
        /\ \A o \in Nodes \ {n} : nodes'[o] = nodes[o]
    BY <1>5, <1>0, <2>3 DEF unstake, Restaked, RelayNode
  <2>5. CASE m = n
    <3>1. /\ tokens'[m] = tokens[m] /\ nodes'[m].stake = nodes[m].stake - amount
          /\ locks'[m].amount = amount /\ history'[m].seized = history[m].seized
          /\ history'[m].replaced = history[m].replaced + locks[m].amount
      BY <2>1, <2>2, <2>4, <2>5
    <3>2. Account(m)' = tokens[m] + (nodes[m].stake - amount) + amount
                        + history[m].seized + (history[m].replaced + locks[m].amount)
      BY <3>1 DEF Account
    <3>3. amount \in Int
      BY <2>1
    <3> QED  BY <3>2, <3>3, <1>m, SMTT(60) DEF Account
  <2>6. CASE m # n
    BY <2>1, <2>2, <2>4, <2>6, AccountKept
  <2> QED  BY <2>5, <2>6
<1>6. ASSUME NEW n \in Nodes, finalize_unstake(n) PROVE Account(m)' = Account(m)
  <2> DEFINE amount == locks[n].amount
  <2>1. /\ amount \in Int /\ n \in Holders /\ n # RegistryAddr
        /\ nodes' = nodes /\ history' = history
        /\ tokens' = Transfer(tokens, RegistryAddr, n, amount)
    BY <1>6, <1>0, <1>n DEF finalize_unstake, StakeEntry
  <2> DEFINE after == Transfer(tokens, RegistryAddr, n, amount)
  <2>a. /\ after[n] = tokens[n] + amount
        /\ \A h \in Holders \ {n, RegistryAddr} : after[h] = tokens[h]
    <3>1. /\ tokens \in [Holders -> Nat] /\ n \in Holders /\ RegistryAddr \in Holders
          /\ amount \in Int /\ n # RegistryAddr
      BY <2>1, <1>0
    <3> QED  BY <3>1 DEF Transfer
  <2>2. /\ tokens'[n] = tokens[n] + amount
        /\ \A h \in Holders \ {n, RegistryAddr} : tokens'[h] = tokens[h]
    BY <2>1, <2>a
  <2>3. locks'[n].amount = 0 /\ \A o \in Nodes \ {n} : locks'[o] = locks[o]
    BY <1>6, <1>0 DEF finalize_unstake, RemoveLockEntry, NoLock
  <2>4. CASE m = n
    <3>1. /\ tokens'[m] = tokens[m] + locks[m].amount /\ locks'[m].amount = 0
          /\ nodes'[m] = nodes[m] /\ history'[m] = history[m]
      BY <2>1, <2>2, <2>3, <2>4
    <3> QED  BY <3>1, <1>m DEF Account
  <2>5. CASE m # n
    <3>1. tokens'[m] = tokens[m] /\ locks'[m] = locks[m]
      BY <2>2, <2>3, <2>5, <1>0, <1>n
    <3> QED  BY <2>1, <3>1, AccountKept
  <2> QED  BY <2>4, <2>5
<1>7. ASSUME NEW auth \in SUBSET Accounts, NEW n \in Nodes, slash(auth, n)
      PROVE  Account(m)' = Account(m)
  <2>1. tokens' = tokens /\ Seize(n)
    BY <1>7 DEF slash
  <2>2. nodes[n] \in RelayNode /\ history[n] \in History
    BY <1>0
  <2>3. /\ locks'[n].amount = 0
        /\ history'[n].seized = history[n].seized + nodes[n].stake + locks[n].amount
        /\ history'[n].replaced = history[n].replaced
        /\ \A o \in Nodes \ {n} : locks'[o] = locks[o] /\ history'[o] = history[o]
    BY <2>1, <2>2, <1>0 DEF Seize, NoLock, Locked, History
  <2>4. nodes'[n].stake = 0 /\ \A o \in Nodes \ {n} : nodes'[o] = nodes[o]
    BY <1>7, <1>0, <2>2 DEF slash, Restaked, RelayNode
  <2>5. CASE m = n
    <3>1. /\ tokens'[m] = tokens[m] /\ nodes'[m].stake = 0 /\ locks'[m].amount = 0
          /\ history'[m].seized = history[m].seized + nodes[m].stake + locks[m].amount
          /\ history'[m].replaced = history[m].replaced
      BY <2>1, <2>3, <2>4, <2>5
    <3> QED  BY <3>1, <1>m DEF Account
  <2>6. CASE m # n
    BY <2>1, <2>3, <2>4, <2>6, AccountKept
  <2> QED  BY <2>5, <2>6
<1>8. ASSUME NEW auth \in SUBSET Accounts, NEW n \in Nodes, reinstate_node(auth, n)
      PROVE  Account(m)' = Account(m)
  <2>1. nodes[m] \in RelayNode
    BY <1>0
  <2>2. nodes'[m].stake = nodes[m].stake
    BY <1>0, <1>8, <2>1 DEF reinstate_node, RelayNode
  <2> QED  BY <1>8, <2>2, AccountKept DEF reinstate_node
<1> QED
  BY <1>1, <1>2, <1>3, <1>4, <1>5, <1>6, <1>7, <1>8
  DEF Next, vars, initialize, set_token_address, CloseLedger

\* No order of stake, unstake, finalize_unstake and slash creates or loses a
\* token of a node, or pays it with another node's: what it began with is in its
\* wallet, staked, pending, seized, or in an entry that unstake wrote over.
THEOREM TokensAreAccounted == Spec => []NodeAccounting
<1> DEFINE Inv == \A n \in Nodes : Account(n) = InitialTokens[n]
<1>1. Init => Inv
  <2> SUFFICES ASSUME Init, NEW n \in Nodes PROVE Account(n) = InitialTokens[n]
    OBVIOUS
  <2>1. /\ tokens[n] = InitialTokens[n] /\ nodes[n].stake = 0 /\ locks[n].amount = 0
        /\ history[n].seized = 0 /\ history[n].replaced = 0
    BY DEF Init, NotRegistered, NoLock
  <2>2. InitialTokens[n] \in Nat
    BY RegistryAssumption DEF Holders
  <2> QED  BY <2>1, <2>2 DEF Account
<1>2. TypeOK /\ Standings /\ Inv /\ [Next]_vars => Inv'
  <2> SUFFICES ASSUME TypeOK, Standings, Inv, [Next]_vars, NEW n \in Nodes
               PROVE  Account(n)' = InitialTokens[n]
    OBVIOUS
  <2> QED  BY AccountStep
<1>3. Inv => NodeAccounting
  BY DEF Account, NodeAccounting, Staked, Locked
<1> QED  BY <1>1, <1>2, <1>3, StandingsHold, PTL DEF Spec

-----------------------------------------------------------------------------
(* The registry's account covers what the nodes have in it.                 *)

\* A step that changes what one node has at stake and pending changes the sum
\* over all nodes by as much.
LEMMA HoldingsChange ==
    ASSUME TypeOK, TypeOK', NEW n \in Nodes, NEW d \in Int,
           Staked(n)' + Locked(n)' = Staked(n) + Locked(n) + d,
           \A o \in Nodes \ {n} : nodes'[o] = nodes[o] /\ locks'[o] = locks[o]
    PROVE  /\ SumFunction(Holdings) \in Int
           /\ SumFunction(Holdings)' = SumFunction(Holdings) + d
<1> DEFINE before == Holdings
           after == Holdings'
<1>1. /\ n \in DOMAIN before /\ DOMAIN after = DOMAIN before
      /\ IsFiniteSet(DOMAIN before)
  BY FiniteNodes DEF Holdings
<1>2. \A o \in Nodes : before[o] \in Int /\ after[o] \in Int
  BY DEF Holdings, Staked, Locked, TypeOK, RelayNode, StakeEntry
<1>3. \A o \in Nodes \ {n} : before[o] = after[o]
  BY DEF Holdings, Staked, Locked
<1>4. after[n] = before[n] + d
  BY DEF Holdings
<1>5. DOMAIN before = Nodes
  BY DEF Holdings
<1> HIDE DEF before, after
<1>6. /\ SumFunction(before) \in Int
      /\ SumFunction(after) = SumFunction(before) - before[n] + after[n]
  BY <1>1, <1>2, <1>3, <1>5, SumChange
<1>7. SumFunction(after) = SumFunction(before) + d
  BY <1>2, <1>4, <1>6
<1> QED  BY <1>6, <1>7 DEF before, after

LEMMA CustodyStep == TypeOK /\ Custody /\ [Next]_vars => Custody'
<1> SUFFICES ASSUME TypeOK, Custody, [Next]_vars PROVE Custody'
  OBVIOUS
<1> USE RegistryAssumption
<1> DEFINE held == tokens[RegistryAddr]
<1>0. /\ nodes \in [Nodes -> RelayNode] /\ locks \in [Nodes -> StakeEntry]
      /\ history \in [Nodes -> History] /\ tokens \in [Holders -> Nat]
      /\ RegistryAddr \in Holders /\ Nodes \subseteq Holders /\ held \in Nat
  BY DEF TypeOK, Holders
<1>n. \A n \in Nodes : n # RegistryAddr
  OBVIOUS
<1>s. \A n \in Nodes : Staked(n) \in Nat /\ Locked(n) \in Nat /\ nodes[n] \in RelayNode
  BY <1>0 DEF Staked, Locked, RelayNode, StakeEntry
<1>t. TypeOK'
  BY TypeStep
\* A step that moves d tokens into the registry and adds at most d to a node's.
<1>m. ASSUME NEW n \in Nodes, NEW d \in Int, NEW k \in Int, k <= d, held' = held + d,
             Staked(n)' + Locked(n)' = Staked(n) + Locked(n) + k,
             \A o \in Nodes \ {n} : nodes'[o] = nodes[o] /\ locks'[o] = locks[o]
      PROVE  Custody'
  <2>1. SumFunction(Holdings) \in Int /\ SumFunction(Holdings)' = SumFunction(Holdings) + k
    BY <1>m, <1>t, HoldingsChange
  <2> HIDE DEF held
  <2>2. SumFunction(Holdings)' <= held'
    BY <1>0, <1>m, <2>1 DEF Custody, held
  <2> QED  BY <2>2 DEF Custody, held
<1>1. CASE UNCHANGED <<nodes, locks, tokens>>
  BY <1>1 DEF Custody, Holdings, Staked, Locked
<1>2. ASSUME NEW n \in Nodes, NEW r \in RelayNode, nodes' = [nodes EXCEPT ![n] = r],
             r.stake = nodes[n].stake, locks' = locks, tokens' = tokens
      PROVE  Custody'
  <2>1. Holdings' = Holdings
    BY <1>0, <1>2 DEF Holdings, Staked, Locked
  <2> QED  BY <1>2, <2>1 DEF Custody
<1>3. ASSUME NEW n \in Nodes, NEW d \in Metadata, register(n, d) PROVE Custody'
  <2>1. /\ nodes'[n].stake = 0 /\ locks' = locks /\ tokens' = tokens
        /\ \A o \in Nodes \ {n} : nodes'[o] = nodes[o]
    BY <1>0, <1>3 DEF register
  <2>2. Staked(n)' + Locked(n)' = Staked(n) + Locked(n) + (0 - Staked(n))
    BY <2>1, <1>s DEF Staked, Locked
  <2>3. 0 - Staked(n) \in Int /\ 0 - Staked(n) <= 0 /\ held' = held + 0
    BY <2>1, <1>0, <1>s
  <2> QED  BY <2>1, <2>2, <2>3, <1>m
<1>4. ASSUME NEW n \in Nodes, NEW d \in Metadata, update_metadata(n, d) PROVE Custody'
  <2> DEFINE r == [nodes[n] EXCEPT !.metadata = d]
  <2>1. r \in RelayNode /\ r.stake = nodes[n].stake
    BY <1>s DEF RelayNode, NodeMetadata
  <2> QED  BY <1>2, <1>4, <2>1 DEF update_metadata
<1>5. ASSUME NEW n \in Nodes, NEW amount \in Amounts, stake(n, amount) PROVE Custody'
  <2>1. /\ amount \in Int /\ locks' = locks
        /\ tokens' = Transfer(tokens, n, RegistryAddr, amount)
    BY <1>5 DEF stake
  <2>a. Transfer(tokens, n, RegistryAddr, amount)[RegistryAddr] = tokens[RegistryAddr] + amount
    <3>1. /\ tokens \in [Holders -> Nat] /\ n \in Holders /\ RegistryAddr \in Holders
          /\ amount \in Int /\ n # RegistryAddr
      BY <2>1, <1>0, <1>n
    <3> QED  BY <3>1 DEF Transfer
  <2>2. held' = held + amount
    BY <2>1, <2>a
  <2>3. /\ nodes'[n].stake = nodes[n].stake + amount
        /\ \A o \in Nodes \ {n} : nodes'[o] = nodes[o]
    BY <1>5, <1>0, <1>s DEF stake, Restaked, RelayNode
  <2>4. Staked(n)' + Locked(n)' = Staked(n) + Locked(n) + amount
    BY <2>1, <2>3, <1>s DEF Staked, Locked
  <2> QED  BY <2>1, <2>2, <2>3, <2>4, <1>m
<1>6. ASSUME NEW n \in Nodes, NEW amount \in Amounts, unstake(n, amount) PROVE Custody'
  <2>1. amount \in Int /\ tokens' = tokens /\ SetLockEntry(n, amount)
    BY <1>6 DEF unstake
  <2>2. locks'[n].amount = amount /\ \A o \in Nodes \ {n} : locks'[o] = locks[o]
    BY <2>1, <1>0 DEF SetLockEntry
  <2>3. /\ nodes'[n].stake = nodes[n].stake - amount
        /\ \A o \in Nodes \ {n} : nodes'[o] = nodes[o]
    BY <1>6, <1>0, <1>s DEF unstake, Restaked, RelayNode
  <2>4. Staked(n)' + Locked(n)' = Staked(n) + Locked(n) + (0 - Locked(n))
    BY <2>1, <2>2, <2>3, <1>s DEF Staked, Locked
  <2>5. 0 - Locked(n) \in Int /\ 0 - Locked(n) <= 0 /\ held' = held + 0
    BY <2>1, <1>0, <1>s
  <2> QED  BY <2>2, <2>3, <2>4, <2>5, <1>m
<1>7. ASSUME NEW n \in Nodes, finalize_unstake(n) PROVE Custody'
  <2>1. /\ Locked(n) \in Int /\ nodes' = nodes
        /\ tokens' = Transfer(tokens, RegistryAddr, n, Locked(n))
    BY <1>7, <1>s DEF finalize_unstake, Locked
  <2>a. Transfer(tokens, RegistryAddr, n, Locked(n))[RegistryAddr]
            = tokens[RegistryAddr] - Locked(n)
    <3> DEFINE amount == Locked(n)
    <3>1. /\ tokens \in [Holders -> Nat] /\ n \in Holders /\ RegistryAddr \in Holders
          /\ amount \in Int /\ n # RegistryAddr
      BY <2>1, <1>0, <1>n
    <3> HIDE DEF amount
    <3>2. Transfer(tokens, RegistryAddr, n, amount)[RegistryAddr]
              = tokens[RegistryAddr] - amount
      BY <3>1 DEF Transfer
    <3> QED  BY <3>2 DEF amount
  <2>2. held' = held - Locked(n)
    BY <2>1, <2>a
  <2>3. locks'[n].amount = 0 /\ \A o \in Nodes \ {n} : locks'[o] = locks[o]
    BY <1>7, <1>0 DEF finalize_unstake, RemoveLockEntry, NoLock
  <2>4. Staked(n)' + Locked(n)' = Staked(n) + Locked(n) + (0 - Locked(n))
    BY <2>1, <2>3, <1>s DEF Staked, Locked
  <2>5. 0 - Locked(n) \in Int /\ held' = held + (0 - Locked(n))
    BY <2>1, <2>2, <1>0
  <2> QED  BY <2>1, <2>3, <2>4, <2>5, <1>m
<1>8. ASSUME NEW auth \in SUBSET Accounts, NEW n \in Nodes, slash(auth, n) PROVE Custody'
  <2>1. tokens' = tokens /\ Seize(n)
    BY <1>8 DEF slash
  <2>2. locks'[n].amount = 0 /\ \A o \in Nodes \ {n} : locks'[o] = locks[o]
    BY <2>1, <1>0 DEF Seize, NoLock
  <2>3. nodes'[n].stake = 0 /\ \A o \in Nodes \ {n} : nodes'[o] = nodes[o]
    BY <1>8, <1>0, <1>s DEF slash, Restaked, RelayNode
  <2> DEFINE k == 0 - (Staked(n) + Locked(n))
  <2>4. Staked(n)' + Locked(n)' = Staked(n) + Locked(n) + k
    BY <2>2, <2>3, <1>s DEF Staked, Locked
  <2>5. k \in Int /\ k <= 0 /\ held' = held + 0
    BY <2>1, <1>0, <1>s
  <2> HIDE DEF k
  <2> QED  BY <2>2, <2>3, <2>4, <2>5, <1>m
<1>9. ASSUME NEW auth \in SUBSET Accounts, NEW n \in Nodes, reinstate_node(auth, n)
      PROVE  Custody'
  <2> DEFINE r == [nodes[n] EXCEPT !.status = "Inactive"]
  <2>1. r \in RelayNode /\ r.stake = nodes[n].stake
    BY <1>s DEF RelayNode, NodeStatus
  <2> QED  BY <1>2, <1>9, <2>1 DEF reinstate_node
<1> QED
  BY <1>1, <1>3, <1>4, <1>5, <1>6, <1>7, <1>8, <1>9
  DEF Next, vars, initialize, set_token_address, CloseLedger

\* The registry can always pay every stake and every pending unstake, of all
\* nodes at once, whatever was staked, slashed or replaced before (stake,
\* finalize_unstake, and slash, which moves no token).
THEOREM CustodyHolds == Spec => []Custody
<1>1. Init => Custody
  <2> SUFFICES ASSUME Init PROVE Custody
    OBVIOUS
  <2>1. DOMAIN Holdings = Nodes /\ \A n \in Nodes : Holdings[n] = 0
    BY DEF Init, Holdings, Staked, Locked, NotRegistered, NoLock
  <2>2. SumFunctionOnSet(Holdings, Nodes) = 0
    BY <2>1, SumZero, FiniteNodes
  <2>3. tokens[RegistryAddr] \in Nat
    BY RegistryAssumption DEF Init, Holders
  <2> QED  BY <2>1, <2>2, <2>3 DEF Custody, SumFunction
<1> QED  BY <1>1, TypeInit, TypeStep, CustodyStep, PTL DEF Spec

\* So finalize_unstake never traps in the token contract: whatever the other
\* nodes have taken out, a pending unstake is in the account it is paid from.
THEOREM ReleasesAreFunded ==
    Spec => [](\A n \in Nodes : CanTransfer(tokens, RegistryAddr, Locked(n)))
<1>1. TypeOK /\ Custody => \A n \in Nodes : CanTransfer(tokens, RegistryAddr, Locked(n))
  <2> SUFFICES ASSUME TypeOK, Custody, NEW n \in Nodes
               PROVE  CanTransfer(tokens, RegistryAddr, Locked(n))
    OBVIOUS
  <2> DEFINE held == tokens[RegistryAddr]
             f == Holdings
  <2>1. held \in Nat /\ SumFunction(f) <= held
    BY DEF TypeOK, Holders, Custody
  <2>2. /\ DOMAIN f = Nodes /\ \A m \in Nodes : f[m] \in Nat
        /\ Locked(n) \in Nat /\ Locked(n) <= f[n]
    BY DEF TypeOK, Holdings, Staked, Locked, RelayNode, StakeEntry
  <2> HIDE DEF held, f
  <2>3. f[n] <= SumFunction(f) /\ SumFunction(f) \in Nat
    BY <2>2, FiniteNodes, SumIsNoLess, SumOfNaturals DEF SumFunction
  <2>4. 0 <= Locked(n) /\ Locked(n) <= held
    BY <2>1, <2>2, <2>3
  <2> QED  BY <2>4 DEF CanTransfer, held
<1> QED  BY <1>1, TypeInit, TypeStep, CustodyHolds, PTL DEF Spec

-----------------------------------------------------------------------------
(* The node count.                                                          *)

RegisteredNodes == {n \in Nodes : Registered(n)}

\* Only register adds a node, and no entry point ever removes one.
LEMMA RegisteredStep ==
    ASSUME TypeOK, [Next]_vars
    PROVE  \/ RegisteredNodes' = RegisteredNodes /\ node_count' \in {node_count, 0}
           \/ \E n \in Nodes \ RegisteredNodes :
                 RegisteredNodes' = RegisteredNodes \cup {n} /\ node_count' = node_count + 1
<1> DEFINE Same == RegisteredNodes' = RegisteredNodes /\ node_count' \in {node_count, 0}
<1>1. ASSUME NEW n \in Nodes, NEW r \in RelayNode, nodes' = [nodes EXCEPT ![n] = r],
             Registered(n), r.status # "NotRegistered", node_count' = node_count
      PROVE  Same
  <2>1. \A k \in Nodes : Registered(k)' <=> Registered(k)
    BY <1>1 DEF Registered, TypeOK
  <2> QED  BY <1>1, <2>1 DEF RegisteredNodes
<1>2. ASSUME UNCHANGED nodes, node_count' \in {node_count, 0} PROVE Same
  BY <1>2 DEF RegisteredNodes, Registered
<1>3. ASSUME NEW n \in Nodes, NEW m \in Metadata, register(n, m)
      PROVE  /\ n \in Nodes \ RegisteredNodes
             /\ RegisteredNodes' = RegisteredNodes \cup {n} /\ node_count' = node_count + 1
  <2>1. /\ ~Registered(n) /\ node_count' = node_count + 1
        /\ nodes' = [nodes EXCEPT ![n] = [stake |-> 0, status |-> "Inactive", metadata |-> m]]
    BY <1>3 DEF register, CanRegister
  <2>2. \A k \in Nodes : Registered(k)' <=> (Registered(k) \/ k = n)
    BY <2>1 DEF Registered, TypeOK
  <2> QED  BY <2>1, <2>2 DEF RegisteredNodes
<1>4. ASSUME NEW n \in Nodes, NEW m \in Metadata, update_metadata(n, m) PROVE Same
  <2> DEFINE r == [nodes[n] EXCEPT !.metadata = m]
  <2>1. r \in RelayNode /\ r.status = nodes[n].status
    BY RegistryAssumption DEF TypeOK, RelayNode, NodeMetadata
  <2> QED  BY <1>1, <1>4, <2>1 DEF update_metadata, Registered
<1>5. ASSUME NEW n \in Nodes, NEW amount \in Amounts, stake(n, amount) PROVE Same
  <2> DEFINE total == nodes[n].stake + amount
             status == Promoted(nodes[n].status, total)
             r == Restaked(nodes[n], total, status)
  <2>1. Registered(n) /\ nodes' = [nodes EXCEPT ![n] = r] /\ node_count' = node_count
    BY <1>5 DEF stake
  <2>2. total \in Nat /\ nodes[n] \in RelayNode /\ status \in NodeStatus
    BY <1>5, StatusType, RegistryAssumption DEF stake, TypeOK, RelayNode
  <2>3. status # "NotRegistered"
    BY <2>1 DEF Promoted, Registered
  <2> HIDE DEF total, status
  <2>4. r \in RelayNode /\ r.status = status
    BY <2>2, RestakedType DEF Restaked, RelayNode
  <2> QED  BY <1>1, <2>1, <2>3, <2>4
<1>6. ASSUME NEW n \in Nodes, NEW amount \in Amounts, unstake(n, amount) PROVE Same
  <2> DEFINE rest == nodes[n].stake - amount
             status == Demoted(nodes[n].status, rest)
             r == Restaked(nodes[n], rest, status)
  <2>1. Registered(n) /\ nodes' = [nodes EXCEPT ![n] = r] /\ node_count' = node_count
    BY <1>6 DEF unstake
  <2>2. rest \in Nat /\ nodes[n] \in RelayNode /\ status \in NodeStatus
    BY <1>6, StatusType, RegistryAssumption DEF unstake, HasStaked, TypeOK, RelayNode
  <2>3. status # "NotRegistered"
    BY <2>1 DEF Demoted, Registered
  <2> HIDE DEF rest, status
  <2>4. r \in RelayNode /\ r.status = status
    BY <2>2, RestakedType DEF Restaked, RelayNode
  <2> QED  BY <1>1, <2>1, <2>3, <2>4
<1>7. ASSUME NEW auth \in SUBSET Accounts, NEW n \in Nodes, slash(auth, n) PROVE Same
  <2> DEFINE r == Restaked(nodes[n], 0, "Slashed")
  <2>1. Registered(n) /\ nodes' = [nodes EXCEPT ![n] = r] /\ node_count' = node_count
    BY <1>7 DEF slash
  <2>2. nodes[n] \in RelayNode /\ "Slashed" \in NodeStatus /\ 0 \in Nat
    BY DEF TypeOK, NodeStatus
  <2>3. r \in RelayNode /\ r.status = "Slashed"
    BY <2>2, RestakedType DEF Restaked, RelayNode
  <2> QED  BY <1>1, <2>1, <2>3
<1>8. ASSUME NEW auth \in SUBSET Accounts, NEW n \in Nodes, reinstate_node(auth, n)
      PROVE  Same
  <2> DEFINE r == [nodes[n] EXCEPT !.status = "Inactive"]
  <2>1. Registered(n) /\ nodes' = [nodes EXCEPT ![n] = r] /\ node_count' = node_count
    BY <1>8 DEF reinstate_node, Registered
  <2>2. r \in RelayNode /\ r.status = "Inactive"
    BY DEF TypeOK, RelayNode, NodeStatus
  <2> QED  BY <1>1, <2>1, <2>2
<1> HIDE DEF Same
<1>9. \/ Same
      \/ \E n \in Nodes, m \in Metadata : register(n, m)
  BY <1>2, <1>4, <1>5, <1>6, <1>7, <1>8
  DEF Next, vars, initialize, set_token_address, finalize_unstake, CloseLedger
<1> QED  BY <1>3, <1>9 DEF Same

\* However many nodes register, also before initialize, which forgets them, the
\* stored count never claims more nodes than there are.
THEOREM CountIsBounded == Spec => []CountNeverExceeds
<1> USE FiniteNodes
<1>1. Init => CountNeverExceeds
  <2> SUFFICES ASSUME Init PROVE CountNeverExceeds
    OBVIOUS
  <2>1. RegisteredNodes = {} /\ node_count = 0
    BY DEF Init, RegisteredNodes, Registered, NotRegistered
  <2> QED  BY <2>1, FS_EmptySet DEF CountNeverExceeds, RegisteredNodes
<1>2. TypeOK /\ CountNeverExceeds /\ [Next]_vars => CountNeverExceeds'
  <2> SUFFICES ASSUME TypeOK, CountNeverExceeds, [Next]_vars
               PROVE  node_count' <= Cardinality(RegisteredNodes')
    BY DEF CountNeverExceeds, RegisteredNodes
  <2>1. IsFiniteSet(RegisteredNodes) /\ node_count <= Cardinality(RegisteredNodes)
    BY FS_Subset DEF RegisteredNodes, CountNeverExceeds
  <2>2. Cardinality(RegisteredNodes) \in Nat /\ node_count \in Nat
    BY <2>1, FS_CardinalityType DEF TypeOK
  <2>3. CASE RegisteredNodes' = RegisteredNodes /\ node_count' \in {node_count, 0}
    BY <2>1, <2>2, <2>3
  <2>4. ASSUME NEW n \in Nodes \ RegisteredNodes,
               RegisteredNodes' = RegisteredNodes \cup {n}, node_count' = node_count + 1
        PROVE  node_count' <= Cardinality(RegisteredNodes')
    <3>1. Cardinality(RegisteredNodes \cup {n}) = Cardinality(RegisteredNodes) + 1
      BY <2>1, FS_AddElement
    <3> QED  BY <2>1, <2>2, <2>4, <3>1
  <2> QED  BY <2>3, <2>4, RegisteredStep
<1> QED  BY <1>1, <1>2, TypeInit, TypeStep, PTL DEF Spec

-----------------------------------------------------------------------------
(* What a step may never do.                                                *)

\* Tokens leave the registry only by finalize_unstake, to the node that waited,
\* a whole lock period after that node last called unstake.
THEOREM LockIsKept == Spec => NoEarlyRelease
<1> USE RegistryAssumption
<1>1. TypeOK /\ Standings /\ [Next]_vars =>
         [tokens'[RegistryAddr] < tokens[RegistryAddr] =>
             \E n \in Nodes :
                 /\ tokens'[n] - tokens[n] = tokens[RegistryAddr] - tokens'[RegistryAddr]
                 /\ now >= history[n].unstaked_at + config.stake_lock_period]_vars
  <2> SUFFICES ASSUME TypeOK, Standings, [Next]_vars,
                      tokens'[RegistryAddr] < tokens[RegistryAddr]
               PROVE  \E n \in Nodes :
                         /\ tokens'[n] - tokens[n] = tokens[RegistryAddr] - tokens'[RegistryAddr]
                         /\ now >= history[n].unstaked_at + config.stake_lock_period
    OBVIOUS
  <2>0. /\ tokens \in [Holders -> Nat] /\ RegistryAddr \in Holders /\ Nodes \subseteq Holders
        /\ RegistryAddr \notin Nodes /\ tokens[RegistryAddr] \in Nat
        /\ locks \in [Nodes -> StakeEntry] /\ \A n \in Nodes : Standing(n)
    BY DEF TypeOK, Standings, Holders
  <2>1. ASSUME tokens' = tokens PROVE FALSE
    BY <2>1, <2>0
  <2>2. ASSUME NEW n \in Nodes, NEW amount \in Amounts, stake(n, amount) PROVE FALSE
    <3>1. /\ amount \in Int /\ amount >= 0 /\ n \in Holders /\ n # RegistryAddr
          /\ tokens' = Transfer(tokens, n, RegistryAddr, amount)
      BY <2>2, <2>0 DEF stake
    <3> DEFINE after == Transfer(tokens, n, RegistryAddr, amount)
    <3>2. after[RegistryAddr] = tokens[RegistryAddr] + amount
      BY <3>1, <2>0 DEF Transfer
    <3> QED  BY <3>1, <3>2, <2>0
  <2>3. ASSUME NEW n \in Nodes, finalize_unstake(n)
        PROVE  /\ tokens'[n] - tokens[n] = tokens[RegistryAddr] - tokens'[RegistryAddr]
               /\ now >= history[n].unstaked_at + config.stake_lock_period
    <3> DEFINE amount == locks[n].amount
    <3>1. /\ amount \in Nat /\ n \in Holders /\ n # RegistryAddr /\ tokens[n] \in Nat
          /\ tokens' = Transfer(tokens, RegistryAddr, n, amount)
          /\ Pending(n) /\ now >= locks[n].unlocks_at
      BY <2>3, <2>0 DEF finalize_unstake, StakeEntry
    <3> DEFINE after == Transfer(tokens, RegistryAddr, n, amount)
    <3>2. /\ after[RegistryAddr] = tokens[RegistryAddr] - amount
          /\ after[n] = tokens[n] + amount
      BY <3>1, <2>0 DEF Transfer
    <3>3. locks[n].unlocks_at = history[n].unstaked_at + config.stake_lock_period
      BY <3>1, <2>0 DEF Standing
    <3> QED  BY <3>1, <3>2, <3>3, <2>0
  <2> QED
    BY <2>1, <2>2, <2>3
    DEF Next, vars, initialize, set_token_address, register, update_metadata, unstake,
        slash, reinstate_node, CloseLedger
<1> QED  BY <1>1, StandingsHold, PTL DEF Spec, NoEarlyRelease

\* Nobody's stake or pending unstake shrinks and nobody's status changes without
\* the signature of the node itself or the approval of threshold seats of the
\* council (require_auth in the node's own calls, require_council_auth in slash
\* and reinstate_node).
THEOREM ConsentIsNeeded == Spec => ConsentOrQuorum
<1> USE RegistryAssumption
<1>1. TypeOK /\ [Next]_vars =>
         [\A n \in Nodes :
             \/ /\ Staked(n)' + Locked(n)' >= Staked(n) + Locked(n)
                /\ nodes'[n].status = nodes[n].status
             \/ n \in signers'
             \/ Quorum(config.council, signers')]_vars
  <2> DEFINE Kept(n) == /\ Staked(n)' + Locked(n)' >= Staked(n) + Locked(n)
                        /\ nodes'[n].status = nodes[n].status
  <2> SUFFICES ASSUME TypeOK, [Next]_vars, NEW m \in Nodes,
                      m \notin signers', ~Quorum(config.council, signers')
               PROVE  Kept(m)
    OBVIOUS
  <2>0. /\ nodes \in [Nodes -> RelayNode] /\ locks \in [Nodes -> StakeEntry]
        /\ nodes[m].stake \in Nat /\ locks[m].amount \in Nat
    BY DEF TypeOK, RelayNode, StakeEntry
  <2>1. ASSUME NEW auth \in SUBSET Accounts, signers' = auth,
               RequireCouncilAuth(config.council, auth)
        PROVE  FALSE
    <3>1. config.council \in [members : Seq(Accounts), threshold : Nat]
      BY DEF TypeOK, Config
    <3> QED  BY <3>1, <2>1, AuthIsQuorum
  <2>2. ASSUME nodes'[m] = nodes[m], locks'[m] = locks[m] PROVE Kept(m)
    BY <2>0, <2>2 DEF Staked, Locked
  <2>3. ASSUME NEW n \in Nodes, NEW d \in Metadata, register(n, d) PROVE Kept(m)
    BY <2>0, <2>2, <2>3 DEF register
  <2>4. ASSUME NEW n \in Nodes, NEW d \in Metadata, update_metadata(n, d) PROVE Kept(m)
    BY <2>0, <2>2, <2>4 DEF update_metadata
  <2>5. ASSUME NEW n \in Nodes, NEW amount \in Amounts, stake(n, amount) PROVE Kept(m)
    BY <2>0, <2>2, <2>5 DEF stake
  <2>6. ASSUME NEW n \in Nodes, NEW amount \in Amounts, unstake(n, amount) PROVE Kept(m)
    BY <2>0, <2>2, <2>6 DEF unstake, SetLockEntry
  <2>7. ASSUME NEW n \in Nodes, finalize_unstake(n) PROVE Kept(m)
    BY <2>0, <2>2, <2>7 DEF finalize_unstake, RemoveLockEntry
  <2>8. ASSUME NEW auth \in SUBSET Accounts, NEW n \in Nodes, slash(auth, n) PROVE Kept(m)
    BY <2>1, <2>8 DEF slash
  <2>9. ASSUME NEW auth \in SUBSET Accounts, NEW n \in Nodes, reinstate_node(auth, n)
        PROVE  Kept(m)
    BY <2>1, <2>9 DEF reinstate_node
  <2>10. CASE UNCHANGED <<nodes, locks>>
    BY <2>2, <2>10
  <2> HIDE DEF Kept
  <2> QED
    BY <2>3, <2>4, <2>5, <2>6, <2>7, <2>8, <2>9, <2>10
    DEF Next, vars, initialize, set_token_address, CloseLedger
<1> QED  BY <1>1, TypeInit, TypeStep, PTL DEF Spec, ConsentOrQuorum

-----------------------------------------------------------------------------
(* The refinement: every node leads the documented life.                    *)

\* What one step does to the status and the stake of a node.
LEMMA LifeStep ==
    ASSUME TypeOK, Standings, [Next]_vars, NEW m \in Nodes
    PROVE  [Life(m)!Next]_(Life(m)!vars)
<1> USE RegistryAssumption
<1>0. /\ nodes \in [Nodes -> RelayNode] /\ nodes[m] \in RelayNode /\ nodes[m].stake \in Nat
      /\ nodes[m].status \in NodeStatus /\ Standing(m)
  BY DEF TypeOK, RelayNode, Standings
<1>a. ASSUME nodes'[m] = nodes[m] PROVE Life(m)!vars' = Life(m)!vars
  BY <1>a DEF Life!vars
<1>b. ASSUME NEW auth \in SUBSET Accounts, RequireCouncilAuth(config.council, auth),
             signers' = auth, config' = config
      PROVE  Quorum(config.council, signers)'
  <2>1. config.council \in [members : Seq(Accounts), threshold : Nat]
    BY DEF TypeOK, Config
  <2>2. Quorum(config.council, auth)
    BY <2>1, <1>b, AuthIsQuorum
  <2> QED  BY <2>2, <1>b
<1>1. CASE nodes' = nodes
  BY <1>1, <1>a
<1>2. ASSUME NEW n \in Nodes, NEW d \in Metadata, register(n, d)
      PROVE  [Life(m)!Next]_(Life(m)!vars)
  <2>1. CASE n = m
    <3>1. /\ nodes[m].status = "NotRegistered" /\ m \in signers'
          /\ nodes'[m].status = "Inactive" /\ nodes'[m].stake = 0
      BY <1>0, <1>2, <2>1 DEF register, CanRegister, Registered
    <3> QED  BY <3>1 DEF Life!Next, Life!Join
  <2>2. CASE n # m
    BY <1>0, <1>2, <1>a, <2>2 DEF register
  <2> QED  BY <2>1, <2>2
<1>3. ASSUME NEW n \in Nodes, NEW d \in Metadata, update_metadata(n, d)
      PROVE  Life(m)!vars' = Life(m)!vars
  <2>1. nodes' = [nodes EXCEPT ![n] = [nodes[n] EXCEPT !.metadata = d]]
    BY <1>3 DEF update_metadata
  <2>2. nodes'[m].status = nodes[m].status /\ nodes'[m].stake = nodes[m].stake
    BY <1>0, <2>1 DEF RelayNode
  <2> QED  BY <2>2 DEF Life!vars
<1>4. ASSUME NEW n \in Nodes, NEW amount \in Amounts, stake(n, amount)
      PROVE  [Life(m)!Next]_(Life(m)!vars)
  <2>1. CASE n = m
    <3> DEFINE total == nodes[m].stake + amount
    <3>1. /\ amount \in Int /\ amount > 0 /\ m \in signers'
          /\ nodes[m].status \in {"Inactive", "Active"}
          /\ nodes' = [nodes EXCEPT ![m] =
                          Restaked(nodes[m], total, Promoted(nodes[m].status, total))]
      BY <1>0, <1>4, <2>1 DEF stake, Registered, NodeStatus
    <3>2. nodes'[m].stake = total /\ nodes'[m].status = Promoted(nodes[m].status, total)
      BY <1>0, <3>1 DEF Restaked, RelayNode
    <3>3. total > nodes[m].stake /\ Promoted(nodes[m].status, total) \in {nodes[m].status, "Active"}
      BY <1>0, <3>1 DEF Promoted
    <3> QED  BY <3>1, <3>2, <3>3 DEF Life!Next, Life!Bond
  <2>2. CASE n # m
    BY <1>0, <1>4, <1>a, <2>2 DEF stake
  <2> QED  BY <2>1, <2>2
<1>5. ASSUME NEW n \in Nodes, NEW amount \in Amounts, unstake(n, amount)
      PROVE  [Life(m)!Next]_(Life(m)!vars)
  <2>1. CASE n = m
    <3> DEFINE rest == nodes[m].stake - amount
    <3>1. /\ amount \in Int /\ amount > 0 /\ amount <= nodes[m].stake /\ m \in signers'
          /\ nodes[m].status = "Active"
          /\ nodes' = [nodes EXCEPT ![m] =
                          Restaked(nodes[m], rest, Demoted(nodes[m].status, rest))]
      BY <1>0, <1>5, <2>1 DEF unstake, HasStaked
    <3>2. nodes'[m].stake = rest /\ nodes'[m].status = Demoted(nodes[m].status, rest)
      BY <1>0, <3>1 DEF Restaked, RelayNode
    <3>3. /\ 0 <= rest /\ rest < nodes[m].stake
          /\ Demoted(nodes[m].status, rest) \in {"Active", "Inactive"}
      BY <1>0, <3>1 DEF Demoted
    <3> QED  BY <3>1, <3>2, <3>3 DEF Life!Next, Life!Unbond
  <2>2. CASE n # m
    BY <1>0, <1>5, <1>a, <2>2 DEF unstake
  <2> QED  BY <2>1, <2>2
<1>6. ASSUME NEW auth \in SUBSET Accounts, NEW n \in Nodes, slash(auth, n)
      PROVE  [Life(m)!Next]_(Life(m)!vars)
  <2>1. CASE n = m
    <3>1. /\ nodes[m].status \in {"Inactive", "Active"}
          /\ nodes' = [nodes EXCEPT ![m] = Restaked(nodes[m], 0, "Slashed")]
      BY <1>0, <1>6, <2>1 DEF slash, Registered, NodeStatus
    <3>2. nodes'[m].stake = 0 /\ nodes'[m].status = "Slashed"
      BY <1>0, <3>1 DEF Restaked, RelayNode
    <3>3. Quorum(config.council, signers)'
      BY <1>6, <1>b DEF slash
    <3> QED  BY <3>1, <3>2, <3>3 DEF Life!Next, Life!Slash
  <2>2. CASE n # m
    BY <1>0, <1>6, <1>a, <2>2 DEF slash
  <2> QED  BY <2>1, <2>2
<1>7. ASSUME NEW auth \in SUBSET Accounts, NEW n \in Nodes, reinstate_node(auth, n)
      PROVE  [Life(m)!Next]_(Life(m)!vars)
  <2>1. CASE n = m
    <3>1. /\ nodes[m].status = "Slashed"
          /\ nodes' = [nodes EXCEPT ![m] = [nodes[m] EXCEPT !.status = "Inactive"]]
      BY <1>7, <2>1 DEF reinstate_node
    <3>2. nodes'[m].stake = nodes[m].stake /\ nodes'[m].status = "Inactive"
      BY <1>0, <3>1 DEF RelayNode
    <3>3. nodes[m].stake = 0
      BY <1>0, <3>1 DEF Standing
    <3>4. Quorum(config.council, signers)'
      BY <1>7, <1>b DEF reinstate_node
    <3> QED  BY <3>1, <3>2, <3>3, <3>4 DEF Life!Next, Life!Reinstate
  <2>2. CASE n # m
    BY <1>0, <1>7, <1>a, <2>2 DEF reinstate_node
  <2> QED  BY <2>1, <2>2
<1> QED
  BY <1>1, <1>2, <1>3, <1>4, <1>5, <1>6, <1>7
  DEF Next, vars, initialize, set_token_address, finalize_unstake, CloseLedger

\* The registry implements the documented life of every node: only a quorum
\* slashes, and only a quorum undoes a slash.
THEOREM RegistryImplementsLifecycle == Spec => NodesLiveAsDocumented
<1>1. Init => \A n \in Nodes : Life(n)!Init
  BY DEF Init, NotRegistered, Life!Init
<1>2. TypeOK /\ Standings /\ [Next]_vars =>
         [\A n \in Nodes : [Life(n)!Next]_(Life(n)!vars)]_vars
  BY LifeStep
<1> QED  BY <1>1, <1>2, StandingsHold, PTL DEF Spec, NodesLiveAsDocumented

=============================================================================
