---------------------- MODULE RegistryLifetimesProofs ----------------------
(* What an unstake extends stays live for as long as the threshold says:    *)
(* while it is pending no entry it needs lives a shorter time than it did   *)
(* when unstake returned, whoever calls what in between.                    *)
EXTENDS RegistryLifetimes, TLAPS

\* The registry with what is proved about it.
RP == INSTANCE RelayRegistryProofs

LEMMA RegistryIsInstantiated == RP!RegistryAssumption /\ RP!FiniteNodes
  BY RegistryParameters
  DEF R!RegistryAssumption, RP!RegistryAssumption, R!FiniteNodes, RP!FiniteNodes,
      R!Accounts, RP!Accounts, R!Holders, RP!Holders, R!IsFiniteSet, RP!IsFiniteSet

\* The registry under the lifetimes is the one the proofs are about.
LEMMA SameTypes == R!TypeOK <=> RP!TypeOK
  BY DEF R!TypeOK, RP!TypeOK, R!Config, RP!Config, R!RelayNode, RP!RelayNode,
         R!NodeStatus, RP!NodeStatus, R!NodeMetadata, RP!NodeMetadata,
         R!StakeEntry, RP!StakeEntry, R!History, RP!History,
         R!Accounts, RP!Accounts, R!Holders, RP!Holders

LEMMA SameInit == R!Init => RP!Init
  BY DEF R!Init, RP!Init, R!NoConfig, RP!NoConfig, R!NoCouncil, RP!NoCouncil,
         R!NotRegistered, RP!NotRegistered, R!NoLock, RP!NoLock

LEMMA SameNext == R!Next => RP!Next
<1> USE DEF R!Initialized, RP!Initialized, R!NoCouncil, RP!NoCouncil,
        R!Registered, RP!Registered, R!Pending, RP!Pending, R!NoLock, RP!NoLock,
        R!Locked, RP!Locked, R!ValidUptime, RP!ValidUptime, R!AddFits, RP!AddFits,
        R!TimeFits, RP!TimeFits, R!Restaked, RP!Restaked, R!Accounts, RP!Accounts,
        R!CanTransfer, RP!CanTransfer, R!Transfer, RP!Transfer,
        R!RequireCouncilAuth, RP!RequireCouncilAuth
<1>1. ASSUME NEW c \in Councils, NEW minStake \in MinStakes, NEW period \in LockPeriods,
             R!initialize(c, minStake, period)
      PROVE  RP!initialize(c, minStake, period)
  BY <1>1 DEF R!initialize, RP!initialize, R!ValidCouncil, RP!ValidCouncil
<1>2. R!set_token_address => RP!set_token_address
  BY DEF R!set_token_address, RP!set_token_address
<1>3. ASSUME NEW n \in Nodes, NEW m \in Metadata, R!register(n, m)
      PROVE  RP!register(n, m)
  BY <1>3 DEF R!register, RP!register, R!CanRegister, RP!CanRegister
<1>4. ASSUME NEW n \in Nodes, NEW m \in Metadata, R!update_metadata(n, m)
      PROVE  RP!update_metadata(n, m)
  BY <1>4 DEF R!update_metadata, RP!update_metadata
<1>5. ASSUME NEW n \in Nodes, NEW amount \in Amounts, R!stake(n, amount)
      PROVE  RP!stake(n, amount)
  BY <1>5 DEF R!stake, RP!stake, R!Promoted, RP!Promoted
<1>6. ASSUME NEW n \in Nodes, NEW amount \in Amounts, R!unstake(n, amount)
      PROVE  RP!unstake(n, amount)
  BY <1>6 DEF R!unstake, RP!unstake, R!HasStaked, RP!HasStaked, R!Demoted, RP!Demoted,
     R!SetLockEntry, RP!SetLockEntry, R!UnlockAfter, RP!UnlockAfter
<1>7. ASSUME NEW n \in Nodes, R!finalize_unstake(n)
      PROVE  RP!finalize_unstake(n)
  BY <1>7 DEF R!finalize_unstake, RP!finalize_unstake, R!RemoveLockEntry, RP!RemoveLockEntry
<1>8. ASSUME NEW auth \in SUBSET R!Accounts, NEW n \in Nodes, R!slash(auth, n)
      PROVE  RP!slash(auth, n)
  BY <1>8 DEF R!slash, RP!slash, R!Seize, RP!Seize
<1>9. ASSUME NEW auth \in SUBSET R!Accounts, NEW n \in Nodes, R!reinstate_node(auth, n)
      PROVE  RP!reinstate_node(auth, n)
  BY <1>9 DEF R!reinstate_node, RP!reinstate_node
<1>10. R!CloseLedger => RP!CloseLedger
  BY DEF R!CloseLedger, RP!CloseLedger
<1> QED
  BY <1>1, <1>2, <1>3, <1>4, <1>5, <1>6, <1>7, <1>8, <1>9, <1>10 DEF R!Next, RP!Next

-----------------------------------------------------------------------------
(* What the registry does under the lifetimes.                               *)

\* A call does to the registry's state what it does without lifetimes, or
\* nothing: what is proved of the registry carries over.
LEMMA RegistryStep == [Next]_vars => [R!Next]_registryVars
  BY DEF Next, vars, registryVars, R!Next, initialize, set_token_address, register,
         update_metadata, stake, unstake, finalize_unstake, slash, reinstate_node,
         get_node, is_active, CloseLedger, restore_instance, restore_node, restore_lock

\* What is proved of the registry's state holds under the lifetimes.
LEMMA StandingsHold == Spec => [](RP!TypeOK /\ RP!Standings)
<1> USE RegistryIsInstantiated
<1>1. Init => RP!TypeOK /\ RP!Standings
  BY SameInit, RP!TypeInit, RP!StandingsInit DEF Init
<1>2. [Next]_vars => [RP!Next]_(RP!vars)
  BY RegistryStep, SameNext DEF registryVars, RP!vars
<1>3. RP!TypeOK /\ RP!Standings /\ [Next]_vars => RP!TypeOK' /\ RP!Standings'
  BY <1>2, RP!TypeStep, RP!StandingsStep
<1> QED  BY <1>1, <1>3, PTL DEF Spec

-----------------------------------------------------------------------------
(* How lifetimes grow.                                                      *)

Range == 0 .. ledger + MaxLife

\* The types of the lifetimes: the part of TypeOK that is not the registry's.
UntilTypes ==
    /\ instance_until \in Range
    /\ node_until \in [Nodes -> Range]
    /\ lock_until \in [Nodes -> Range]

LEMMA LedgerType ==
    ASSUME RP!TypeOK
    PROVE  /\ ledger \in Nat /\ MaxLife \in Nat
           /\ LEDGER_BUMP_AMOUNT <= MaxLife /\ MinTtl <= MaxLife
<1>1. now \in Nat /\ CloseTime \in Nat \ {0}
  BY RegistryIsInstantiated DEF RP!TypeOK, RP!RegistryAssumption
<1>2. now \div CloseTime \in Nat
  BY <1>1
<1> QED  BY <1>2, TtlAssumption DEF ledger, R!LedgerAt, MaxLife

\* An extension leaves at least the threshold, never shortens a life and stays
\* within one extension from now, unless the life was longer already.
LEMMA ExtensionBounds ==
    ASSUME RP!TypeOK, NEW until \in Range
    PROVE  /\ Extended(until, ledger) \in Range
           /\ Extended(until, ledger) >= until
           /\ Extended(until, ledger) >= ledger + LEDGER_BUMP_THRESHOLD
  BY LedgerType, TtlAssumption DEF Range, Extended

LEMMA CreationBounds ==
    ASSUME RP!TypeOK
    PROVE  Created(ledger) \in Range /\ Created(ledger) >= ledger
  BY LedgerType, TtlAssumption DEF Range, Created

\* What the helpers of storage.rs do to the instance, a node and a pending
\* unstake (extend_instance_ttl, get_node and set_node, set_lock_entry).
LEMMA InstanceGrows ==
    ASSUME RP!TypeOK, UntilTypes, extend_instance_ttl
    PROVE  /\ instance_until' \in Range
           /\ instance_until' >= instance_until
           /\ instance_until' >= ledger + LEDGER_BUMP_THRESHOLD
  BY ExtensionBounds DEF UntilTypes, extend_instance_ttl

LEMMA NodeGrows ==
    ASSUME RP!TypeOK, UntilTypes, NEW n \in Nodes, BumpNode(n)
    PROVE  /\ node_until' \in [Nodes -> Range]
           /\ R!Registered(n) => node_until'[n] >= node_until[n]
           /\ node_until'[n] >= ledger + LEDGER_BUMP_THRESHOLD
           /\ \A m \in Nodes \ {n} : node_until'[m] = node_until[m]
<1> DEFINE was == IF R!Registered(n) THEN node_until[n] ELSE Created(ledger)
<1>1. was \in Range
  BY CreationBounds DEF UntilTypes
<1>2. node_until' = [node_until EXCEPT ![n] = Extended(was, ledger)]
  BY DEF BumpNode
<1>3. R!Registered(n) => was = node_until[n]
  OBVIOUS
<1> HIDE DEF was
<1>4. /\ Extended(was, ledger) \in Range
      /\ Extended(was, ledger) >= was
      /\ Extended(was, ledger) >= ledger + LEDGER_BUMP_THRESHOLD
  BY <1>1, ExtensionBounds
<1> QED  BY <1>2, <1>3, <1>4 DEF UntilTypes

LEMMA LockGrows ==
    ASSUME RP!TypeOK, UntilTypes, NEW n \in Nodes, set_lock_entry(n)
    PROVE  /\ lock_until' \in [Nodes -> Range]
           /\ lock_until'[n] >= ledger + LEDGER_BUMP_THRESHOLD
           /\ \A m \in Nodes \ {n} : lock_until'[m] = lock_until[m]
<1> DEFINE was == IF R!Pending(n) THEN lock_until[n] ELSE Created(ledger)
<1>1. was \in Range
  BY CreationBounds DEF UntilTypes
<1>2. lock_until' = [lock_until EXCEPT ![n] = Extended(was, ledger)]
  BY DEF set_lock_entry
<1> HIDE DEF was
<1>3. /\ Extended(was, ledger) \in Range
      /\ Extended(was, ledger) >= ledger + LEDGER_BUMP_THRESHOLD
  BY <1>1, ExtensionBounds
<1> QED  BY <1>2, <1>3 DEF UntilTypes

LEMMA LockTaken ==
    ASSUME RP!TypeOK, UntilTypes, NEW n \in Nodes, TakeLockEntry(n)
    PROVE  /\ lock_until' \in [Nodes -> Range]
           /\ \A m \in Nodes \ {n} : lock_until'[m] = lock_until[m]
  BY LedgerType DEF UntilTypes, TakeLockEntry, Range

-----------------------------------------------------------------------------
(* The invariant.                                                           *)

\* The ledger up to which the extensions of the last unstake reach.
Promised(n) == R!LedgerAt(history[n].unstaked_at) + LEDGER_BUMP_THRESHOLD

Sustained(n) ==
    R!Pending(n) =>
        /\ instance_until >= Promised(n)
        /\ node_until[n] >= Promised(n)
        /\ lock_until[n] >= Promised(n)

LifeInv == UntilTypes /\ \A n \in Nodes : Sustained(n)

LEMMA PromisedType ==
    ASSUME RP!TypeOK, NEW n \in Nodes
    PROVE  Promised(n) \in Nat /\ \A u \in Range : u \in Nat
<1>1. history[n].unstaked_at \in Nat /\ CloseTime \in Nat \ {0}
  BY RegistryIsInstantiated DEF RP!TypeOK, RP!History, RP!RegistryAssumption
<1>2. history[n].unstaked_at \div CloseTime \in Nat
  BY <1>1
<1> QED  BY <1>2, TtlAssumption DEF Promised, R!LedgerAt, Range

LEMMA LifeInit == Init => LifeInv
<1> SUFFICES ASSUME Init PROVE LifeInv
  OBVIOUS
<1>1. RP!TypeOK
  BY SameInit, RP!TypeInit, RegistryIsInstantiated DEF Init
<1>2. Created(ledger) \in Range /\ 0 \in Range
  BY <1>1, CreationBounds, LedgerType DEF Range
<1>3. UntilTypes
  BY <1>2 DEF Init, UntilTypes
<1>4. \A n \in Nodes : ~R!Pending(n)
  BY DEF Init, R!Init, R!Pending
<1> QED  BY <1>3, <1>4 DEF LifeInv, Sustained

\* A pending unstake, and so every node that has one, is registered.
LEMMA PendingIsRegistered ==
    ASSUME RP!Standings, NEW n \in Nodes, R!Pending(n)
    PROVE  R!Registered(n)
  BY DEF RP!Standings, RP!Standing, RP!Pending, RP!NoLock, R!Pending, R!NoLock, R!Registered

\* A step within a ledger that shortens no life of what is still pending.
LEMMA LifeKept ==
    ASSUME RP!TypeOK, LifeInv, now' = now,
           instance_until' \in Range /\ instance_until' >= instance_until,
           node_until' \in [Nodes -> Range], lock_until' \in [Nodes -> Range],
           \A m \in Nodes : R!Pending(m)' =>
               \/ /\ R!Pending(m)
                  /\ history'[m].unstaked_at = history[m].unstaked_at
                  /\ node_until'[m] >= node_until[m]
                  /\ lock_until'[m] >= lock_until[m]
               \/ Sustained(m)'
    PROVE  LifeInv'
<1>1. Range' = Range
  BY DEF Range, ledger
<1>2. UntilTypes'
  BY <1>1 DEF UntilTypes
<1>3. ASSUME NEW m \in Nodes PROVE Sustained(m)'
  <2>1. CASE ~R!Pending(m)' \/ Sustained(m)'
    BY <2>1 DEF Sustained
  <2>2. CASE /\ R!Pending(m)' /\ R!Pending(m)
             /\ history'[m].unstaked_at = history[m].unstaked_at
             /\ node_until'[m] >= node_until[m]
             /\ lock_until'[m] >= lock_until[m]
    <3>1. /\ Promised(m) \in Nat /\ Promised(m)' = Promised(m)
          /\ instance_until >= Promised(m)
          /\ node_until[m] >= Promised(m) /\ lock_until[m] >= Promised(m)
      <4>1. Sustained(m) /\ Promised(m) \in Nat
        BY PromisedType DEF LifeInv
      <4> QED  BY <2>2, <4>1 DEF Sustained, Promised
    <3>2. /\ instance_until \in Nat /\ instance_until' \in Nat
          /\ node_until[m] \in Nat /\ node_until'[m] \in Nat
          /\ lock_until[m] \in Nat /\ lock_until'[m] \in Nat
      BY PromisedType DEF LifeInv, UntilTypes
    <3> QED  BY <2>2, <3>1, <3>2 DEF Sustained
  <2> QED  BY <2>1, <2>2
<1> QED  BY <1>2, <1>3 DEF LifeInv

LEMMA LifeStep == RP!TypeOK /\ RP!Standings /\ LifeInv /\ [Next]_vars => LifeInv'
<1> SUFFICES ASSUME RP!TypeOK, RP!Standings, LifeInv, [Next]_vars PROVE LifeInv'
  OBVIOUS
<1>0. /\ UntilTypes /\ instance_until \in Range
      /\ node_until \in [Nodes -> Range] /\ lock_until \in [Nodes -> Range]
      /\ \A u \in Range : u \in Nat
      /\ locks \in [Nodes -> RP!StakeEntry] /\ history \in [Nodes -> RP!History]
  BY LedgerType DEF LifeInv, UntilTypes, Range, RP!TypeOK
<1>a. \A m \in Nodes : R!Pending(m) => R!Registered(m)
  BY PendingIsRegistered
\* The calls that leave locks and history alone and extend one node's entry.
<1>b. ASSUME NEW n \in Nodes, extend_instance_ttl, BumpNode(n),
             UNCHANGED <<now, locks, history, lock_until>>
      PROVE  LifeInv'
  <2>1. instance_until' \in Range /\ instance_until' >= instance_until
    BY <1>b, <1>0, InstanceGrows
  <2>2. /\ node_until' \in [Nodes -> Range]
        /\ R!Registered(n) => node_until'[n] >= node_until[n]
        /\ \A m \in Nodes \ {n} : node_until'[m] = node_until[m]
    BY <1>b, <1>0, NodeGrows
  <2>3. ASSUME NEW m \in Nodes, R!Pending(m)'
        PROVE  /\ R!Pending(m) /\ history'[m].unstaked_at = history[m].unstaked_at
               /\ node_until'[m] >= node_until[m] /\ lock_until'[m] >= lock_until[m]
    <3>1. R!Pending(m)
      BY <1>b, <2>3 DEF R!Pending
    <3>2. node_until[m] \in Nat /\ lock_until[m] \in Nat
      BY <1>0
    <3> QED  BY <1>a, <1>b, <2>2, <3>1, <3>2
  <2> QED  BY <1>b, <1>0, <2>1, <2>2, <2>3, LifeKept
\* The calls that end a node's pending unstake.
<1>c. ASSUME NEW n \in Nodes, extend_instance_ttl, TakeLockEntry(n),
             BumpNode(n) \/ UNCHANGED node_until, now' = now,
             ~R!Pending(n)',
             \A m \in Nodes \ {n} :
                 locks'[m] = locks[m] /\ history'[m].unstaked_at = history[m].unstaked_at
      PROVE  LifeInv'
  <2>1. instance_until' \in Range /\ instance_until' >= instance_until
    BY <1>c, <1>0, InstanceGrows
  <2>2. /\ node_until' \in [Nodes -> Range]
        /\ \A m \in Nodes \ {n} : node_until'[m] = node_until[m]
    BY <1>c, <1>0, NodeGrows
  <2>3. /\ lock_until' \in [Nodes -> Range]
        /\ \A m \in Nodes \ {n} : lock_until'[m] = lock_until[m]
    BY <1>c, <1>0, LockTaken
  <2>4. ASSUME NEW m \in Nodes, R!Pending(m)'
        PROVE  /\ R!Pending(m) /\ history'[m].unstaked_at = history[m].unstaked_at
               /\ node_until'[m] >= node_until[m] /\ lock_until'[m] >= lock_until[m]
    <3>1. m # n
      BY <1>c, <2>4
    <3>2. R!Pending(m)
      BY <1>c, <2>4, <3>1 DEF R!Pending
    <3>3. node_until[m] \in Nat /\ lock_until[m] \in Nat
      BY <1>0
    <3> QED  BY <1>c, <2>2, <2>3, <3>1, <3>2, <3>3
  <2> QED  BY <1>c, <1>0, <2>1, <2>2, <2>3, <2>4, LifeKept
\* The steps that leave the pending unstakes alone.
<1>d. ASSUME UNCHANGED <<now, locks, history>>,
             instance_until' \in Range, instance_until' >= instance_until,
             node_until' \in [Nodes -> Range], lock_until' \in [Nodes -> Range],
             \A m \in Nodes : R!Pending(m) =>
                 node_until'[m] >= node_until[m] /\ lock_until'[m] >= lock_until[m]
      PROVE  LifeInv'
  <2>1. \A m \in Nodes : R!Pending(m)' => R!Pending(m)
    BY <1>d DEF R!Pending
  <2> QED  BY <1>d, <2>1, LifeKept
<1>e. \A u \in Range : u >= u
  BY <1>0
<1>1. CASE UNCHANGED vars
  BY <1>1, <1>0, <1>d, <1>e DEF vars, registryVars, untilVars
<1>2. ASSUME NEW c \in Councils, NEW minStake \in MinStakes, NEW period \in LockPeriods,
             initialize(c, minStake, period)
      PROVE  LifeInv'
  <2>1. instance_until' \in Range /\ instance_until' >= instance_until
    BY <1>2, <1>0, InstanceGrows DEF initialize
  <2> QED  BY <1>2, <1>0, <1>d, <1>e, <2>1 DEF initialize, R!initialize
<1>3. CASE set_token_address
  BY <1>3, <1>0, <1>d, <1>e DEF set_token_address, R!set_token_address, untilVars
<1>4. ASSUME NEW n \in Nodes, NEW m \in Metadata, register(n, m) PROVE LifeInv'
  BY <1>4, <1>b DEF register, R!register
<1>5. ASSUME NEW n \in Nodes, NEW m \in Metadata, update_metadata(n, m) PROVE LifeInv'
  BY <1>5, <1>b DEF update_metadata, R!update_metadata
<1>6. ASSUME NEW n \in Nodes, NEW amount \in Amounts, stake(n, amount) PROVE LifeInv'
  BY <1>6, <1>b DEF stake, R!stake
\* unstake makes the promise that is kept from then on.
<1>7. ASSUME NEW n \in Nodes, NEW amount \in Amounts, unstake(n, amount) PROVE LifeInv'
  <2>1. /\ extend_instance_ttl /\ BumpNode(n) /\ set_lock_entry(n) /\ now' = now
        /\ R!SetLockEntry(n, amount)
    BY <1>7 DEF unstake, R!unstake
  <2>2. /\ history'[n].unstaked_at = now
        /\ \A m \in Nodes \ {n} :
              locks'[m] = locks[m] /\ history'[m].unstaked_at = history[m].unstaked_at
    BY <2>1, <1>0 DEF R!SetLockEntry
  <2>3. /\ instance_until' \in Range /\ instance_until' >= instance_until
        /\ instance_until' >= ledger + LEDGER_BUMP_THRESHOLD
    BY <2>1, <1>0, InstanceGrows
  <2>4. /\ node_until' \in [Nodes -> Range]
        /\ node_until'[n] >= ledger + LEDGER_BUMP_THRESHOLD
        /\ \A m \in Nodes \ {n} : node_until'[m] = node_until[m]
    BY <2>1, <1>0, NodeGrows
  <2>5. /\ lock_until' \in [Nodes -> Range]
        /\ lock_until'[n] >= ledger + LEDGER_BUMP_THRESHOLD
        /\ \A m \in Nodes \ {n} : lock_until'[m] = lock_until[m]
    BY <2>1, <1>0, LockGrows
  <2>6. Sustained(n)'
    <3>1. Promised(n)' = ledger + LEDGER_BUMP_THRESHOLD
      BY <2>2 DEF Promised, ledger, R!LedgerAt
    <3> QED  BY <2>3, <2>4, <2>5, <3>1 DEF Sustained
  <2>7. ASSUME NEW m \in Nodes, m # n, R!Pending(m)'
        PROVE  /\ R!Pending(m) /\ history'[m].unstaked_at = history[m].unstaked_at
               /\ node_until'[m] >= node_until[m] /\ lock_until'[m] >= lock_until[m]
    <3>1. R!Pending(m)
      BY <2>2, <2>7 DEF R!Pending
    <3>2. node_until[m] \in Nat /\ lock_until[m] \in Nat
      BY <1>0
    <3> QED  BY <2>2, <2>4, <2>5, <2>7, <3>1, <3>2
  <2> QED  BY <2>1, <2>3, <2>4, <2>5, <2>6, <2>7, LifeKept
<1>8. ASSUME NEW n \in Nodes, finalize_unstake(n) PROVE LifeInv'
  <2>1. /\ extend_instance_ttl /\ TakeLockEntry(n) /\ UNCHANGED node_until
        /\ now' = now /\ history' = history /\ R!RemoveLockEntry(n)
    BY <1>8 DEF finalize_unstake, R!finalize_unstake
  <2>2. ~R!Pending(n)' /\ \A m \in Nodes \ {n} : locks'[m] = locks[m]
    BY <2>1, <1>0 DEF R!RemoveLockEntry, R!Pending, R!NoLock
  <2> QED  BY <2>1, <2>2, <1>c
<1>9. ASSUME NEW auth \in SUBSET R!Accounts, NEW n \in Nodes, slash(auth, n) PROVE LifeInv'
  <2>1. /\ extend_instance_ttl /\ TakeLockEntry(n) /\ BumpNode(n)
        /\ now' = now /\ R!Seize(n)
    BY <1>9 DEF slash, R!slash
  <2>2. /\ ~R!Pending(n)'
        /\ \A m \in Nodes \ {n} : locks'[m] = locks[m] /\ history'[m] = history[m]
    BY <2>1, <1>0 DEF R!Seize, R!Pending, R!NoLock
  <2> QED  BY <2>1, <2>2, <1>c
<1>10. ASSUME NEW auth \in SUBSET R!Accounts, NEW n \in Nodes, reinstate_node(auth, n)
       PROVE  LifeInv'
  BY <1>10, <1>b DEF reinstate_node, R!reinstate_node
<1>11. ASSUME NEW n \in Nodes, get_node(n) PROVE LifeInv'
  BY <1>11, <1>b DEF get_node, registryVars
<1>16. ASSUME NEW n \in Nodes, is_active(n) PROVE LifeInv'
  <2>1. CASE R!Registered(n)
    BY <1>16, <2>1, <1>b DEF is_active, registryVars
  <2>2. CASE ~R!Registered(n)
    <3>1. instance_until' \in Range /\ instance_until' >= instance_until
      BY <1>16, <1>0, InstanceGrows DEF is_active
    <3> QED  BY <1>16, <2>2, <3>1, <1>0, <1>d, <1>e DEF is_active, registryVars
  <2> QED  BY <2>1, <2>2
\* Time does not undo what was promised.
<1>12. CASE CloseLedger
  <2>1. /\ UNCHANGED <<locks, history, instance_until, node_until, lock_until>>
        /\ now' = now + CloseTime
    BY <1>12 DEF CloseLedger, R!CloseLedger, untilVars
  <2>2. ledger' \in Nat /\ ledger' >= ledger
    <3>1. now \in Nat /\ CloseTime \in Nat \ {0}
      BY RegistryIsInstantiated DEF RP!TypeOK, RP!RegistryAssumption
    <3>2. (now + CloseTime) \div CloseTime = (now \div CloseTime) + 1
          /\ now \div CloseTime \in Nat
      BY <3>1
    <3> QED  BY <2>1, <3>2 DEF ledger, R!LedgerAt
  <2>3. Range \subseteq Range'
    <3>1. MaxLife' = MaxLife
      BY DEF MaxLife
    <3> QED  BY <2>2, <3>1, LedgerType DEF Range
  <2>4. UntilTypes'
    BY <2>1, <2>3, <1>0 DEF UntilTypes
  <2>5. ASSUME NEW m \in Nodes PROVE Sustained(m)'
    BY <2>1 DEF LifeInv, Sustained, Promised, R!Pending
  <2> QED  BY <2>4, <2>5 DEF LifeInv
<1>13. CASE restore_instance
  <2>1. /\ UNCHANGED <<now, locks, history, node_until, lock_until>>
        /\ instance_until' = Created(ledger) /\ ~(ledger <= instance_until)
    BY <1>13 DEF restore_instance, registryVars, InstanceIsLive, IsLive
  <2>2. instance_until' \in Range /\ instance_until' >= instance_until
    BY <2>1, <1>0, CreationBounds, LedgerType
  <2> QED  BY <2>1, <2>2, <1>0, <1>d, <1>e
<1>14. ASSUME NEW n \in Nodes, restore_node(n) PROVE LifeInv'
  <2>1. /\ UNCHANGED <<now, locks, history, instance_until, lock_until>>
        /\ node_until' = [node_until EXCEPT ![n] = Created(ledger)]
        /\ ~(ledger <= node_until[n])
    BY <1>14 DEF restore_node, registryVars, NodeIsLive, IsLive
  <2>2. Created(ledger) \in Range /\ Created(ledger) >= node_until[n]
    BY <2>1, <1>0, CreationBounds, LedgerType
  <2>3. /\ node_until' \in [Nodes -> Range]
        /\ \A m \in Nodes : node_until'[m] >= node_until[m]
    BY <2>1, <2>2, <1>0, <1>e
  <2> QED  BY <2>1, <2>3, <1>0, <1>d, <1>e
<1>15. ASSUME NEW n \in Nodes, restore_lock(n) PROVE LifeInv'
  <2>1. /\ UNCHANGED <<now, locks, history, instance_until, node_until>>
        /\ lock_until' = [lock_until EXCEPT ![n] = Created(ledger)]
        /\ ~(ledger <= lock_until[n])
    BY <1>15 DEF restore_lock, registryVars, LockIsLive, IsLive
  <2>2. Created(ledger) \in Range /\ Created(ledger) >= lock_until[n]
    BY <2>1, <1>0, CreationBounds, LedgerType
  <2>3. /\ lock_until' \in [Nodes -> Range]
        /\ \A m \in Nodes : lock_until'[m] >= lock_until[m]
    BY <2>1, <2>2, <1>0, <1>e
  <2> QED  BY <2>1, <2>3, <1>0, <1>d, <1>e
<1> QED
  BY <1>1, <1>2, <1>3, <1>4, <1>5, <1>6, <1>7, <1>8, <1>9, <1>10, <1>11, <1>12, <1>13,
     <1>14, <1>15, <1>16
  DEF Next

-----------------------------------------------------------------------------
(* The theorems.                                                            *)

LEMMA LifeHolds == Spec => [](RP!TypeOK /\ RP!Standings /\ LifeInv)
  BY LifeInit, LifeStep, StandingsHold, PTL DEF Spec

\* The registry's storage and the lifetimes of its entries keep their types: no
\* entry ever lives longer than one extension or creation from now.
THEOREM TypeCorrect == Spec => []TypeOK
<1>1. RP!TypeOK /\ LifeInv => TypeOK
  BY SameTypes DEF TypeOK, LifeInv, UntilTypes, Range
<1> QED  BY <1>1, LifeHolds, PTL

\* A lock of a number of seconds is over within as many ledgers.
LEMMA LockInLedgers ==
    ASSUME NEW t \in Nat, NEW since \in Nat, NEW period \in Nat, t <= since + period,
           CloseTime \in Nat \ {0}
    PROVE  R!LedgerAt(t) <= R!LedgerAt(since) + period
<1> DEFINE q == since \div CloseTime
<1>1. q \in Nat /\ since < CloseTime * q + CloseTime
  OBVIOUS
<1> HIDE DEF q
<1>2. CloseTime * q + CloseTime = CloseTime * (q + 1)
  BY <1>1
<1>3. period <= CloseTime * period /\ CloseTime * period \in Nat
  OBVIOUS
<1>4. CloseTime * (q + 1) + CloseTime * period = CloseTime * (q + 1 + period)
  BY <1>1
<1>5. t < CloseTime * (q + 1 + period)
  BY <1>1, <1>2, <1>3, <1>4
<1>6. t \div CloseTime < q + 1 + period
  <2> DEFINE p == t \div CloseTime
  <2>1. p \in Nat /\ CloseTime * p <= t
    OBVIOUS
  <2> HIDE DEF p
  <2>2. CloseTime * p < CloseTime * (q + 1 + period)
    BY <1>1, <1>5, <2>1
  <2> QED  BY <1>1, <2>1, <2>2 DEF p
<1>7. t \div CloseTime \in Nat
  OBVIOUS
<1> QED  BY <1>1, <1>6, <1>7 DEF R!LedgerAt, q

\* While an unstake waits out a lock of at most the threshold, no entry that
\* finalize_unstake or slash needs is archived, for every pair of threshold and
\* amount, every pace of the ledgers and every traffic in between.
THEOREM LockWindowStaysLive == Spec => []LockWindowIsLive
<1>1. RP!TypeOK /\ RP!Standings /\ LifeInv => LockWindowIsLive
  <2> SUFFICES ASSUME RP!TypeOK, RP!Standings, LifeInv, NEW n \in Nodes, R!Pending(n),
                      config.stake_lock_period <= LEDGER_BUMP_THRESHOLD,
                      now <= locks[n].unlocks_at
               PROVE  InstanceIsLive /\ NodeIsLive(n) /\ LockIsLive(n)
    BY DEF LockWindowIsLive
  <2> DEFINE since == history[n].unstaked_at
             period == config.stake_lock_period
  <2>1. /\ now \in Nat /\ since \in Nat /\ period \in Nat /\ CloseTime \in Nat \ {0}
    BY RegistryIsInstantiated DEF RP!TypeOK, RP!History, RP!Config, RP!RegistryAssumption
  <2>2. locks[n].unlocks_at = since + period
    BY DEF RP!Standings, RP!Standing, RP!Pending, RP!NoLock, R!Pending, R!NoLock
  <2>3. R!LedgerAt(now) <= R!LedgerAt(since) + period
    <3>1. now <= since + period
      BY <2>2
    <3> HIDE DEF since, period
    <3> QED  BY <2>1, <3>1, LockInLedgers
  <2>4. ledger <= Promised(n)
    <3>1. R!LedgerAt(since) \in Nat /\ ledger \in Nat
      <4>1. since \div CloseTime \in Nat
        BY <2>1
      <4> QED  BY <4>1, LedgerType DEF R!LedgerAt
    <3> HIDE DEF since, period
    <3>2. period <= LEDGER_BUMP_THRESHOLD /\ Promised(n) = R!LedgerAt(since) + LEDGER_BUMP_THRESHOLD
      BY DEF Promised, since, period
    <3> QED  BY <2>1, <2>3, <3>1, <3>2, TtlAssumption DEF ledger
  <2>5. /\ instance_until >= Promised(n)
        /\ node_until[n] >= Promised(n) /\ lock_until[n] >= Promised(n)
    BY DEF LifeInv, Sustained
  <2>6. /\ instance_until \in Nat /\ node_until[n] \in Nat /\ lock_until[n] \in Nat
        /\ Promised(n) \in Nat /\ ledger \in Nat
    BY PromisedType, LedgerType DEF LifeInv, UntilTypes
  <2>7. ledger <= instance_until /\ ledger <= node_until[n] /\ ledger <= lock_until[n]
    BY <2>4, <2>5, <2>6
  <2> QED  BY <2>7 DEF InstanceIsLive, NodeIsLive, LockIsLive, IsLive
<1> QED  BY <1>1, LifeHolds, PTL

=============================================================================
