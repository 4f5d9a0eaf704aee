-------------------------- MODULE RegistryLifetimes --------------------------
(* The relay registry with the lifetimes of its storage entries: the        *)
(* instance, a Node entry and a LockEntry per address.  An entry point is   *)
(* the registry's action of the same name and what it does to the entries   *)
(* it touches.  An archived entry makes the call fail, and a call that      *)
(* fails extends nothing.                                                   *)
EXTENDS StorageTtl, FiniteSets

CONSTANTS
    Nodes, Members, RegistryAddr, Councils, MinStakes, LockPeriods, Metadata,
    Amounts, MaxI128, MaxU64, CloseTime, InitialTokens

VARIABLES
    config, token_set, nodes, locks, node_count, now, tokens, signers, history,
    instance_until,  \* the last ledger in which the instance entry is live
    node_until,      \* per address: that of its Node entry; 0 where there is none
    lock_until       \* per address: that of its LockEntry; 0 where there is none

registryVars == <<config, token_set, nodes, locks, node_count, now, tokens, signers, history>>
untilVars == <<instance_until, node_until, lock_until>>
vars == <<registryVars, untilVars>>

R == INSTANCE RelayRegistry

\* The registry's constants are constrained as they are there.
ASSUME RegistryParameters == R!RegistryAssumption /\ R!FiniteNodes

ledger == R!LedgerAt(now)
MaxLife == IF MinTtl > LEDGER_BUMP_AMOUNT THEN MinTtl ELSE LEDGER_BUMP_AMOUNT

\* No lifetime reaches beyond one extension from now.
TypeOK ==
    /\ R!TypeOK
    /\ instance_until \in 0 .. ledger + MaxLife
    /\ node_until \in [Nodes -> 0 .. ledger + MaxLife]
    /\ lock_until \in [Nodes -> 0 .. ledger + MaxLife]

\* The instance entry is created when the contract is deployed.
Init ==
    /\ R!Init
    /\ instance_until = Created(ledger)
    /\ node_until = [n \in Nodes |-> 0]
    /\ lock_until = [n \in Nodes |-> 0]

-----------------------------------------------------------------------------
(* What the helpers of storage.rs do to the entries.                        *)

InstanceIsLive == IsLive(instance_until, ledger)
NodeIsLive(n) == R!Registered(n) => IsLive(node_until[n], ledger)
LockIsLive(n) == R!Pending(n) => IsLive(lock_until[n], ledger)

extend_instance_ttl ==
    /\ InstanceIsLive
    /\ instance_until' = Extended(instance_until, ledger)

\* get_node and set_node both extend; a call does the one or both.
BumpNode(n) ==
    /\ NodeIsLive(n)
    /\ node_until' = [node_until EXCEPT ![n] =
                         Extended(IF R!Registered(n) THEN @ ELSE Created(ledger), ledger)]

\* Seeded fault: the entry is written and not extended.
WriteLockOnly(n) ==
    /\ LockIsLive(n)
    /\ lock_until' = [lock_until EXCEPT ![n] = IF R!Pending(n) THEN @ ELSE Created(ledger)]

set_lock_entry(n) ==
    /\ LockIsLive(n)
    /\ lock_until' = [lock_until EXCEPT ![n] =
                         Extended(IF R!Pending(n) THEN @ ELSE Created(ledger), ledger)]

\* get_lock_entry and, if there is one, remove_lock_entry.
TakeLockEntry(n) ==
    /\ LockIsLive(n)
    /\ lock_until' = [lock_until EXCEPT ![n] = 0]

-----------------------------------------------------------------------------
(* The entry points.                                                        *)

initialize(c, minStake, period) ==
    /\ R!initialize(c, minStake, period)
    /\ extend_instance_ttl
    /\ UNCHANGED <<node_until, lock_until>>

\* Done from outside the contract, without its entry points.
set_token_address ==
    /\ R!set_token_address
    /\ InstanceIsLive
    /\ UNCHANGED untilVars

register(n, m) ==
    /\ R!register(n, m)
    /\ extend_instance_ttl /\ BumpNode(n)
    /\ UNCHANGED lock_until

update_metadata(n, m) ==
    /\ R!update_metadata(n, m)
    /\ extend_instance_ttl /\ BumpNode(n)
    /\ UNCHANGED lock_until

stake(n, amount) ==
    /\ R!stake(n, amount)
    /\ extend_instance_ttl /\ BumpNode(n)
    /\ UNCHANGED lock_until

unstake(n, amount) ==
    /\ R!unstake(n, amount)
    /\ extend_instance_ttl /\ BumpNode(n) /\ set_lock_entry(n)

\* The node's own entry is not read.
finalize_unstake(n) ==
    /\ R!finalize_unstake(n)
    /\ extend_instance_ttl /\ TakeLockEntry(n)
    /\ UNCHANGED node_until

slash(auth, n) ==
    /\ R!slash(auth, n)
    /\ extend_instance_ttl /\ BumpNode(n) /\ TakeLockEntry(n)

reinstate_node(auth, n) ==
    /\ R!reinstate_node(auth, n)
    /\ extend_instance_ttl /\ BumpNode(n)
    /\ UNCHANGED lock_until

\* The views, submitted as transactions.  get_node fails on an address without
\* an entry; is_active answers false and keeps the instance's extension.
get_node(n) ==
    /\ R!Registered(n)
    /\ extend_instance_ttl /\ BumpNode(n)
    /\ UNCHANGED <<registryVars, lock_until>>

is_active(n) ==
    /\ extend_instance_ttl
    /\ IF R!Registered(n) THEN BumpNode(n) ELSE UNCHANGED node_until
    /\ UNCHANGED <<registryVars, lock_until>>

\* A ledger closes.
CloseLedger == R!CloseLedger /\ UNCHANGED untilVars

\* Anybody may have an archived entry restored, for the shortest lifetime.
restore_instance ==
    /\ ~InstanceIsLive
    /\ instance_until' = Created(ledger)
    /\ UNCHANGED <<registryVars, node_until, lock_until>>

restore_node(n) ==
    /\ ~NodeIsLive(n)
    /\ node_until' = [node_until EXCEPT ![n] = Created(ledger)]
    /\ UNCHANGED <<registryVars, instance_until, lock_until>>

restore_lock(n) ==
    /\ ~LockIsLive(n)
    /\ lock_until' = [lock_until EXCEPT ![n] = Created(ledger)]
    /\ UNCHANGED <<registryVars, instance_until, node_until>>

Next ==
    \/ \E c \in Councils, minStake \in MinStakes, period \in LockPeriods :
          initialize(c, minStake, period)
    \/ set_token_address
    \/ \E n \in Nodes, m \in Metadata : register(n, m) \/ update_metadata(n, m)
    \/ \E n \in Nodes, amount \in Amounts : stake(n, amount) \/ unstake(n, amount)
    \/ \E n \in Nodes : finalize_unstake(n) \/ get_node(n) \/ is_active(n)
    \/ \E auth \in SUBSET R!Accounts, n \in Nodes : slash(auth, n) \/ reinstate_node(auth, n)
    \/ CloseLedger
    \/ restore_instance
    \/ \E n \in Nodes : restore_node(n) \/ restore_lock(n)

Spec == Init /\ [][Next]_vars

\* A node that waits for its tokens keeps restoring what it needs and calling
\* finalize_unstake.  The instance may be archived again in between, so that the
\* call is possible again and again, not for good.
FairSpec ==
    /\ Spec
    /\ WF_vars(CloseLedger) /\ WF_vars(restore_instance)
    /\ \A n \in Nodes : WF_vars(restore_lock(n)) /\ SF_vars(finalize_unstake(n))

-----------------------------------------------------------------------------
(* Properties.                                                              *)

\* While an unstake waits out a lock of at most the threshold, the entries that
\* finalize_unstake and slash need stay live, whoever calls what or nobody does:
\* neither the node nor the council has to restore anything to act in time.
LockWindowIsLive ==
    \A n \in Nodes :
        /\ R!Pending(n)
        /\ config.stake_lock_period <= LEDGER_BUMP_THRESHOLD
        /\ now <= locks[n].unlocks_at
        => InstanceIsLive /\ NodeIsLive(n) /\ LockIsLive(n)

\* With a longer lock entries are archived before it is over.  The node loses
\* nothing by it: if it keeps restoring and finalizing, its unstake ends.
UnlockDespiteArchival == \A n \in Nodes : R!Pending(n) ~> ~R!Pending(n)

=============================================================================
