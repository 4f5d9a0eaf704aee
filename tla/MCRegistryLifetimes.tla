------------------------ MODULE MCRegistryLifetimes ------------------------
(* One node under a council of one.  Of the two locks one is within the     *)
(* threshold and one outlives every extension.                              *)
EXTENDS RegistryLifetimes, TLC

CONSTANTS n1, c1, registry

MCNodes == {n1}
MCMembers == {c1}
MCCouncils == {[members |-> <<c1>>, threshold |-> 1]}
MCLockPeriods == {2, 4}
MCMetadata == {[uptime_commitment |-> 100, region_len |-> 32]}
MCInitialTokens == (n1 :> 2) @@ (registry :> 0)

=============================================================================
