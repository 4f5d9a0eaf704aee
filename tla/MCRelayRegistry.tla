-------------------------- MODULE MCRelayRegistry --------------------------
(* Two relay nodes, a council of two who must both sign and of whom one is  *)
(* listed twice, a minimum stake of two and a lock of one or two time       *)
(* units.                                                                   *)
EXTENDS RelayRegistry, TLC

CONSTANTS n1, n2, c1, c2, registry

MCNodes == {n1, n2}
MCMembers == {c1, c2}
MCCouncils ==
    {[members |-> <<c1, c1, c2>>, threshold |-> 3], [members |-> <<c1>>, threshold |-> 2]}
MCMinStakes == {0, 2}
MCLockPeriods == {0, 1, 2}
MCLongLocks == {6}
MCMetadata ==
    {[uptime_commitment |-> 100, region_len |-> 32],
     [uptime_commitment |-> 101, region_len |-> 0]}
MCAmounts == 0 .. 3
MCInitialTokens == (n1 :> 3) @@ (n2 :> 2) @@ (registry :> 0)

=============================================================================
