----------------------------- MODULE MCProtocol -----------------------------
(* Two relays and a council of one over registry, fee distributor and       *)
(* treasury.                                                                *)
EXTENDS Protocol, TLC

CONSTANTS n1, n2, c1, registry, fees, treasury

MCNodes == {n1, n2}
MCMembers == {c1}
MCCouncils == {[members |-> <<c1>>, threshold |-> 1]}
MCMetadata == {[uptime_commitment |-> 100, region_len |-> 32]}
MCStakeTokens == (n1 :> 2) @@ (n2 :> 2) @@ (registry :> 0)
MCFeeTokens == (n1 :> 0) @@ (n2 :> 0) @@ (c1 :> 0) @@ (fees :> 4) @@ (treasury :> 0)

=============================================================================
