-------------------------- MODULE MCFeeDistributor --------------------------
(* Two accounts, who are also the council (one of them listed twice), two    *)
(* batches, and rates at which a fee splits evenly, rounds down to nothing,  *)
(* or is exceeded by the treasury's share.                                   *)
EXTENDS FeeDistributor, TLC

CONSTANTS a1, a2, fees, treasury

MCAccounts == {a1, a2}
MCCouncils ==
    {[members |-> <<a1, a1, a2>>, threshold |-> 3], [members |-> <<a1>>, threshold |-> 0]}
MCFeeRates == {0, 5000, 10000, 10001}
MCShareRates == {0, 5000, 20000}
MCBatchIds == {1, 2}
MCBatchSizes == {0, 1, 2}
MCInitialTokens == (a1 :> 0) @@ (a2 :> 1) @@ (fees :> 4) @@ (treasury :> 0)

=============================================================================
