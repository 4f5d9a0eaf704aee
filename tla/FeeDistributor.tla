--------------------------- MODULE FeeDistributor ---------------------------
(* The fee distributor contract composed with the treasury it pays.  A      *)
(* distribution is one transaction over both contracts: it credits the      *)
(* relay, records the batch, moves the treasury's share and then calls      *)
(* deposit of the treasury, which moves tokens again.  If any part fails,   *)
(* all of it is undone.                                                     *)
(*                                                                          *)
(* The treasury is the Treasury module on the variables of the same names;  *)
(* its transactions interleave with those of the fee distributor.           *)
(* Abstracted: settlement timestamps, events, storage lifetimes; the        *)
(* configured treasury and token are the deployed ones.                     *)
EXTENDS AdminCouncil, TokenLedger, SequencesExt

CONSTANTS
    Accounts,      \* addresses that can sign: relays, council members
    FeeAddr,       \* the fee distributor's own contract address
    TreasuryAddr,  \* the treasury's contract address
    Councils,      \* the councils a caller may pass to either initialize
    FeeRates,      \* the fee rates a caller may pass, in basis points
    ShareRates,    \* the treasury shares a caller may pass, in basis points
    BatchIds,      \* the batch ids a caller may pass
    BatchSizes,    \* the batch sizes a caller may pass
    NonRootAuth,   \* whether deposit may move the fee distributor's tokens
    Amounts, NameLengths, MaxI128, MaxEntries, MaxPrograms, InitialTokens

VARIABLES
    fee_config,   \* FeeConfig; NoFeeConfig before initialize
    earnings,     \* Earnings(address)
    fee_entries,  \* FeeEntry(batch_id); NoFeeEntry where there is none
    council, balance, stats, entries, programs,  \* the treasury's storage
    tokens,       \* the token contract's ledger
    signers       \* history: the authorisations the last transaction carried

feeVars == <<fee_config, earnings, fee_entries>>
treasuryVars == <<council, balance, stats, entries, programs>>
vars == <<feeVars, treasuryVars, tokens, signers>>

T == INSTANCE Treasury WITH Contracts <- {FeeAddr}

ASSUME FeeAssumption ==
    /\ FeeAddr \notin Accounts \cup {TreasuryAddr}
    /\ TreasuryAddr \notin Accounts
    /\ \A c \in Councils : c \in [members : Seq(Accounts), threshold : Nat]
    /\ Amounts \subseteq Int
    /\ InitialTokens \in [Accounts \cup {FeeAddr, TreasuryAddr} -> Nat]
    /\ FeeRates \subseteq Nat /\ ShareRates \subseteq Nat /\ BatchSizes \subseteq Nat
    /\ NonRootAuth \in BOOLEAN
    /\ NameLengths \subseteq Nat
    /\ MaxI128 \in Nat /\ MaxEntries \in Nat /\ MaxPrograms \in Nat

\* A batch id is a u64.
ASSUME FiniteBatchIds == IsFiniteSet(BatchIds)

Bps == 10000

NoFeeConfig == [fee_rate_bps |-> 0, treasury_share_bps |-> 0, council |-> NoCouncil]
FeeConfig == [fee_rate_bps : Nat, treasury_share_bps : Nat,
              council : [members : Seq(Accounts), threshold : Nat]]
EarningsRecord == [total_earned : Int, total_claimed : Int, unclaimed : Int]
NoEarnings == [total_earned |-> 0, total_claimed |-> 0, unclaimed |-> 0]
FeeEntry == [relay_address : Accounts \cup {T!NoAddress}, amount : Nat, treasury_share : Nat]
NoFeeEntry == [relay_address |-> T!NoAddress, amount |-> 0, treasury_share |-> 0]

TypeOK ==
    /\ fee_config \in FeeConfig
    /\ earnings \in [Accounts -> EarningsRecord]
    /\ fee_entries \in [BatchIds -> FeeEntry]
    /\ T!TypeOK

Init ==
    /\ fee_config = NoFeeConfig
    /\ earnings = [a \in Accounts |-> NoEarnings]
    /\ fee_entries = [b \in BatchIds |-> NoFeeEntry]
    /\ T!Init

-----------------------------------------------------------------------------
(* Helpers of the entry points.                                             *)

Initialized == fee_config # NoFeeConfig
Distributed(b) == fee_entries[b] # NoFeeEntry
ValidFeeRate(rate) == rate # 0 /\ rate <= Bps

\* checked_add on i128, both ends.
InI128(x) == -MaxI128 - 1 <= x /\ x <= MaxI128

\* A call of calculate_fee on a batch that is not empty.
calculate_fee(batchSize) == (batchSize * fee_config.fee_rate_bps) \div Bps
TreasuryShare(fee) == (fee * fee_config.treasury_share_bps) \div Bps

\* Seeded faults: the relay is credited the treasury's share as well; a claim
\* leaves the claimable balance as it was.
CreditWhole(record, fee, share) ==
    [record EXCEPT !.total_earned = @ + fee, !.unclaimed = @ + fee]
ClaimAndKeep(record) == [record EXCEPT !.total_claimed = @ + record.unclaimed]

Credited(record, fee, share) ==
    [record EXCEPT !.total_earned = @ + fee - share, !.unclaimed = @ + fee - share]
Claimed(record) ==
    [record EXCEPT !.total_claimed = @ + record.unclaimed, !.unclaimed = 0]

\* Seeded fault: deposit is never called.
ShareUnbooked(share) ==
    /\ CanTransfer(tokens, FeeAddr, share)
    /\ tokens' = Transfer(tokens, FeeAddr, TreasuryAddr, share)
    /\ UNCHANGED treasuryVars

\* The share is transferred, and then deposit is called, which transfers it
\* once more from the fee distributor.  That second transfer is authorised by
\* the fee distributor only as an indirect caller, which the network refuses
\* and the repository's test environment allows: NonRootAuth.
PayShare(share) ==
    /\ CanTransfer(tokens, FeeAddr, share)
    /\ NonRootAuth
    /\ T!DepositOn(Transfer(tokens, FeeAddr, TreasuryAddr, share), FeeAddr, share)

-----------------------------------------------------------------------------
(* The entry points.                                                        *)

\* Nobody has to sign, and the treasury's share is not looked at.
initialize(c, rate, shareRate) ==
    /\ ~Initialized
    /\ ValidFeeRate(rate)
    /\ ValidCouncil(c)
    /\ fee_config' = [fee_rate_bps |-> rate, treasury_share_bps |-> shareRate, council |-> c]
    /\ signers' = {}
    /\ UNCHANGED <<earnings, fee_entries, treasuryVars, tokens>>

\* Seeded fault: a batch is distributed over.
AnyBatch(b) == TRUE
NewBatch(b) == ~Distributed(b)

\* Anybody may call it, for any relay, batch and size.
distribute(relay, b, batchSize) ==
    /\ NewBatch(b)
    /\ batchSize # 0
    /\ Initialized
    /\ LET fee == calculate_fee(batchSize)
           share == TreasuryShare(fee)
           record == Credited(earnings[relay], fee, share)
       IN  /\ InI128(record.total_earned) /\ InI128(record.unclaimed)
           /\ earnings' = [earnings EXCEPT ![relay] = record]
           /\ fee_entries' = [fee_entries EXCEPT ![b] =
                 [relay_address |-> relay, amount |-> fee, treasury_share |-> share]]
           /\ IF share > 0 THEN PayShare(share) ELSE UNCHANGED <<treasuryVars, tokens>>
    /\ signers' = {}
    /\ UNCHANGED fee_config

\* Seeded fault: only a relay that never claimed before has something to claim.
FirstClaimOnly(record) == record.unclaimed # 0 /\ record.total_claimed = 0
Claimable(record) == record.unclaimed # 0

\* A negative balance gets past the NothingToClaim check; the transfer traps.
claim(relay) ==
    /\ Initialized
    /\ Claimable(earnings[relay])
    /\ InI128(earnings[relay].total_claimed + earnings[relay].unclaimed)
    /\ earnings' = [earnings EXCEPT ![relay] = Claimed(@)]
    /\ CanTransfer(tokens, FeeAddr, earnings[relay].unclaimed)
    /\ tokens' = Transfer(tokens, FeeAddr, relay, earnings[relay].unclaimed)
    /\ signers' = {relay}
    /\ UNCHANGED <<fee_config, fee_entries, treasuryVars>>

\* Seeded fault: the council is not asked.
AnyoneMayConfigure(auth) == Initialized
MayConfigure(auth) == RequireCouncilAuth(fee_config.council, auth)

set_fee_rate(auth, rate) ==
    /\ MayConfigure(auth)
    /\ ValidFeeRate(rate)
    /\ fee_config' = [fee_config EXCEPT !.fee_rate_bps = rate]
    /\ signers' = auth
    /\ UNCHANGED <<earnings, fee_entries, treasuryVars, tokens>>

\* The treasury's own transactions, and those of the token.
TreasuryStep == T!Next /\ UNCHANGED feeVars

Next ==
    \/ \E c \in Councils, rate \in FeeRates, shareRate \in ShareRates :
          initialize(c, rate, shareRate)
    \/ \E relay \in Accounts, b \in BatchIds, batchSize \in BatchSizes :
          distribute(relay, b, batchSize)
    \/ \E relay \in Accounts : claim(relay)
    \/ \E auth \in SUBSET Accounts, rate \in FeeRates : set_fee_rate(auth, rate)
    \/ TreasuryStep

Spec == Init /\ [][Next]_vars

\* A relay that wants its earnings keeps calling claim.  Nobody has to fund the
\* fee distributor, to distribute, or to do anything else.
FairSpec == Spec /\ \A relay \in Accounts : WF_vars(claim(relay))

-----------------------------------------------------------------------------
(* Properties.                                                              *)

\* A relay's share per batch, zero for another relay's; the treasury's share per
\* batch; the amount per entry of the treasury's history, zero for other actors.
Payouts(relay) ==
    [b \in BatchIds |-> IF fee_entries[b].relay_address = relay
                        THEN fee_entries[b].amount - fee_entries[b].treasury_share ELSE 0]
Shares == [b \in BatchIds |-> fee_entries[b].treasury_share]
ShareDeposits ==
    [i \in DOMAIN entries |-> IF entries[i].actor = FeeAddr THEN entries[i].amount ELSE 0]

\* A relay's record adds up however distributions and claims interleave: what
\* was earned is what was claimed and what can still be claimed, and it is the
\* sum of the relay's shares of the batches recorded for it.
EarningsReconcile ==
    \A relay \in Accounts :
        /\ earnings[relay].total_earned =
              earnings[relay].total_claimed + earnings[relay].unclaimed
        /\ earnings[relay].total_earned = SumFunction(Payouts(relay))

\* The two contracts agree: the shares in the fee entries add up to the deposits
\* the treasury's history shows from the fee distributor.
SharesBooked == SumFunction(Shares) = SumFunction(ShareDeposits)

\* The treasury stays a vault also with deposits that arrive in the middle of
\* another contract's transaction: a distribution is one receipt, of the share
\* that deposit books and of the share that was transferred before.
TreasuryStaysVault == T!TreasuryIsVault

\* A distributed batch is never distributed again, and its record never changes.
BatchWrittenOnce ==
    [][\A b \in BatchIds : Distributed(b) => fee_entries'[b] = fee_entries[b]]_vars

\* Tokens leave the fee distributor only for a batch that had not been
\* distributed, and then all of them reach the treasury, or for a relay that
\* signed, and then exactly what it could claim.
FeeOutflow ==
    [][tokens'[FeeAddr] < tokens[FeeAddr] =>
          \/ /\ \E b \in BatchIds : ~Distributed(b) /\ Distributed(b)'
             /\ tokens[FeeAddr] - tokens'[FeeAddr] =
                   tokens'[TreasuryAddr] - tokens[TreasuryAddr]
          \/ \E relay \in signers' :
                /\ tokens[FeeAddr] - tokens'[FeeAddr] = earnings[relay].unclaimed
                /\ tokens'[relay] = tokens[relay] + earnings[relay].unclaimed
                /\ earnings'[relay].unclaimed = 0]_vars

\* Once set, the configuration changes only in its rate, and only with the
\* approval of threshold seats of the fee distributor's own council.
RateNeedsQuorum ==
    [][Initialized /\ fee_config' # fee_config =>
          /\ fee_config' = [fee_config EXCEPT !.fee_rate_bps = fee_config'.fee_rate_bps]
          /\ Quorum(fee_config.council, signers')]_vars

\* Whatever a relay can claim it gets in the end, all at once, or there comes a
\* moment at which the account does not hold it: nothing else, neither its own
\* earlier claims nor the overflow check of claim, keeps earnings from it.
Payable(relay) == earnings[relay].unclaimed <= tokens[FeeAddr]
ClaimsSettle ==
    \A relay \in Accounts :
        earnings[relay].unclaimed > 0 ~> (earnings[relay].unclaimed <= 0 \/ ~Payable(relay))

\* Documented: distribute transfers treasury_share to the treasury.  So a new
\* batch takes its share off the fee distributor's account, and no more.
ShareMovedOnce ==
    [][\A b \in BatchIds : ~Distributed(b) /\ Distributed(b)' =>
          tokens[FeeAddr] - tokens'[FeeAddr] = fee_entries'[b].treasury_share]_vars

\* Documented: total_earned is the lifetime total of the fees a relay earned, so
\* no distribution lowers it.
EarningsNeverFall ==
    [][\A relay \in Accounts :
          earnings'[relay].total_earned >= earnings[relay].total_earned]_vars

=============================================================================
