------------------------ MODULE FeeDistributorProofs ------------------------
(* The fee distributor's records, what may leave its account, and who may   *)
(* change its rate, proved over both contracts: the treasury's transactions *)
(* interleave, and one runs inside a distribution.  Then the treasury under *)
(* the fee distributor: its type correctness and its refinement of the      *)
(* vault carry over from the treasury alone to the two contracts together.  *)
(* What is new is a deposit in the middle of another contract's             *)
(* transaction, on a ledger that has already moved.  Last, the sums on      *)
(* which the two contracts' books have to agree.                            *)
EXTENDS FeeDistributor, TokenLedgerProofs, AdminCouncilProofs, SumProofs

Holders == Accounts \cup {FeeAddr, TreasuryAddr}

\* The types of the fee distributor's storage and of the token's ledger.
FeeTypes ==
    /\ fee_config \in FeeConfig
    /\ earnings \in [Accounts -> EarningsRecord]
    /\ fee_entries \in [BatchIds -> FeeEntry]
    /\ tokens \in [Holders -> Nat]

LEMMA Addresses ==
    /\ T!Holders = Holders
    /\ FeeAddr \in Holders /\ TreasuryAddr \in Holders /\ Accounts \subseteq Holders
    /\ FeeAddr # TreasuryAddr /\ FeeAddr \notin Accounts /\ TreasuryAddr \notin Accounts
  BY FeeAssumption DEF T!Holders, Holders

\* A fee and a share are natural numbers, however they round.
LEMMA FeesAreNatural ==
    ASSUME fee_config \in FeeConfig, NEW size \in BatchSizes
    PROVE  /\ calculate_fee(size) \in Nat
           /\ TreasuryShare(calculate_fee(size)) \in Nat
<1>1. /\ size \in Nat /\ fee_config.fee_rate_bps \in Nat
      /\ fee_config.treasury_share_bps \in Nat
  BY FeeAssumption DEF FeeConfig
<1>2. \A a, b \in Nat : (a * b) \div Bps \in Nat
  <2>1. \A a, b \in Nat : a * b \in Nat
    OBVIOUS
  <2>2. \A c \in Nat : c \div Bps \in Nat
    BY DEF Bps
  <2> QED  BY <2>1, <2>2
<1>3. calculate_fee(size) \in Nat
  BY <1>1, <1>2 DEF calculate_fee
<1> QED  BY <1>1, <1>2, <1>3 DEF TreasuryShare

\* The treasury's own transactions, and those of the token, leave the fee
\* distributor's account alone or add to it.
LEMMA TreasuryStepTokens ==
    ASSUME tokens \in [Holders -> Nat], T!Next
    PROVE  tokens' \in [Holders -> Nat] /\ tokens'[FeeAddr] >= tokens[FeeAddr]
<1> USE Addresses
<1>1. ASSUME NEW from \in Holders, NEW to \in Holders, NEW amount \in Int, from # FeeAddr,
             T!CanTransfer(tokens, from, amount),
             tokens' = T!Transfer(tokens, from, to, amount)
      PROVE  tokens' \in [Holders -> Nat] /\ tokens'[FeeAddr] >= tokens[FeeAddr]
  <2>1. /\ CanTransfer(tokens, from, amount)
        /\ tokens' = Transfer(tokens, from, to, amount)
    BY <1>1 DEF CanTransfer, Transfer, T!CanTransfer, T!Transfer
  <2>2. tokens' \in [Holders -> Nat]
    BY <1>1, <2>1, TransferType
  <2>3. amount >= 0
    BY <1>1, <2>1 DEF CanTransfer
  <2>4. Transfer(tokens, from, to, amount)[FeeAddr] >= tokens[FeeAddr]
    BY <1>1, <2>3, TransferBounds
  <2> QED  BY <2>1, <2>2, <2>4
<1>2. ASSUME NEW from \in Accounts, NEW amount \in Amounts, T!deposit(from, amount)
      PROVE  tokens' \in [Holders -> Nat] /\ tokens'[FeeAddr] >= tokens[FeeAddr]
  BY <1>1, <1>2, FeeAssumption DEF T!deposit, T!DepositOn
<1>3. ASSUME NEW auth \in SUBSET Accounts, NEW to \in T!Holders, NEW amount \in Amounts,
             T!withdraw(auth, to, amount)
      PROVE  tokens' \in [Holders -> Nat] /\ tokens'[FeeAddr] >= tokens[FeeAddr]
  BY <1>1, <1>3, FeeAssumption DEF T!withdraw, T!PayOut
<1>4. ASSUME NEW from \in Accounts, NEW to \in T!Holders, NEW amount \in Amounts,
             T!token_transfer(from, to, amount)
      PROVE  tokens' \in [Holders -> Nat] /\ tokens'[FeeAddr] >= tokens[FeeAddr]
  BY <1>1, <1>4, FeeAssumption DEF T!token_transfer
<1>5. ASSUME tokens' = tokens
      PROVE  tokens' \in [Holders -> Nat] /\ tokens'[FeeAddr] >= tokens[FeeAddr]
  <2>1. tokens[FeeAddr] \in Nat
    OBVIOUS
  <2> QED  BY <1>5, <2>1
<1> QED
  BY <1>2, <1>3, <1>4, <1>5
  DEF T!Next, T!initialize, T!create_program, T!update_program_budget,
      T!deactivate_program, T!allocate

\* The share moves twice: once by distribute, once by the deposit it calls.
LEMMA ShareMovesTwice ==
    ASSUME tokens \in [Holders -> Nat], NEW share \in Nat, PayShare(share)
    PROVE  /\ tokens' \in [Holders -> Nat]
           /\ tokens'[FeeAddr] = tokens[FeeAddr] - 2 * share
           /\ tokens'[TreasuryAddr] = tokens[TreasuryAddr] + 2 * share
<1> USE Addresses
<1> DEFINE once == Transfer(tokens, FeeAddr, TreasuryAddr, share)
           twice == Transfer(once, FeeAddr, TreasuryAddr, share)
<1>1. CanTransfer(tokens, FeeAddr, share) /\ T!DepositOn(once, FeeAddr, share)
  BY DEF PayShare
<1>2. CanTransfer(once, FeeAddr, share) /\ tokens' = twice
  <2>1. T!CanTransfer(once, FeeAddr, share)
        /\ tokens' = T!Transfer(once, FeeAddr, TreasuryAddr, share)
    BY <1>1 DEF T!DepositOn
  <2> HIDE DEF once
  <2> QED  BY <2>1 DEF CanTransfer, Transfer, T!CanTransfer, T!Transfer
<1>3. /\ once \in [Holders -> Nat]
      /\ once[FeeAddr] = tokens[FeeAddr] - share
      /\ once[TreasuryAddr] = tokens[TreasuryAddr] + share
  BY <1>1, TransferType, TransferMoves
<1> HIDE DEF once
<1>4. twice \in [Holders -> Nat]
  BY <1>2, <1>3, TransferType
<1>6. /\ twice[FeeAddr] = once[FeeAddr] - share
      /\ twice[TreasuryAddr] = once[TreasuryAddr] + share
  BY <1>3 DEF Transfer
<1>5. tokens[FeeAddr] \in Nat /\ tokens[TreasuryAddr] \in Nat
  OBVIOUS
<1> HIDE DEF twice
<1> QED  BY <1>2, <1>3, <1>4, <1>5, <1>6

\* What a distribution does to the fee distributor's storage and to the ledger:
\* the share moves twice, if there is one.
LEMMA DistributeEffect ==
    ASSUME FeeTypes, NEW relay \in Accounts, NEW b \in BatchIds, NEW size \in BatchSizes,
           distribute(relay, b, size)
    PROVE  \E fee, share \in Nat :
              /\ ~Distributed(b)
              /\ fee_config' = fee_config
              /\ earnings' = [earnings EXCEPT ![relay] = Credited(earnings[relay], fee, share)]
              /\ fee_entries' = [fee_entries EXCEPT ![b] =
                    [relay_address |-> relay, amount |-> fee, treasury_share |-> share]]
              /\ tokens' \in [Holders -> Nat]
              /\ tokens'[FeeAddr] = tokens[FeeAddr] - 2 * share
              /\ tokens'[TreasuryAddr] = tokens[TreasuryAddr] + 2 * share
<1> USE Addresses
<1> DEFINE fee == calculate_fee(size)
           share == TreasuryShare(fee)
<1>1. fee \in Nat /\ share \in Nat
  BY FeesAreNatural DEF FeeTypes
<1>2. /\ ~Distributed(b) /\ fee_config' = fee_config
      /\ earnings' = [earnings EXCEPT ![relay] = Credited(earnings[relay], fee, share)]
      /\ fee_entries' = [fee_entries EXCEPT ![b] =
            [relay_address |-> relay, amount |-> fee, treasury_share |-> share]]
      /\ IF share > 0 THEN PayShare(share) ELSE UNCHANGED <<treasuryVars, tokens>>
  BY DEF distribute, NewBatch
<1> HIDE DEF fee, share
<1>3. tokens \in [Holders -> Nat] /\ tokens[FeeAddr] \in Nat /\ tokens[TreasuryAddr] \in Nat
  BY DEF FeeTypes
<1>4. CASE share = 0
  <2>1. tokens' = tokens
    BY <1>2, <1>4
  <2>2. /\ tokens' \in [Holders -> Nat]
        /\ tokens'[FeeAddr] = tokens[FeeAddr] - 2 * share
        /\ tokens'[TreasuryAddr] = tokens[TreasuryAddr] + 2 * share
    BY <1>3, <1>4, <2>1
  <2> QED  BY <1>1, <1>2, <2>2
<1>5. CASE share > 0
  BY <1>1, <1>2, <1>3, <1>5, ShareMovesTwice
<1>6. share = 0 \/ share > 0
  BY <1>1
<1> QED  BY <1>4, <1>5, <1>6

\* A claim pays the claimant what it could claim, and nobody else.
LEMMA ClaimEffect ==
    ASSUME FeeTypes, NEW relay \in Accounts, claim(relay)
    PROVE  LET payout == earnings[relay].unclaimed IN
           /\ payout \in Nat /\ signers' = {relay}
           /\ fee_config' = fee_config /\ fee_entries' = fee_entries
           /\ earnings' = [earnings EXCEPT ![relay] = Claimed(earnings[relay])]
           /\ tokens' \in [Holders -> Nat]
           /\ tokens'[FeeAddr] = tokens[FeeAddr] - payout
           /\ tokens'[relay] = tokens[relay] + payout
<1> USE Addresses
<1> DEFINE payout == earnings[relay].unclaimed
           after == Transfer(tokens, FeeAddr, relay, payout)
<1>1. payout \in Int /\ tokens \in [Holders -> Nat]
  BY DEF FeeTypes, EarningsRecord
<1>2. /\ CanTransfer(tokens, FeeAddr, payout) /\ tokens' = after
      /\ signers' = {relay} /\ fee_config' = fee_config /\ fee_entries' = fee_entries
      /\ earnings' = [earnings EXCEPT ![relay] = Claimed(earnings[relay])]
  BY DEF claim
<1>3. payout \in Nat
  BY <1>1, <1>2 DEF CanTransfer
<1> HIDE DEF payout
<1>4. /\ after \in [Holders -> Nat]
      /\ after[FeeAddr] = tokens[FeeAddr] - payout
      /\ after[relay] = tokens[relay] + payout
  <2>1. relay \in Holders /\ relay # FeeAddr
    OBVIOUS
  <2>2. after \in [Holders -> Nat]
    BY <1>1, <1>2, <2>1, TransferType
  <2>3. after[FeeAddr] = tokens[FeeAddr] - payout /\ after[relay] = tokens[relay] + payout
    BY <1>1, <2>1 DEF Transfer
  <2> QED  BY <2>2, <2>3
<1> QED  BY <1>2, <1>3, <1>4 DEF payout

-----------------------------------------------------------------------------
(* Type correctness.                                                        *)

\* A distribution and a claim write earnings records.
LEMMA RecordTypes ==
    ASSUME NEW record \in EarningsRecord, NEW fee \in Nat, NEW share \in Nat
    PROVE  /\ Credited(record, fee, share) \in EarningsRecord
           /\ Claimed(record) \in EarningsRecord
<1>1. /\ record.total_earned + fee - share \in Int
      /\ record.unclaimed + fee - share \in Int
      /\ record.total_claimed + record.unclaimed \in Int
  <2>1. /\ record.total_earned \in Int /\ record.total_claimed \in Int
        /\ record.unclaimed \in Int /\ fee \in Int /\ share \in Int
    BY DEF EarningsRecord
  <2> QED  BY <2>1
<1>2. Credited(record, fee, share) =
        [record EXCEPT !.total_earned = record.total_earned + fee - share,
                       !.unclaimed = record.unclaimed + fee - share]
  BY DEF Credited
<1>3. Claimed(record) =
        [record EXCEPT !.total_claimed = record.total_claimed + record.unclaimed,
                       !.unclaimed = 0]
  BY DEF Claimed
<1>4. Credited(record, fee, share) \in EarningsRecord
  <2> DEFINE earned == record.total_earned + fee - share
             left == record.unclaimed + fee - share
  <2>1. earned \in Int /\ left \in Int
    BY <1>1
  <2> HIDE DEF earned, left
  <2>2. [record EXCEPT !.total_earned = earned, !.unclaimed = left] \in EarningsRecord
    BY <2>1 DEF EarningsRecord
  <2> QED  BY <1>2, <2>2 DEF earned, left
<1>5. Claimed(record) \in EarningsRecord
  <2> DEFINE claimed == record.total_claimed + record.unclaimed
             left == 0
  <2>1. claimed \in Int /\ left \in Int
    BY <1>1
  <2> HIDE DEF claimed, left
  <2>2. [record EXCEPT !.total_claimed = claimed, !.unclaimed = left] \in EarningsRecord
    BY <2>1 DEF EarningsRecord
  <2> QED  BY <1>3, <2>2 DEF claimed, left
<1> QED  BY <1>4, <1>5

LEMMA FeeTypesInit == Init => FeeTypes
<1> SUFFICES ASSUME Init PROVE FeeTypes
  OBVIOUS
<1>1. fee_config \in FeeConfig
  BY DEF Init, NoFeeConfig, FeeConfig, NoCouncil
<1>2. earnings \in [Accounts -> EarningsRecord] /\ fee_entries \in [BatchIds -> FeeEntry]
  BY DEF Init, NoEarnings, EarningsRecord, NoFeeEntry, FeeEntry
<1>3. tokens \in [Holders -> Nat]
  BY FeeAssumption DEF Init, T!Init, Holders
<1> QED  BY <1>1, <1>2, <1>3 DEF FeeTypes

LEMMA FeeTypesStep == FeeTypes /\ [Next]_vars => FeeTypes'
<1> SUFFICES ASSUME FeeTypes, [Next]_vars PROVE FeeTypes'
  OBVIOUS
<1>1. CASE UNCHANGED <<fee_config, earnings, fee_entries, tokens>>
  BY <1>1 DEF FeeTypes
<1>2. ASSUME NEW c \in Councils, NEW rate \in FeeRates, NEW shareRate \in ShareRates,
             initialize(c, rate, shareRate)
      PROVE  FeeTypes'
  <2>1. fee_config' \in FeeConfig
    BY <1>2, FeeAssumption DEF initialize, FeeConfig
  <2> QED  BY <1>2, <2>1 DEF initialize, FeeTypes
<1>3. ASSUME NEW relay \in Accounts, NEW b \in BatchIds, NEW size \in BatchSizes,
             distribute(relay, b, size)
      PROVE  FeeTypes'
  <2>1. PICK fee \in Nat, share \in Nat :
          /\ fee_config' = fee_config
          /\ earnings' = [earnings EXCEPT ![relay] = Credited(earnings[relay], fee, share)]
          /\ fee_entries' = [fee_entries EXCEPT ![b] =
                [relay_address |-> relay, amount |-> fee, treasury_share |-> share]]
          /\ tokens' \in [Holders -> Nat]
    BY <1>3, DistributeEffect
  <2>2. Credited(earnings[relay], fee, share) \in EarningsRecord
    <3>1. earnings[relay] \in EarningsRecord
      BY DEF FeeTypes
    <3> QED  BY <2>1, <3>1, RecordTypes
  <2>3. [relay_address |-> relay, amount |-> fee, treasury_share |-> share] \in FeeEntry
    BY DEF FeeEntry
  <2>4. earnings' \in [Accounts -> EarningsRecord]
    BY <2>1, <2>2 DEF FeeTypes
  <2>5. fee_entries' \in [BatchIds -> FeeEntry]
    BY <2>1, <2>3 DEF FeeTypes
  <2> QED  BY <2>1, <2>4, <2>5 DEF FeeTypes
<1>4. ASSUME NEW relay \in Accounts, claim(relay) PROVE FeeTypes'
  <2>1. /\ fee_config' = fee_config /\ fee_entries' = fee_entries
        /\ earnings' = [earnings EXCEPT ![relay] = Claimed(earnings[relay])]
        /\ tokens' \in [Holders -> Nat]
    BY <1>4, ClaimEffect
  <2>2. Claimed(earnings[relay]) \in EarningsRecord
    <3>1. earnings[relay] \in EarningsRecord
      BY DEF FeeTypes
    <3> QED  BY <3>1, RecordTypes
  <2>3. earnings' \in [Accounts -> EarningsRecord]
    BY <2>1, <2>2 DEF FeeTypes
  <2> QED  BY <2>1, <2>3 DEF FeeTypes
<1>5. ASSUME NEW auth \in SUBSET Accounts, NEW rate \in FeeRates, set_fee_rate(auth, rate)
      PROVE  FeeTypes'
  <2>1. fee_config' \in FeeConfig
    BY <1>5, FeeAssumption DEF set_fee_rate, FeeConfig, FeeTypes
  <2> QED  BY <1>5, <2>1 DEF set_fee_rate, FeeTypes
<1>6. CASE TreasuryStep
  <2>1. tokens' \in [Holders -> Nat]
    BY <1>6, TreasuryStepTokens DEF TreasuryStep, FeeTypes
  <2> QED  BY <1>6, <2>1 DEF TreasuryStep, feeVars, FeeTypes
<1> QED
  BY <1>1, <1>2, <1>3, <1>4, <1>5, <1>6 DEF Next, vars, feeVars

\* Configuration, earnings, fee entries and balances have their types, whatever
\* the treasury does in between: no fee or share is ever negative.
THEOREM FeeTypesHold == Spec => []FeeTypes
  BY FeeTypesInit, FeeTypesStep, PTL DEF Spec

-----------------------------------------------------------------------------
(* What a step may never do.                                                *)

\* No retry and no other relay's distribution touches a batch that was already
\* distributed (the AlreadyDistributed check of distribute).
THEOREM BatchesAreWrittenOnce == Spec => BatchWrittenOnce
<1>1. FeeTypes /\ [Next]_vars =>
         [\A b \in BatchIds : Distributed(b) => fee_entries'[b] = fee_entries[b]]_vars
  <2> SUFFICES ASSUME FeeTypes, [Next]_vars, NEW b \in BatchIds, Distributed(b)
               PROVE  fee_entries'[b] = fee_entries[b]
    OBVIOUS
  <2>1. ASSUME NEW relay \in Accounts, NEW c \in BatchIds, NEW size \in BatchSizes,
               distribute(relay, c, size)
        PROVE  fee_entries'[b] = fee_entries[b]
    <3>1. b # c
      BY <2>1 DEF distribute, NewBatch
    <3> QED  BY <2>1, <3>1 DEF distribute, FeeTypes
  <2> QED
    BY <2>1 DEF Next, vars, feeVars, initialize, claim, set_fee_rate, TreasuryStep
<1> QED  BY <1>1, FeeTypesHold, PTL DEF Spec, BatchWrittenOnce

\* Tokens leave the fee distributor only for a batch that is new, and then for
\* the treasury, or for a relay that signed, and then all it could claim.  The
\* treasury's own transactions take nothing from it.
THEOREM OutflowIsAccounted == Spec => FeeOutflow
<1> DEFINE ForBatch ==
               /\ \E b \in BatchIds : ~Distributed(b) /\ Distributed(b)'
               /\ tokens[FeeAddr] - tokens'[FeeAddr] =
                     tokens'[TreasuryAddr] - tokens[TreasuryAddr]
           ForClaim ==
               \E relay \in signers' :
                  /\ tokens[FeeAddr] - tokens'[FeeAddr] = earnings[relay].unclaimed
                  /\ tokens'[relay] = tokens[relay] + earnings[relay].unclaimed
                  /\ earnings'[relay].unclaimed = 0
<1>1. FeeTypes /\ [Next]_vars =>
         [tokens'[FeeAddr] < tokens[FeeAddr] => ForBatch \/ ForClaim]_vars
  <2> SUFFICES ASSUME FeeTypes, [Next]_vars, tokens'[FeeAddr] < tokens[FeeAddr]
               PROVE  ForBatch \/ ForClaim
    OBVIOUS
  <2>0. /\ tokens \in [Holders -> Nat] /\ tokens[FeeAddr] \in Nat
        /\ \A a \in Accounts : tokens[a] \in Nat
        /\ tokens[TreasuryAddr] \in Nat
    BY Addresses DEF FeeTypes
  <2>1. CASE tokens' = tokens
    BY <2>0, <2>1
  <2>2. ASSUME NEW relay \in Accounts, NEW b \in BatchIds, NEW size \in BatchSizes,
               distribute(relay, b, size)
        PROVE  ForBatch
    <3>1. PICK fee \in Nat, share \in Nat :
            /\ ~Distributed(b)
            /\ fee_entries' = [fee_entries EXCEPT ![b] =
                  [relay_address |-> relay, amount |-> fee, treasury_share |-> share]]
            /\ tokens'[FeeAddr] = tokens[FeeAddr] - 2 * share
            /\ tokens'[TreasuryAddr] = tokens[TreasuryAddr] + 2 * share
      BY <2>2, DistributeEffect
    <3>2. share # 0
      BY <2>0, <3>1
    <3>3. fee_entries'[b].treasury_share = share
      BY <3>1 DEF FeeTypes
    <3>4. Distributed(b)'
      BY <3>2, <3>3 DEF Distributed, NoFeeEntry
    <3> QED  BY <2>0, <3>1, <3>4
  <2>3. ASSUME NEW relay \in Accounts, claim(relay) PROVE ForClaim
    <3> DEFINE payout == earnings[relay].unclaimed
    <3>1. /\ payout \in Nat /\ signers' = {relay}
          /\ earnings' = [earnings EXCEPT ![relay] = Claimed(earnings[relay])]
          /\ tokens'[FeeAddr] = tokens[FeeAddr] - payout
          /\ tokens'[relay] = tokens[relay] + payout
      BY <2>3, ClaimEffect
    <3>2. earnings'[relay].unclaimed = 0
      BY <3>1 DEF FeeTypes, EarningsRecord, Claimed
    <3> QED  BY <2>0, <3>1, <3>2
  <2>4. CASE TreasuryStep
    <3>1. tokens' \in [Holders -> Nat] /\ tokens'[FeeAddr] >= tokens[FeeAddr]
      BY <2>0, <2>4, TreasuryStepTokens DEF TreasuryStep
    <3>2. tokens'[FeeAddr] \in Nat
      BY <3>1, Addresses
    <3> QED  BY <2>0, <3>1, <3>2
  <2> HIDE DEF ForBatch, ForClaim
  <2> QED
    BY <2>1, <2>2, <2>3, <2>4 DEF Next, vars, feeVars, initialize, set_fee_rate
<1> QED  BY <1>1, FeeTypesHold, PTL DEF Spec, FeeOutflow

\* The configuration changes, once set, in its rate only and with the approval of
\* threshold seats only (require_council_auth in set_fee_rate).
THEOREM RateChangesNeedQuorum == Spec => RateNeedsQuorum
<1>1. FeeTypes /\ [Next]_vars =>
         [Initialized /\ fee_config' # fee_config =>
            /\ fee_config' = [fee_config EXCEPT !.fee_rate_bps = fee_config'.fee_rate_bps]
            /\ Quorum(fee_config.council, signers')]_vars
  <2> SUFFICES ASSUME FeeTypes, [Next]_vars, Initialized,
                      fee_config' # fee_config
               PROVE  /\ fee_config' = [fee_config EXCEPT !.fee_rate_bps = fee_config'.fee_rate_bps]
                      /\ Quorum(fee_config.council, signers')
    OBVIOUS
  <2>1. PICK auth \in SUBSET Accounts, rate \in FeeRates : set_fee_rate(auth, rate)
    BY DEF Next, vars, feeVars, initialize, distribute, claim, TreasuryStep
  <2>2. /\ fee_config' = [fee_config EXCEPT !.fee_rate_bps = rate] /\ signers' = auth
        /\ RequireCouncilAuth(fee_config.council, auth)
    BY <2>1 DEF set_fee_rate, MayConfigure
  <2>3. fee_config'.fee_rate_bps = rate
    BY <2>2 DEF FeeTypes, FeeConfig
  <2>4. fee_config.council \in [members : Seq(Accounts), threshold : Nat]
    BY DEF FeeTypes, FeeConfig
  <2>5. Quorum(fee_config.council, auth)
    BY <2>2, <2>4, AuthIsQuorum
  <2> QED  BY <2>2, <2>3, <2>5
<1> QED  BY <1>1, FeeTypesHold, PTL DEF Spec, RateNeedsQuorum

-----------------------------------------------------------------------------
(* The treasury under the fee distributor.                                  *)

\* The treasury with what is proved about it.
TP == INSTANCE TreasuryProofs WITH Contracts <- {FeeAddr}

LEMMA TreasuryIsInstantiated == TP!TreasuryAssumption
  BY FeeAssumption DEF TP!TreasuryAssumption, TP!Holders

\* The treasury that the fee distributor calls is the one the proofs are about.
LEMMA SameTypes == T!TypeOK <=> TP!TypeOK
  BY DEF T!TypeOK, TP!TypeOK, T!Entry, TP!Entry, T!Program, TP!Program,
         T!EntryKind, TP!EntryKind, T!Holders, TP!Holders, T!NoAddress, TP!NoAddress

LEMMA SameDeposit ==
    ASSUME NEW ledger, NEW from, NEW amount, T!DepositOn(ledger, from, amount)
    PROVE  TP!DepositOn(ledger, from, amount)
  BY DEF T!DepositOn, TP!DepositOn, T!AddFits, TP!AddFits, T!Book, TP!Book,
         T!CountInStats, TP!CountInStats, T!RecordEntry, TP!RecordEntry,
         T!NoAddress, TP!NoAddress, T!Initialized, TP!Initialized,
         T!CanTransfer, TP!CanTransfer, T!Transfer, TP!Transfer, T!NoCouncil, TP!NoCouncil

LEMMA SameNext == T!Next => TP!Next
<1> USE DEF T!AddFits, TP!AddFits, T!Book, TP!Book, T!CountInStats, TP!CountInStats,
        T!RecordEntry, TP!RecordEntry, T!NoAddress, TP!NoAddress,
        T!Initialized, TP!Initialized, T!CanTransfer, TP!CanTransfer, T!Transfer, TP!Transfer,
        T!Holders, TP!Holders, T!RequireCouncilAuth, TP!RequireCouncilAuth,
        T!NoCouncil, TP!NoCouncil, T!ValidCouncil, TP!ValidCouncil
<1>1. ASSUME NEW c \in Councils, T!initialize(c) PROVE TP!initialize(c)
  BY <1>1 DEF T!initialize, TP!initialize
<1>2. ASSUME NEW from \in Accounts, NEW amount \in Amounts, T!deposit(from, amount)
      PROVE  TP!deposit(from, amount)
  BY <1>2, SameDeposit DEF T!deposit, TP!deposit
<1>3. ASSUME NEW auth \in SUBSET Accounts, NEW to \in T!Holders, NEW amount \in Amounts,
             T!withdraw(auth, to, amount)
      PROVE  TP!withdraw(auth, to, amount)
  BY <1>3 DEF T!withdraw, TP!withdraw, T!Covers, TP!Covers, T!PayOut, TP!PayOut
<1>4. ASSUME NEW auth \in SUBSET Accounts, NEW n \in NameLengths, NEW budget \in Amounts,
             T!create_program(auth, n, budget)
      PROVE  TP!create_program(auth, n, budget)
  BY <1>4 DEF T!create_program, TP!create_program
<1>5. ASSUME NEW auth \in SUBSET Accounts, NEW id \in 1 .. MaxPrograms,
             NEW budget \in Amounts, T!update_program_budget(auth, id, budget)
      PROVE  TP!update_program_budget(auth, id, budget)
  BY <1>5 DEF T!update_program_budget, TP!update_program_budget
<1>6. ASSUME NEW auth \in SUBSET Accounts, NEW id \in 1 .. MaxPrograms,
             T!deactivate_program(auth, id)
      PROVE  TP!deactivate_program(auth, id)
  BY <1>6 DEF T!deactivate_program, TP!deactivate_program
<1>7. ASSUME NEW auth \in SUBSET Accounts, NEW id \in 1 .. MaxPrograms,
             NEW amount \in Amounts, T!allocate(auth, id, amount)
      PROVE  TP!allocate(auth, id, amount)
  BY <1>7 DEF T!allocate, TP!allocate, T!Covers, TP!Covers, T!Spendable, TP!Spendable,
     T!AddSpent, TP!AddSpent
<1>8. ASSUME NEW from \in Accounts, NEW to \in T!Holders, NEW amount \in Amounts,
             T!token_transfer(from, to, amount)
      PROVE  TP!token_transfer(from, to, amount)
  BY <1>8 DEF T!token_transfer, TP!token_transfer
<1> QED
  BY <1>1, <1>2, <1>3, <1>4, <1>5, <1>6, <1>7, <1>8 DEF T!Next, TP!Next

LEMMA SameVaultInit == TP!V!Init => T!V!Init
  BY DEF T!V!Init, TP!V!Init

LEMMA SameQuorum ==
    ASSUME NEW c, NEW s
    PROVE  T!Quorum(c, s) <=> TP!Quorum(c, s)
  BY DEF T!Quorum, TP!Quorum, T!SignedSeats, TP!SignedSeats, T!NoCouncil, TP!NoCouncil,
         T!Cardinality, TP!Cardinality

LEMMA SameVaultStep == [TP!V!Next]_(TP!V!vars) => [T!V!Next]_(T!V!vars)
<1>1. TP!V!vars = T!V!vars /\ TP!V!vars' = T!V!vars'
  BY DEF TP!V!vars, T!V!vars
<1>2. TP!V!Receive => T!V!Receive
  BY DEF TP!V!Receive, T!V!Receive
<1>3. TP!V!PayOut => T!V!PayOut
  BY SameQuorum DEF TP!V!PayOut, T!V!PayOut
<1>4. TP!V!Reserve => T!V!Reserve
  BY SameQuorum DEF TP!V!Reserve, T!V!Reserve
<1> QED  BY <1>1, <1>2, <1>3, <1>4 DEF TP!V!Next, T!V!Next

-----------------------------------------------------------------------------
(* The treasury's invariant under the steps of both contracts.              *)

\* What the treasury's own proofs carry from state to state.
TreasuryInv == TP!TypeOK /\ TP!BooksClosed

\* A step of the vault.
VaultMove == [TP!V!Next]_(TP!V!vars)

LEMMA TreasuryInvInit == Init => TreasuryInv /\ TP!V!Init
<1> SUFFICES ASSUME Init PROVE TreasuryInv /\ TP!V!Init
  OBVIOUS
<1>1. TP!Init
  BY DEF Init, T!Init, TP!Init, T!NoCouncil, TP!NoCouncil, T!EntryKind, TP!EntryKind
<1>2. TP!TypeOK
  BY <1>1, TP!TypeInit, TreasuryIsInstantiated
<1>3. TP!BooksClosed
  BY <1>1 DEF TP!Init, TP!BooksClosed
<1>4. TP!V!Init
  <2>1. balance = 0 /\ stats["Allocation"] = 0 /\ tokens[TreasuryAddr] \in Nat
    BY <1>1, <1>2 DEF TP!Init, TP!TypeOK, TP!EntryKind, TP!Holders
  <2> QED  BY <2>1 DEF TP!V!Init
<1> QED  BY <1>2, <1>3, <1>4 DEF TreasuryInv

\* The treasury's own transactions.
LEMMA OwnStep ==
    ASSUME TreasuryInv, T!Next
    PROVE  TreasuryInv' /\ VaultMove
<1>1. TP!Next
  BY SameNext
<1>2. TP!TypeOK'
  BY <1>1, TP!TypeStep, TreasuryIsInstantiated DEF TreasuryInv
<1>3. TP!BooksClosed'
  BY <1>1, TP!BooksStep, TreasuryIsInstantiated DEF TreasuryInv
<1>4. VaultMove
  BY <1>1, TP!VaultStep, TreasuryIsInstantiated DEF TreasuryInv, VaultMove
<1> QED  BY <1>2, <1>3, <1>4 DEF TreasuryInv

\* The fee distributor's transactions that do not call the treasury.
LEMMA QuietStep ==
    ASSUME TreasuryInv, UNCHANGED treasuryVars, signers' \in SUBSET Accounts,
           tokens' \in [Holders -> Nat], tokens'[TreasuryAddr] = tokens[TreasuryAddr]
    PROVE  TreasuryInv' /\ UNCHANGED TP!V!vars
<1>1. TP!TypeOK'
  BY DEF TreasuryInv, TP!TypeOK, treasuryVars, Holders, TP!Holders
<1>2. TP!BooksClosed'
  BY DEF TreasuryInv, TP!BooksClosed, TP!Initialized, treasuryVars
<1>3. UNCHANGED TP!V!vars
  BY DEF TP!V!vars, treasuryVars
<1> QED  BY <1>1, <1>2, <1>3 DEF TreasuryInv

\* A deposit on a ledger that has moved already: what is booked has arrived, and
\* so has what moved before.
LEMMA NestedDeposit ==
    ASSUME TreasuryInv, NEW ledger, NEW share \in Nat, T!DepositOn(ledger, FeeAddr, share),
           signers' \in SUBSET Accounts, tokens' \in [Holders -> Nat],
           tokens'[TreasuryAddr] = tokens[TreasuryAddr] + 2 * share
    PROVE  TreasuryInv' /\ TP!V!Receive
<1> USE TreasuryIsInstantiated
<1>1. /\ share > 0 /\ balance' = balance + share /\ balance + share <= MaxI128
      /\ TP!Book("Deposit", share, FeeAddr, TP!NoAddress)
      /\ TP!Initialized /\ council' = council /\ programs' = programs
  BY SameDeposit DEF TP!DepositOn, TP!AddFits
<1>2. /\ balance \in 0 .. MaxI128 /\ MaxI128 \in Nat /\ TP!TypeOK
      /\ FeeAddr \in TP!Holders /\ "Deposit" \in TP!EntryKind
  BY DEF TreasuryInv, TP!TypeOK, TP!Holders, TP!EntryKind, TP!TreasuryAssumption
<1>3. /\ stats' \in [TP!EntryKind -> 0 .. MaxI128]
      /\ entries' \in Seq(TP!Entry)
      /\ stats' = [stats EXCEPT !["Deposit"] = stats["Deposit"] + share]
  <2>1. share \in Int
    OBVIOUS
  <2> QED  BY <1>1, <1>2, <2>1, TP!BookType
<1>4. balance' \in 0 .. MaxI128
  BY <1>1, <1>2
<1>5. TP!TypeOK'
  BY <1>1, <1>2, <1>3, <1>4 DEF TP!TypeOK, Holders, TP!Holders
<1>6. TP!BooksClosed'
  BY <1>1 DEF TreasuryInv, TP!BooksClosed, TP!Initialized
<1>7. TP!V!Receive
  <2>1. stats'["Allocation"] = stats["Allocation"]
    BY <1>2, <1>3 DEF TP!TypeOK, TP!EntryKind
  <2>2. tokens[TreasuryAddr] \in Nat
    BY <1>2 DEF TP!TypeOK, TP!Holders
  <2> QED  BY <1>1, <1>2, <2>1, <2>2 DEF TP!V!Receive
<1> QED  BY <1>5, <1>6, <1>7 DEF TreasuryInv

LEMMA BothStep ==
    ASSUME FeeTypes, TreasuryInv, [Next]_vars
    PROVE  TreasuryInv' /\ VaultMove
<1>a. tokens \in [Holders -> Nat] /\ tokens' \in [Holders -> Nat]
      /\ signers \in SUBSET Accounts
  BY FeeTypesStep DEF FeeTypes, TreasuryInv, TP!TypeOK
<1>1. ASSUME UNCHANGED <<treasuryVars, tokens>>, signers' \in SUBSET Accounts
      PROVE  TreasuryInv' /\ VaultMove
  BY <1>1, <1>a, QuietStep DEF VaultMove
<1>2. CASE UNCHANGED vars
  BY <1>1, <1>2, <1>a DEF vars
<1>3. ASSUME NEW c \in Councils, NEW rate \in FeeRates, NEW shareRate \in ShareRates,
             initialize(c, rate, shareRate)
      PROVE  TreasuryInv' /\ VaultMove
  BY <1>1, <1>3 DEF initialize
<1>4. ASSUME NEW relay \in Accounts, NEW b \in BatchIds, NEW size \in BatchSizes,
             distribute(relay, b, size)
      PROVE  TreasuryInv' /\ VaultMove
  <2> DEFINE share == TreasuryShare(calculate_fee(size))
  <2>1. share \in Nat
    BY FeesAreNatural DEF FeeTypes
  <2>2. signers' \in SUBSET Accounts
    BY <1>4 DEF distribute
  <2>3. CASE share = 0
    BY <1>1, <1>4, <2>1, <2>2, <2>3 DEF distribute
  <2>4. CASE share > 0
    <3>1. PayShare(share)
      BY <1>4, <2>4 DEF distribute
    <3> HIDE DEF share
    <3>2. tokens'[TreasuryAddr] = tokens[TreasuryAddr] + 2 * share
      BY <1>a, <2>1, <3>1, ShareMovesTwice
    <3>3. T!DepositOn(Transfer(tokens, FeeAddr, TreasuryAddr, share), FeeAddr, share)
      BY <3>1 DEF PayShare
    <3> QED  BY <1>a, <2>1, <2>2, <3>2, <3>3, NestedDeposit DEF TP!V!Next, VaultMove
  <2> QED  BY <2>1, <2>3, <2>4
<1>5. ASSUME NEW relay \in Accounts, claim(relay)
      PROVE  TreasuryInv' /\ VaultMove
  <2> DEFINE payout == earnings[relay].unclaimed
  <2>1. tokens' = Transfer(tokens, FeeAddr, relay, payout) /\ UNCHANGED treasuryVars
        /\ signers' \in SUBSET Accounts
    BY <1>5 DEF claim
  <2>2. payout \in Int
    BY DEF FeeTypes, EarningsRecord
  <2> HIDE DEF payout
  <2>3. tokens'[TreasuryAddr] = tokens[TreasuryAddr]
    <3>1. TreasuryAddr \in Holders /\ TreasuryAddr # FeeAddr /\ TreasuryAddr # relay
      BY Addresses
    <3> QED  BY <1>a, <2>1, <2>2, <3>1 DEF Transfer
  <2> QED  BY <1>a, <2>1, <2>3, QuietStep DEF VaultMove
<1>6. ASSUME NEW auth \in SUBSET Accounts, NEW rate \in FeeRates, set_fee_rate(auth, rate)
      PROVE  TreasuryInv' /\ VaultMove
  BY <1>1, <1>6 DEF set_fee_rate
<1>7. CASE TreasuryStep
  BY <1>7, OwnStep DEF TreasuryStep
<1> QED
  BY <1>2, <1>3, <1>4, <1>5, <1>6, <1>7 DEF Next

\* Both contracts' state keeps its types: earnings, batches and shares, and the
\* treasury's books within i128, also when deposit runs inside distribute.
THEOREM TypeCorrect == Spec => []TypeOK
<1>1. FeeTypes /\ TreasuryInv /\ [Next]_vars => TreasuryInv'
  BY BothStep
<1>2. FeeTypes /\ TreasuryInv => TypeOK
  BY SameTypes DEF FeeTypes, TreasuryInv, TypeOK
<1> QED  BY <1>1, <1>2, TreasuryInvInit, FeeTypesHold, PTL DEF Spec

\* The treasury stays a vault whatever the fee distributor does with it.
THEOREM TreasuryRemainsVault == Spec => TreasuryStaysVault
<1>1. FeeTypes /\ TreasuryInv /\ [Next]_vars => TreasuryInv' /\ [TP!V!Next]_(TP!V!vars)
  BY BothStep DEF VaultMove
<1>2. FeeTypes /\ TreasuryInv /\ [Next]_vars => TreasuryInv' /\ [T!V!Next]_(T!V!vars)
  BY <1>1, SameVaultStep
<1>3. Init => TreasuryInv /\ T!V!Init
  BY TreasuryInvInit, SameVaultInit
<1> QED
  BY <1>2, <1>3, FeeTypesHold, PTL
  DEF Spec, TreasuryStaysVault, T!TreasuryIsVault, T!V!Spec

-----------------------------------------------------------------------------
(* A relay's record adds up.                                                *)

\* What a distribution adds to the sum of one relay's payouts.
LEMMA PayoutsChange ==
    ASSUME FeeTypes, NEW b \in BatchIds, ~Distributed(b), NEW e \in FeeEntry,
           fee_entries' = [fee_entries EXCEPT ![b] = e],
           NEW r \in Accounts, NEW gain \in Int,
           gain = IF e.relay_address = r THEN e.amount - e.treasury_share ELSE 0
    PROVE  /\ SumFunction(Payouts(r)) \in Int
           /\ SumFunction(Payouts(r))' = SumFunction(Payouts(r)) + gain
<1> DEFINE before == Payouts(r)
           after == Payouts(r)'
<1>0. fee_entries \in [BatchIds -> FeeEntry] /\ fee_entries[b] = NoFeeEntry
  BY DEF FeeTypes, Distributed
<1>1. fee_entries'[b] = e /\ \A c \in BatchIds \ {b} : fee_entries'[c] = fee_entries[c]
  BY <1>0
<1>2. DOMAIN before = BatchIds /\ DOMAIN after = BatchIds
  BY DEF Payouts
<1>3. before[b] = 0 /\ after[b] = gain
  BY <1>0, <1>1 DEF Payouts, NoFeeEntry
<1>4. \A c \in BatchIds \ {b} : before[c] = after[c]
  BY <1>1 DEF Payouts
<1>5. \A c \in BatchIds : before[c] \in Int
  <2>1. \A c \in BatchIds : fee_entries[c].amount \in Int /\ fee_entries[c].treasury_share \in Int
    BY <1>0 DEF FeeEntry
  <2> QED  BY <2>1 DEF Payouts
<1>6. \A c \in BatchIds : after[c] \in Int
  BY <1>3, <1>4, <1>5
<1> HIDE DEF before, after
<1>7. /\ SumFunction(before) \in Int
      /\ SumFunction(after) = SumFunction(before) - before[b] + after[b]
  BY <1>2, <1>4, <1>5, <1>6, FiniteBatchIds, SumChange
<1>8. SumFunction(after) = SumFunction(before) + gain
  BY <1>3, <1>7
<1> QED  BY <1>7, <1>8 DEF before, after

LEMMA ReconcileInit == Init => EarningsReconcile
<1> SUFFICES ASSUME Init, NEW relay \in Accounts
             PROVE  /\ earnings[relay].total_earned =
                          earnings[relay].total_claimed + earnings[relay].unclaimed
                    /\ earnings[relay].total_earned = SumFunction(Payouts(relay))
  BY DEF EarningsReconcile
<1> DEFINE payouts == Payouts(relay)
<1>1. earnings[relay] = NoEarnings
  BY DEF Init
<1>2. DOMAIN payouts = BatchIds /\ \A b \in BatchIds : payouts[b] = 0
  BY DEF Init, Payouts, NoFeeEntry
<1> HIDE DEF payouts
<1>3. SumFunction(payouts) = 0
  BY <1>2, FiniteBatchIds, SumZero DEF SumFunction
<1> QED  BY <1>1, <1>3 DEF payouts, NoEarnings

LEMMA ReconcileStep == FeeTypes /\ EarningsReconcile /\ [Next]_vars => EarningsReconcile'
<1> SUFFICES ASSUME FeeTypes, EarningsReconcile, [Next]_vars, NEW r \in Accounts
             PROVE  /\ earnings'[r].total_earned =
                          earnings'[r].total_claimed + earnings'[r].unclaimed
                    /\ earnings'[r].total_earned = SumFunction(Payouts(r))'
  BY DEF EarningsReconcile
<1>0. /\ earnings \in [Accounts -> EarningsRecord]
      /\ earnings[r].total_earned \in Int /\ earnings[r].total_claimed \in Int
      /\ earnings[r].unclaimed \in Int
      /\ earnings[r].total_earned = earnings[r].total_claimed + earnings[r].unclaimed
      /\ earnings[r].total_earned = SumFunction(Payouts(r))
  BY DEF FeeTypes, EarningsReconcile, EarningsRecord
<1>1. CASE UNCHANGED <<earnings, fee_entries>>
  BY <1>0, <1>1 DEF Payouts
<1>2. ASSUME NEW relay \in Accounts, NEW b \in BatchIds, NEW size \in BatchSizes,
             distribute(relay, b, size)
      PROVE  /\ earnings'[r].total_earned =
                   earnings'[r].total_claimed + earnings'[r].unclaimed
             /\ earnings'[r].total_earned = SumFunction(Payouts(r))'
  <2>1. PICK fee \in Nat, share \in Nat :
          /\ ~Distributed(b)
          /\ earnings' = [earnings EXCEPT ![relay] = Credited(earnings[relay], fee, share)]
          /\ fee_entries' = [fee_entries EXCEPT ![b] =
                [relay_address |-> relay, amount |-> fee, treasury_share |-> share]]
    BY <1>2, DistributeEffect
  <2> DEFINE gain == IF r = relay THEN fee - share ELSE 0
  <2>2. SumFunction(Payouts(r))' = SumFunction(Payouts(r)) + gain
    <3> DEFINE e == [relay_address |-> relay, amount |-> fee, treasury_share |-> share]
    <3>1. /\ e \in FeeEntry /\ gain \in Int
          /\ gain = IF e.relay_address = r THEN e.amount - e.treasury_share ELSE 0
          /\ fee_entries' = [fee_entries EXCEPT ![b] = e]
      BY <2>1 DEF FeeEntry
    <3> HIDE DEF gain, e
    <3> QED  BY <2>1, <3>1, PayoutsChange
  <2>3. /\ earnings'[r].total_earned = earnings[r].total_earned + gain
        /\ earnings'[r].unclaimed = earnings[r].unclaimed + gain
        /\ earnings'[r].total_claimed = earnings[r].total_claimed
    <3>1. CASE r = relay
      <4>1. earnings'[r] = Credited(earnings[r], fee, share)
        BY <1>0, <2>1, <3>1
      <4>2. earnings[r] \in EarningsRecord
        BY <1>0
      <4> QED  BY <1>0, <3>1, <4>1, <4>2 DEF Credited, EarningsRecord
    <3>2. CASE r # relay
      <4>1. earnings'[r] = earnings[r]
        BY <1>0, <2>1, <3>2
      <4> QED  BY <1>0, <3>2, <4>1
    <3> QED  BY <3>1, <3>2
  <2>4. gain \in Int
    OBVIOUS
  <2> HIDE DEF gain
  <2> QED  BY <1>0, <2>2, <2>3, <2>4
<1>3. ASSUME NEW relay \in Accounts, claim(relay)
      PROVE  /\ earnings'[r].total_earned =
                   earnings'[r].total_claimed + earnings'[r].unclaimed
             /\ earnings'[r].total_earned = SumFunction(Payouts(r))'
  <2>1. /\ earnings' = [earnings EXCEPT ![relay] = Claimed(earnings[relay])]
        /\ fee_entries' = fee_entries
    BY <1>3, ClaimEffect
  <2>2. SumFunction(Payouts(r))' = SumFunction(Payouts(r))
    BY <2>1 DEF Payouts
  <2>3. /\ earnings'[r].total_earned = earnings[r].total_earned
        /\ earnings'[r].total_claimed + earnings'[r].unclaimed
              = earnings[r].total_claimed + earnings[r].unclaimed
    <3>1. CASE r = relay
      <4>1. earnings'[r] = Claimed(earnings[r]) /\ earnings[r] \in EarningsRecord
        BY <1>0, <2>1, <3>1
      <4>2. /\ earnings'[r].total_earned = earnings[r].total_earned
            /\ earnings'[r].total_claimed = earnings[r].total_claimed + earnings[r].unclaimed
            /\ earnings'[r].unclaimed = 0
        BY <4>1 DEF Claimed, EarningsRecord
      <4> QED  BY <1>0, <4>2
    <3>2. CASE r # relay
      BY <1>0, <2>1, <3>2
    <3> QED  BY <3>1, <3>2
  <2> QED  BY <1>0, <2>2, <2>3
<1> QED
  BY <1>1, <1>2, <1>3 DEF Next, vars, feeVars, initialize, set_fee_rate, TreasuryStep

\* A relay's record adds up over every interleaving of distribute and claim:
\* what it earned is what it claimed and can still claim, and it is the relay's
\* part of the batches recorded for it.
THEOREM EarningsAddUp == Spec => []EarningsReconcile
  BY ReconcileInit, ReconcileStep, FeeTypesHold, PTL DEF Spec

-----------------------------------------------------------------------------
(* The fee entries and the treasury's history agree.                        *)

\* What a distribution adds to the sum of the shares.
LEMMA SharesChange ==
    ASSUME FeeTypes, NEW b \in BatchIds, ~Distributed(b), NEW relay \in Accounts,
           NEW fee \in Nat, NEW share \in Nat,
           fee_entries' = [fee_entries EXCEPT ![b] =
              [relay_address |-> relay, amount |-> fee, treasury_share |-> share]]
    PROVE  /\ SumFunction(Shares) \in Int
           /\ SumFunction(Shares)' = SumFunction(Shares) + share
<1> DEFINE before == Shares
           after == Shares'
<1>0. fee_entries \in [BatchIds -> FeeEntry] /\ fee_entries[b] = NoFeeEntry
  BY DEF FeeTypes, Distributed
<1>1. /\ fee_entries'[b].treasury_share = share
      /\ \A c \in BatchIds \ {b} : fee_entries'[c] = fee_entries[c]
  BY <1>0
<1>2. DOMAIN before = BatchIds /\ DOMAIN after = BatchIds
  BY DEF Shares
<1>3. before[b] = 0 /\ after[b] = share
  BY <1>0, <1>1 DEF Shares, NoFeeEntry
<1>4. \A c \in BatchIds \ {b} : before[c] = after[c]
  BY <1>1 DEF Shares
<1>5. \A c \in BatchIds : before[c] \in Int
  BY <1>0 DEF Shares, FeeEntry
<1>6. \A c \in BatchIds : after[c] \in Int
  BY <1>3, <1>4, <1>5
<1> HIDE DEF before, after
<1>7. /\ SumFunction(before) \in Int
      /\ SumFunction(after) = SumFunction(before) - before[b] + after[b]
  BY <1>2, <1>4, <1>5, <1>6, FiniteBatchIds, SumChange
<1>8. SumFunction(after) = SumFunction(before) + share
  BY <1>3, <1>7
<1> QED  BY <1>7, <1>8 DEF before, after

\* A new entry of the history adds its amount if it is the fee distributor's.
LEMMA DepositsChange ==
    ASSUME TP!TypeOK, NEW e, entries' = Append(entries, e), e.actor = FeeAddr => e.amount \in Int
    PROVE  /\ SumFunction(ShareDeposits) \in Int
           /\ SumFunction(ShareDeposits)' =
                 SumFunction(ShareDeposits) + (IF e.actor = FeeAddr THEN e.amount ELSE 0)
<1> DEFINE n == Len(entries)
           before == ShareDeposits
           after == ShareDeposits'
           gain == IF e.actor = FeeAddr THEN e.amount ELSE 0
<1>1. entries \in Seq(TP!Entry)
  BY DEF TP!TypeOK
<1>2. n \in Nat /\ DOMAIN entries = 1 .. n /\ \A i \in 1 .. n : entries[i] \in TP!Entry
  BY <1>1
<1>3. /\ DOMAIN entries' = 1 .. n + 1 /\ entries'[n + 1] = e
      /\ \A i \in 1 .. n : entries'[i] = entries[i]
  BY <1>1, <1>2
<1>4. DOMAIN before = 1 .. n /\ DOMAIN after = 1 .. n + 1
  BY <1>2, <1>3 DEF ShareDeposits
<1>5. \A i \in 1 .. n : before[i] \in Int /\ before[i] = after[i]
  BY <1>2, <1>3 DEF ShareDeposits, TP!Entry
<1>6. after[n + 1] = gain /\ gain \in Int
  BY <1>2, <1>3 DEF ShareDeposits
<1> HIDE DEF n, before, after, gain
<1>7. /\ SumFunction(before) \in Int
      /\ SumFunction(after) = SumFunction(before) + after[n + 1]
  BY <1>2, <1>4, <1>5, <1>6, SumAppend
<1> QED  BY <1>6, <1>7 DEF before, after, gain

\* The treasury's own transactions book nothing for the fee distributor.
LEMMA OwnEntries ==
    ASSUME TP!TypeOK, T!Next
    PROVE  SumFunction(ShareDeposits)' = SumFunction(ShareDeposits)
<1>1. ASSUME NEW kind, NEW amount, NEW actor, NEW recipient, actor # FeeAddr,
             T!Book(kind, amount, actor, recipient)
      PROVE  SumFunction(ShareDeposits)' = SumFunction(ShareDeposits)
  <2> DEFINE e == [kind |-> kind, amount |-> amount, actor |-> actor, recipient |-> recipient]
  <2>1. entries' = Append(entries, e) /\ e.actor # FeeAddr
    BY <1>1 DEF T!Book, T!RecordEntry
  <2> HIDE DEF e
  <2>2. /\ SumFunction(ShareDeposits) \in Int
        /\ SumFunction(ShareDeposits)' = SumFunction(ShareDeposits) + 0
    BY <2>1, DepositsChange
  <2> QED  BY <2>2
<1>2. CASE entries' = entries
  BY <1>2 DEF ShareDeposits
<1>3. ASSUME NEW from \in Accounts, NEW amount \in Amounts, T!deposit(from, amount)
      PROVE  SumFunction(ShareDeposits)' = SumFunction(ShareDeposits)
  BY <1>1, <1>3, Addresses DEF T!deposit, T!DepositOn
<1>4. ASSUME NEW auth \in SUBSET Accounts, NEW to \in T!Holders, NEW amount \in Amounts,
             T!withdraw(auth, to, amount)
      PROVE  SumFunction(ShareDeposits)' = SumFunction(ShareDeposits)
  BY <1>1, <1>4, Addresses DEF T!withdraw
<1>5. ASSUME NEW auth \in SUBSET Accounts, NEW id \in 1 .. MaxPrograms,
             NEW amount \in Amounts, T!allocate(auth, id, amount)
      PROVE  SumFunction(ShareDeposits)' = SumFunction(ShareDeposits)
  BY <1>1, <1>5, Addresses DEF T!allocate
<1> QED
  BY <1>2, <1>3, <1>4, <1>5
  DEF T!Next, T!initialize, T!create_program, T!update_program_budget,
      T!deactivate_program, T!token_transfer

LEMMA SharesInit == Init => SharesBooked
<1> SUFFICES ASSUME Init PROVE SumFunction(Shares) = SumFunction(ShareDeposits)
  BY DEF SharesBooked
<1> DEFINE shares == Shares
           deposits == ShareDeposits
<1>1. DOMAIN shares = BatchIds /\ \A b \in BatchIds : shares[b] = 0
  BY DEF Init, Shares, NoFeeEntry
<1>2. DOMAIN deposits = {}
  BY DEF Init, T!Init, ShareDeposits
<1> HIDE DEF shares, deposits
<1>3. SumFunction(shares) = 0
  BY <1>1, FiniteBatchIds, SumZero DEF SumFunction
<1>4. SumFunction(deposits) = 0
  BY <1>2, SumEmpty DEF SumFunction
<1> QED  BY <1>3, <1>4 DEF shares, deposits

LEMMA SharesStep ==
    ASSUME FeeTypes, TP!TypeOK, SharesBooked, [Next]_vars
    PROVE  SharesBooked'
<1>1. CASE UNCHANGED <<fee_entries, entries>>
  BY <1>1 DEF SharesBooked, Shares, ShareDeposits
<1>2. ASSUME NEW relay \in Accounts, NEW b \in BatchIds, NEW size \in BatchSizes,
             distribute(relay, b, size)
      PROVE  SharesBooked'
  <2> DEFINE fee == calculate_fee(size)
             share == TreasuryShare(fee)
  <2>1. fee \in Nat /\ share \in Nat
    BY FeesAreNatural DEF FeeTypes
  <2>2. /\ ~Distributed(b)
        /\ fee_entries' = [fee_entries EXCEPT ![b] =
              [relay_address |-> relay, amount |-> fee, treasury_share |-> share]]
        /\ IF share > 0 THEN PayShare(share) ELSE UNCHANGED <<treasuryVars, tokens>>
    BY <1>2 DEF distribute, NewBatch
  <2> HIDE DEF fee, share
  <2>3. /\ SumFunction(Shares) \in Int
        /\ SumFunction(Shares)' = SumFunction(Shares) + share
    BY <2>1, <2>2, SharesChange
  <2>4. SumFunction(ShareDeposits)' = SumFunction(ShareDeposits) + share
    <3>1. CASE share = 0
      <4>1. ShareDeposits' = ShareDeposits
        BY <2>2, <3>1 DEF treasuryVars, ShareDeposits
      <4>2. SumFunction(ShareDeposits) \in Int
        BY <2>3 DEF SharesBooked
      <4> QED  BY <3>1, <4>1, <4>2
    <3>2. CASE share > 0
      <4> DEFINE e == [kind |-> "Deposit", amount |-> share, actor |-> FeeAddr,
                       recipient |-> T!NoAddress]
      <4>1. entries' = Append(entries, e)
        BY <2>2, <3>2 DEF PayShare, T!DepositOn, T!Book, T!RecordEntry
      <4>2. e.actor = FeeAddr /\ e.amount = share /\ e.amount \in Int
        BY <2>1
      <4> HIDE DEF e
      <4> QED  BY <4>1, <4>2, DepositsChange
    <3> QED  BY <2>1, <3>1, <3>2
  <2> QED  BY <2>3, <2>4 DEF SharesBooked
<1>3. CASE TreasuryStep
  <2>1. Shares' = Shares
    BY <1>3 DEF TreasuryStep, feeVars, Shares
  <2>2. SumFunction(ShareDeposits)' = SumFunction(ShareDeposits)
    BY <1>3, OwnEntries DEF TreasuryStep
  <2> QED  BY <2>1, <2>2 DEF SharesBooked
<1> QED
  BY <1>1, <1>2, <1>3
  DEF Next, vars, feeVars, treasuryVars, initialize, claim, set_fee_rate

\* The two contracts never disagree about the shares: what the fee entries
\* record, the treasury's history shows as deposits of the fee distributor.
THEOREM SharesAreBooked == Spec => []SharesBooked
<1>1. FeeTypes /\ TreasuryInv /\ SharesBooked /\ [Next]_vars => SharesBooked'
  BY SharesStep DEF TreasuryInv
<1>2. FeeTypes /\ TreasuryInv /\ [Next]_vars => TreasuryInv'
  BY BothStep
<1> QED  BY <1>1, <1>2, TreasuryInvInit, SharesInit, FeeTypesHold, PTL DEF Spec

=============================================================================
