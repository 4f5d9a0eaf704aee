SPECIFICATION FairSpec
CONSTANTS
    p1 = p1
    p2 = p2
    c1 = c1
    t1 = t1
    t2 = t2
    Parties <- MCParties
    Members <- MCMembers
    TxIds <- MCTxIds
    Councils <- MCCouncils
    Windows <- MCWindows
    Proofs <- MCProofs
    MaxU32 = 3
    LastRaise = 1
INVARIANTS
    TypeOK
    RulingIffResolved
    RulingIsJust
    OneDisputePerTx
PROPERTIES
    RulingIsFinal
    WindowIsRespected
    EveryTxIsArbitrated
    DisputesSettle
CHECK_DEADLOCK FALSE
