SPECIFICATION FairSpec
CONSTANTS
    n1 = n1
    c1 = c1
    registry = registry
    Nodes <- MCNodes
    Members <- MCMembers
    RegistryAddr = registry
    Councils <- MCCouncils
    MinStakes = {1}
    LockPeriods <- MCLockPeriods
    Metadata <- MCMetadata
    Amounts = {1}
    MaxI128 = 4
    MaxU64 = 7
    CloseTime = 1
    InitialTokens <- MCInitialTokens
    LEDGER_BUMP_THRESHOLD = 2
    LEDGER_BUMP_AMOUNT = 3
    MinTtl = 2
INVARIANTS
    TypeOK
    LockWindowIsLive
PROPERTY
    UnlockDespiteArchival
