SPECIFICATION Spec
CONSTANTS
    n1 = n1
    n2 = n2
    c1 = c1
    c2 = c2
    registry = registry
    Nodes <- MCNodes
    Members <- MCMembers
    RegistryAddr = registry
    Councils <- MCCouncils
    MinStakes <- MCMinStakes
    LockPeriods <- MCLongLocks
    Metadata <- MCMetadata
    Amounts <- MCAmounts
    MaxI128 = 5
    MaxU64 = 10
    CloseTime = 5
    InitialTokens <- MCInitialTokens
PROPERTY
    LockLastsLedgers
CHECK_DEADLOCK FALSE
