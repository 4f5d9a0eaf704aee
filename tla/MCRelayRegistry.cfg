SPECIFICATION FairSpec
CONSTANTS
    n1 = n1
    n2 = n2
    c1 = c1
    c2 = c2
    registry = registry
    Nodes <- MCNodes
    Members <- MCMembers
    RegistryAddr = registry
    Councils <- MCCouncils
    MinStakes <- MCMinStakes
    LockPeriods <- MCLockPeriods
    Metadata <- MCMetadata
    Amounts <- MCAmounts
    MaxI128 = 5
    MaxU64 = 3
    CloseTime = 1
    InitialTokens <- MCInitialTokens
INVARIANTS
    TypeOK
    NodeAccounting
    Custody
    ActiveIffStaked
    SlashedHoldsNothing
    CountNeverExceeds
PROPERTIES
    NoEarlyRelease
    ConsentOrQuorum
    NodesLiveAsDocumented
    UnlockEventually
