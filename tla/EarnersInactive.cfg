SPECIFICATION Spec
CONSTANTS
    n1 = n1
    n2 = n2
    c1 = c1
    registry = registry
    fees = fees
    treasury = treasury
    Nodes <- MCNodes
    Members <- MCMembers
    RegistryAddr = registry
    FeeAddr = fees
    TreasuryAddr = treasury
    StakeTokens <- MCStakeTokens
    FeeTokens <- MCFeeTokens
    Councils <- MCCouncils
    MinStakes = {2}
    LockPeriods = {1}
    Metadata <- MCMetadata
    Amounts = {2}
    MaxI128 = 4
    MaxU64 = 3
    CloseTime = 1
    FeeRates = {10000}
    ShareRates = {5000}
    BatchIds = {1, 2}
    BatchSizes = {2}
    NonRootAuth = TRUE
    NameLengths = {}
    MaxEntries = 3
    MaxPrograms = 0
PROPERTY
    EarnersAreActive
CHECK_DEADLOCK FALSE
