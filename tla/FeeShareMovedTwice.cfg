SPECIFICATION Spec
CONSTANTS
    a1 = a1
    a2 = a2
    fees = fees
    treasury = treasury
    Accounts <- MCAccounts
    FeeAddr = fees
    TreasuryAddr = treasury
    Councils <- MCCouncils
    FeeRates <- MCFeeRates
    ShareRates <- MCShareRates
    BatchIds <- MCBatchIds
    BatchSizes <- MCBatchSizes
    NonRootAuth = TRUE
    Amounts = {1}
    NameLengths = {}
    MaxI128 = 4
    MaxEntries = 3
    MaxPrograms = 0
    InitialTokens <- MCInitialTokens
PROPERTY
    ShareMovedOnce
CHECK_DEADLOCK FALSE
