SPECIFICATION Spec
CONSTANTS
    a1 = a1
    a2 = a2
    treasury = treasury
    Accounts <- MCAccounts
    Contracts = {}
    TreasuryAddr = treasury
    Councils <- MCCouncils
    Amounts <- MCAmounts
    NameLengths <- MCNameLengths
    MaxI128 = 3
    MaxEntries = 3
    MaxPrograms = 2
    InitialTokens <- MCInitialTokens
INVARIANTS
    TypeOK
    Backing
    StatsReconcile
    AuditTrailReplays
    SpentReconciles
    WithinBudget
PROPERTIES
    OutflowNeedsQuorum
    DeactivatedStaysFrozen
    TreasuryIsVault
