\* Two tenants, four amounts; no symmetry, for the liveness property.
SPECIFICATION FairSpec
CONSTANTS
    tenantA = tenantA
    tenantB = tenantB
    Tenants = {tenantA, tenantB}
    MaxRequests = 3
    OutputTokens = 4
    Window = 3
    Amounts = {0, 1, 2, 5}
INVARIANTS
    NeverOverBudget
    JudgedByTheWindow
    DequeBounded
PROPERTY
    BudgetComesBack
CHECK_DEADLOCK TRUE
