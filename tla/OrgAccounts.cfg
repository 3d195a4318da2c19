\* Any two faults.
SPECIFICATION FairSpec
CONSTANTS
    a1 = a1
    a2 = a2
    w1 = w1
    w2 = w2
    None = None
    accounts <- MCAccounts
    RegionsOf <- MCRegionsOf
    AsksAll = {a2}
    Chained = {a1}
    Policies <- MCPolicies
    MaxResources = 1
    Workers = {w1, w2}
    Budgets <- TwoFaults
INVARIANTS
    OwnCredentials
    ReportIsTrue
PROPERTIES
    RunEnds
