\* Every processor, any two faults.
SPECIFICATION FairSpec
CONSTANTS
    m1 = m1
    m2 = m2
    Msgs = {m1, m2}
    To <- MCTo
    Setups <- AllSetups
    PageSize = 2
    max_message_retry = 1
    Budgets <- TwoFaults
INVARIANTS
    SequentialLosesNothing
    RepeatsHaveReason
PROPERTIES
    CatchesUp
