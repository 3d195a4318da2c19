\* Every action, any two faults.
SPECIFICATION FairSpec
CONSTANTS
    r1 = r1
    r2 = r2
    r3 = r3
    v1 = v1
    v2 = v2
    x = x
    NoTag = NoTag
    Found <- MCFound
    Values = {v1, v2}
    value = v1
    Others = {x}
    Enumerated <- MCEnumerated
    Edits <- MCEdits
    Kinds <- AllKinds
    batch_size = 2
    tag_count_max = 2
    max_attempts = 2
    Budgets <- TwoFaults
INVARIANTS
    OutcomeIsTrue
    RenameKeepsValue
PROPERTIES
    EditsStand
    ActionEnds
