\* Runs, removals and edits of a policy, with failing calls.
SPECIFICATION FairSpec
CONSTANTS
    Families <- Edited
    Default = "default"
    NoGroup = NoGroup
    Absent = Absent
    MaxFaults = 2
    MaxEdits = 2
    MaxRemoves = 1
INVARIANTS
    SuccessIsComplete
    TargetsCanInvoke
PROPERTIES
    KeepsSchedule
    Converges
