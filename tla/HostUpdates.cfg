\* The container host with edits, a malformed message, and one fault of each
\* kind.
SPECIFICATION FairSpec
CONSTANTS
    m1 = m1
    m2 = m2
    m3 = m3
    e1 = e1
    bad = bad
    Names = {"a.yml", "dir/b.yml"}
    Nested = {"dir/b.yml"}
    Versions <- MCVersions
    Unhashable <- MCUnhashable
    Msgs = {m1, m2, m3}
    EventOf <- MCEventOf
    Malformed = bad
    Absent = Absent
    queue_message_count = 2
    max_dequeue_count = 2
    Budgets <- MCBudgets
INVARIANTS
    LoadedMatchesDisk
    WholeVersions
    RetriesCounted
PROPERTIES
    CatchesUp
