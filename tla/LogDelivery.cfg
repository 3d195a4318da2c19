\* Log delivery with every kind of fault.  Deadlock is not checked: a
\* connection error in the transport thread leaves the main thread waiting.
SPECIFICATION FairSpec
CONSTANTS
    m1 = m1
    m2 = m2
    m3 = m3
    Msgs <- MCMsgs
    BatchMin = 2
    MaxSessions = 2
    Budget <- AllFaults
CHECK_DEADLOCK FALSE
INVARIANTS
    QueueAccounting
    FlushDelivers
    ShutdownStrandsNothing
    DuplicatesNeedLostReply
PROPERTIES
    LeaveReturnsWithThread
    QueuedIsSent
    ImplementsOutbox
