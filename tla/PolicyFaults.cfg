\* A limited pull policy and a serverless one, with every fault.
SPECIFICATION Spec
CONSTANTS
    PolicyData <- TwoPolicies
    MaxPop = 2
    BufferSize = 3
    Custom = {"Unencrypted"}
    Faults = {"call", "enter", "body", "exit", "metrics", "log"}
INVARIANTS
    ActsAsAllowed
    FailedBodyReleasesContext
    FailuresAreMetered
    
    OnlyLogsAbort
