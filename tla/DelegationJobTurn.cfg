\* One job, two requests in its turn, every thread running on.
SPECIFICATION FairSpec
CONSTANTS
    MaxJobs = 1
    MaxRequests = 2
    MaxCrashes = 1
    MaxFaults = 2
    IntentMayFail = FALSE
INVARIANTS
    StartIsTold
    FinalizerFindsAnswer
PROPERTIES
    JobTerminates
