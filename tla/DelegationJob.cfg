\* Two jobs one after the other, a crash, and a write that raises.
SPECIFICATION Spec
CONSTANTS
    MaxJobs = 2
    MaxRequests = 1
    MaxCrashes = 1
    MaxFaults = 1
    IntentMayFail = TRUE
INVARIANTS
    TypeOK
    OneLiveJob
    ActiveJobIsServed
    OpenRequestIsParked
PROPERTIES
    RecoveryIsComplete
