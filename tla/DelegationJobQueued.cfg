\* A crash between the last write of a start and the first of its worker.
SPECIFICATION Spec
CONSTANTS
    MaxJobs = 1
    MaxRequests = 1
    MaxCrashes = 1
    MaxFaults = 0
    IntentMayFail = FALSE
PROPERTIES
    RecoverySettlesEveryJob
