\* discard() against the worker of a job.
SPECIFICATION Spec
CONSTANTS
    MaxJobs = 1
    MaxRequests = 1
    MaxCrashes = 0
    MaxFaults = 0
    IntentMayFail = FALSE
PROPERTIES
    DiscardIsFinal
