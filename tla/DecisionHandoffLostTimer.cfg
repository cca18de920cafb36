\* The same promise when the intent write may fail once the timer has expired.
SPECIFICATION FairSpec
CONSTANTS
    r1 = r1
    r2 = r2
    Requests <- TwoRequests
    MaxGeneration = 2
    MaxIntentFailures = 1
    HandlerMayFail = FALSE
PROPERTIES
    ParkedRequestFinishes
