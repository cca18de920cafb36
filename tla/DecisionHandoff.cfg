\* With every failure: an intent write may raise, a handler may die.
SPECIFICATION FairSpec
CONSTANTS
    r1 = r1
    r2 = r2
    Requests <- TwoRequests
    MaxGeneration = 2
    MaxIntentFailures = 1
    HandlerMayFail = TRUE
INVARIANTS
    TypeOK
    ReservationIsExclusive
    WakeHasResolution
    OperatorVerdictIsJournaled
    HandoffInv
PROPERTIES
    DecidesOnce
    ParkedFinishesOrTimerSpent
