\* Nobody interferes, nothing fails.
SPECIFICATION Spec
CONSTANTS
    MaxAttempts = 1
    MaxCrashes = 0
    MaxFaults = 0
    MaxEdits = 0
INVARIANTS
    UntouchedPromotionIsVerified
