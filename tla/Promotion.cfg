\* Three attempts, crashes anywhere, failing steps, a user who edits.
SPECIFICATION Spec
CONSTANTS
    MaxAttempts = 3
    MaxCrashes = 2
    MaxFaults = 2
    MaxEdits = 2
INVARIANTS
    TypeOK
    MutationIsJournaled
    StateTellsWorkspace
    ReviewedIsApplied
    RollbackIsAudited
    PromotionInv
PROPERTIES
    KeysAreFresh
    RecoverySettles
