\* The user edits another file while a promotion is verified.
SPECIFICATION Spec
CONSTANTS
    MaxAttempts = 1
    MaxCrashes = 0
    MaxFaults = 0
    MaxEdits = 1
PROPERTIES
    RollbackSparesOtherEdits
