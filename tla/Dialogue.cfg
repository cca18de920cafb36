\* Two dialogues; the App Server fails, writes raise, the server dies.
SPECIFICATION FairSpec
CONSTANTS
    Dialogues = {d1, d2}
    MaxPrompts = 2
    MaxCrashes = 2
    MaxFaults = 2
    FaultKinds = {"runtime", "artifact", "later", "record", "torn"}
INVARIANTS
    TypeOK
    CompletedTurnIsFinalized
    ActiveDialogueIsReadable
    TurnNumberIsNext
    RecoverableEntries
    SizeIsOfTurnNumber
PROPERTIES
    RecoveryHeals
