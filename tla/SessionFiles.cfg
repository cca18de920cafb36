\* Any of the files, two keys, appends that are interrupted, restarts.
SPECIFICATION Spec
CONSTANTS
    Ids = {a, b}
    MaxWrites = 3
    MaxTears = 2
    MaxRestarts = 2
INVARIANTS
    TypeOK
    ReplayIsLastWins
    MissingRecordWarns
    LoggedOnce
    LossIsBounded
PROPERTIES
    ImplementsTable
