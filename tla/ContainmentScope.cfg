\* Two runs, two subagents, one guarded call at a time, one day.
CONSTANTS
    Runs = {r1, r2}
    Agents = {a, b}
    NoRun = NoRun
    NoAgent = NoAgent
    Bogus = Bogus
    Paths <- MCPaths
    Anchors <- MCAnchors
    MaxDays = 1
SPECIFICATION Spec
INVARIANTS
    TypeOK
    SeededRunIsKnown
    SearchIsInScope
PROPERTY
    AnswerIsOfOneMoment
SYMMETRY MCSymmetry
CHECK_DEADLOCK FALSE
