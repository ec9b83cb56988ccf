SPECIFICATION Spec
CONSTANTS
    MaxAsks = 2
INVARIANTS
    OverflowAccepted
    PlanBeforeWrite
    GrantsAudited
    ReturnsClean
    ExitTellsOutcome
PROPERTIES
    CancelEnds
\* the run is over
CHECK_DEADLOCK FALSE
