SPECIFICATION Spec
CONSTANTS
    MaxEvents = 2
    MaxAsks = 2
    MaxRuns = 2
INVARIANTS TypeOK ToldByUser EventsShown
PROPERTY StopEnds
\* the app ends, or nobody types
CHECK_DEADLOCK FALSE
