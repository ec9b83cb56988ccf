SPECIFICATION Spec
CONSTANTS
    later = later
    sunday = sunday
    r1 = r1
    r2 = r2
    t2 = t2
    Jobs <- MCJobs
    SpecOf <- MCSpec
    Requests = {r1, r2}
    Hooks = {r2}
    EditTo = {"fits", "misfit", "denied", "missing", "broken"}
    TaskOf <- MCTask
    Unit = 1
    Epoch <- MCEpoch
    MaxTime = 1
    MaxTurns = 2
INVARIANTS TypeOK OncePerTask TickAccounts MatchedOrEdited
CHECK_DEADLOCK FALSE
PROPERTIES EveryTaskRuns RequestsEnd
