SPECIFICATION Spec
CONSTANTS
    cron1 = cron1
    cron2 = cron2
    http = http
    run = run
    Calls <- MCCalls
    Runs <- MCRuns
    Records <- MCRecords
    TaskOf <- MCTaskOf
INVARIANTS
    TypeOK
    QueuedIsRecorded
    LaterStartRefused
    ToldTheTruth
\* every call ends
CHECK_DEADLOCK FALSE
