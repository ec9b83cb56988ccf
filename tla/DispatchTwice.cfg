SPECIFICATION Spec
CONSTANTS
    cron1 = cron1
    cron2 = cron2
    http = http
    run = run
    Calls <- MCCalls
    Runs <- MCRuns
    Records <- MCRecords
    TaskOf <- MCTaskOf
INVARIANTS
    OneMessagePerTask
CHECK_DEADLOCK FALSE
