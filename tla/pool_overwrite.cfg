SPECIFICATION Spec
CONSTANTS
    QueueSize = 16
    NWorkers = 1
    MtmMaxWorkers = 2
    JobSizes <- MCJobSizes
    MaxJobs = 4
    MayStop = FALSE
INVARIANTS
    JobsRunIntactOnce
CHECK_DEADLOCK FALSE
