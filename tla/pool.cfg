SPECIFICATION Spec
CONSTANTS
    QueueSize = 16
    NWorkers = 1
    MtmMaxWorkers = 2
    JobSizes <- MCJobSizes
    MaxJobs = 4
    MayStop = TRUE
INVARIANTS
    SemaphoreCountsJobs
    IntactUnlessOverrun
    WakeupIsPending
PROPERTIES
    EveryoneLeavesOnShutdown
CHECK_DEADLOCK FALSE
