SPECIFICATION Spec
CONSTANTS
    NNodes = 2
    Txn <- TwoTxn
    Origin <- OriginOfTwo
    Conflicts <- Cross
    MtmWorkers = 1
    MtmMaxWorkers = 1
    QueueJobs = 2
    disabledNodeMask <- Nobody
    MaxInFlight = 1
CHECK_DEADLOCK FALSE
PROPERTIES
    VictimIsDeadlocked
