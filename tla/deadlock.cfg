SPECIFICATION LiveSpec
CONSTANTS
    NNodes = 2
    Txn <- ThreeTxn
    Origin <- OriginOfThree
    Conflicts <- CrossOrStall
    MtmWorkers = 1
    MtmMaxWorkers = 1
    QueueJobs = 1
    disabledNodeMask <- Nobody
    MaxInFlight = 1
CHECK_DEADLOCK FALSE
INVARIANTS
    LoopFoundWhenCurrent
PROPERTIES
    EveryTransactionEnds
