SPECIFICATION LiveSpec
CONSTANTS
    NNodes = 2
    Txn <- FourTxn
    Origin <- OriginOfFour
    Conflicts <- Stall
    MtmWorkers = 1
    MtmMaxWorkers = 1
    QueueJobs = 2
    disabledNodeMask <- Nobody
    MaxInFlight = 1
CHECK_DEADLOCK FALSE
INVARIANTS
    TypeOK
    LoopFoundWhenCurrent
PROPERTIES
    EveryTransactionEnds
