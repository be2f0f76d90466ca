SPECIFICATION Spec
CONSTANTS
    NSlots = 2
    Txn <- ThreeTxn
    Origin <- OneRemote
    Children <- OneChild
    MtmNodeId = 1
    MtmGcPeriod = 1
    MtmUseDtm = TRUE
    MaxRestarts = 1
CHECK_DEADLOCK FALSE
INVARIANTS
    ChildrenHaveStates
