SPECIFICATION Spec
CONSTANTS
    NNodes = 2
    Origin = 1
    MtmUseDtm = TRUE
    MtmEnforceLocalTx = FALSE
    UseReferee = FALSE
    UserTwoPhase = TRUE
    Faults <- LinkOnly
CHECK_DEADLOCK FALSE
INVARIANTS
    CommitPreparedIsAtomic
