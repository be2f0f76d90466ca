SPECIFICATION Spec
CONSTANTS
    NNodes = 2
    Origin = 1
    MtmUseDtm = TRUE
    MtmEnforceLocalTx = FALSE
    UseReferee = TRUE
    UserTwoPhase = FALSE
    Faults <- LinkOnly
CHECK_DEADLOCK FALSE
INVARIANTS
    Atomicity
