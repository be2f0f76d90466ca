SPECIFICATION Spec
CONSTANTS
    NNodes = 2
    Origin = 1
    MtmUseDtm = TRUE
    MtmEnforceLocalTx = FALSE
    UseReferee = TRUE
    UserTwoPhase = TRUE
    Faults <- LinkAndApply
CHECK_DEADLOCK FALSE
INVARIANTS
    TypeOK
    AtomicUnlessGrantedOrOverruled
    AbortIsApplied
PROPERTIES
    PrecommittedNeverAbortsAlone
    VotingEnds
