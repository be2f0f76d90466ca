SPECIFICATION Spec
CONSTANTS
    NNodes = 2
    MajorNodes <- MCMajorNodes
    UseReferee = TRUE
    donorNodeId <- MCDonorNodeId
    ColdFaults <- OneRefereeFault
    SteadyFaults <- OneOutage
INVARIANTS
    RecoveryFromSlot
    GrantOnlyToWinner
PROPERTIES
    StatusRechecked
    EnabledByRecoveryOrGrant
