SPECIFICATION Spec
CONSTANTS
    NNodes = 2
    MajorNodes <- MCMajorNodes
    UseReferee = TRUE
    donorNodeId <- MCDonorNodeId
    ColdFaults <- OneLinkFault
    SteadyFaults <- NoFaults
INVARIANT
    NoSplitBrain
