SPECIFICATION Spec
CONSTANTS
    Nodes <- ThreeNodes
    Resolvers <- OneAndThree
    InitialStatuses <- LeftBehind
    MaxBallot = 2
    MaxRestarts = 1
    Restartable <- NodeTwo
CHECK_DEADLOCK FALSE
INVARIANTS
    AgreementUnlessPromiseBroken
    LogCoversMemory
