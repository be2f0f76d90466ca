SPECIFICATION Spec
CONSTANTS
    Nodes <- ThreeNodes
    Resolvers <- OneAndThree
    InitialStatuses <- Precommitting
    MaxBallot = 2
    MaxRestarts = 0
    Restartable <- NodeTwo
CHECK_DEADLOCK FALSE
INVARIANT
    Agreement
