SPECIFICATION Spec
CONSTANTS
    NNodes <- MCNNodes
    MaxGenNum = 3
    MaxBallots = 2
    MaxCrashes = 0
    MaxExits = 0
    History = {"lagging"}
INVARIANTS
    NoLaggingRejoin
