SPECIFICATION Spec
CONSTANTS
    NNodes <- MCNNodes
    MaxGenNum = 2
    MaxBallots = 2
    MaxCrashes = 0
    MaxExits = 1
    History = {}
INVARIANTS
    OnTourMeansTouring
