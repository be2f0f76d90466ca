SPECIFICATION Spec
CONSTANTS
    NNodes <- MCNNodes
    MaxGenNum = 4
    MaxBallots = 4
    MaxCrashes = 0
    MaxExits = 0
    History = {}
INVARIANTS
    DonorsAreMembers
