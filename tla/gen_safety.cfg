SPECIFICATION Spec
CONSTANTS
    NNodes <- MCNNodes
    MaxGenNum = 3
    MaxBallots = 3
    MaxCrashes = 0
    MaxExits = 0
    History = {}
INVARIANTS
    TypeOK
    OnlineOnlyInViableGen
    OnlineMeansSettled
PROPERTIES
    OnlineKeepsPromise
    LastVoteNeverDecreases
