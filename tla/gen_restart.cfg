SPECIFICATION Spec
CONSTANTS
    NNodes <- MCNNodes
    MaxGenNum = 3
    MaxBallots = 2
    MaxCrashes = 2
    MaxExits = 1
    History = {"ballots"}
INVARIANTS
    StateIsSaved
    ReceiveModeMatchesStatus
PROPERTIES
    FreshBallotNumbers
