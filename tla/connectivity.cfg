SPECIFICATION LiveSpec
CONSTANTS
    NNodes = 2
    MaxGenNum = 2
    MaxInFlight = 1
    Established <- NoLink
    Flaky <- From1To2
    Restartable <- Nodes
INVARIANTS
    DonorIsKnown
PROPERTIES
    ViewsConverge
