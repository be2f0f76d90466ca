SPECIFICATION Spec
CONSTANTS
    Peers <- TwoPeers
    InitialTables <- FreshOrCopied
    MaxStarts = 9
    MaxChanges = 3
    MaxDeaths = 2
    MaxErrors = 2
CHECK_DEADLOCK FALSE
INVARIANTS
    NewNodeStartsClean
