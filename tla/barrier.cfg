SPECIFICATION Spec
CONSTANTS
    p1 = p1
    p2 = p2
    h1 = h1
    h2 = h2
    Preparers <- MCPreparers
    Holders <- MCHolders
    MaxGenNum = 3
PROPERTIES
    NoSwitchDuringPrepare
    NoLostWakeup
    HolderGetsIn
    ImplementsBarrier
