SPECIFICATION Spec
CONSTANTS
    User = {"mtm", "alice"}
    Login = {"alice"}
    MtmDatabaseUser = "mtm"
    Value = {"a"}
    MtmIgnoreTablesWithoutPk = TRUE
    MtmVolksWagenMode = FALSE
    MtmMonotonicSequences = TRUE
    Workload = {"statements", "settings"}
    MaxStmts = 3
    MaxSets = 1
    MaxDepth = 2
INVARIANT ContextFollowsTracked
INVARIANT MessagesPaired
INVARIANT WrittenMeansTwoPhase
