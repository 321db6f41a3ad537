SPECIFICATION Spec
CONSTANTS
    Component = {"d", "e", "g", "x"}
    File <- Files
    Root <- Roots
    PairName = {"m", "n"}
    Pattern <- Patterns
    Process = {"u", "v"}
    QueueCap = 2
    MaxPairs = 2
    MaxOps = 3
CHECK_DEADLOCK FALSE
INVARIANTS EntriesNameFiles LastEntryIsTrue
