SPECIFICATION FairSpec
CONSTANTS
    Path = {p, q}
    Excluded = {}
    Cases = {"busy stop", "stop in scan", "late watch", "first boot", "walk fails", "append fails"}
    MaxTime = 5
    MaxOps = 3
    MaxRuns = 3
CHECK_DEADLOCK FALSE
INVARIANTS TypeOK NoWriteMissed NothingLoggedTwice
PROPERTY CatchesUp
