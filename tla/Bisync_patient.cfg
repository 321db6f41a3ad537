SPECIFICATION FairSpec
CONSTANTS
    Unshared = none
    Path = {p}
    Content = {a, b}
    Absent = Absent
    Configured <- Shared
    Policy = {"lww"}
    Writers = {1, 2}
    Removers = {1, 2}
    Patient = TRUE
    RsyncEcho = TRUE
    Skew = 0
    MaxUserOps = 2
    MaxFaults = 2
    MaxCrashes = 0
INVARIANTS TypeOK LatestEverywhere
PROPERTY ImplementsMirror
