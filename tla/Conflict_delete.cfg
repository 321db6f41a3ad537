SPECIFICATION ConflictSpec
CONSTANTS
    Place = p
    Content1 = a
    Content2 = Absent
    Path = {p}
    Content = {a, b}
    Absent = Absent
    Configured <- AllConfigured
    Policy = {"lww"}
    Writers = {1, 2}
    Removers = {1, 2}
    Patient = FALSE
    RsyncEcho = FALSE
    Skew = 0
    MaxUserOps = 1
    MaxFaults = 0
    MaxCrashes = 0
INVARIANT ChangeBeatsDelete
