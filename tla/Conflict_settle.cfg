SPECIFICATION FairConflictSpec
CONSTANTS
    Place = p
    Content1 = a
    Content2 = b
    Path = {p}
    Content = {a, b}
    Absent = Absent
    Configured <- AllConfigured
    Policy = {"lww", "alpha_wins"}
    Writers = {1, 2}
    Removers = {1, 2}
    Patient = FALSE
    RsyncEcho = FALSE
    Skew = 0
    MaxUserOps = 1
    MaxFaults = 2
    MaxCrashes = 2
INVARIANTS WinnerPrevails OneWinner
PROPERTY ConflictSettles
