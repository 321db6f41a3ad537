SPECIFICATION Spec
CONSTANTS
    Unshared = q
    Path = {p, q}
    Content = {a, b}
    Absent = Absent
    Configured <- Shared
    Policy = {"lww"}
    Writers = {1}
    Removers = {}
    Patient = FALSE
    RsyncEcho = FALSE
    Skew = 0
    MaxUserOps = 3
    MaxFaults = 2
    MaxCrashes = 0
SYMMETRY Symmetry
INVARIANT DifferenceIsOwed
