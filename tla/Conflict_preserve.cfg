SPECIFICATION ConflictSpec
CONSTANTS
    Place = p
    Content1 = a
    Content2 = b
    Path = {p}
    Content = {a, b}
    Absent = Absent
    Configured <- AllConfigured
    Policy = {"keep_both", "manual"}
    Writers = {}
    Removers = {1, 2}
    Patient = FALSE
    RsyncEcho = FALSE
    Skew = 0
    MaxUserOps = 2
    MaxFaults = 1
    MaxCrashes = 1
CONSTRAINT FewDisturbances
INVARIANTS OneVersionSurvives BlockedKeepsEntry
