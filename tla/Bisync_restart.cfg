SPECIFICATION FairRestartSpec
CONSTANTS
    Path = {p}
    Content = {a, b}
    Absent = Absent
    Configured <- AllConfigured
    Policy = {"lww"}
    Writers = {1}
    Removers = {1, 2}
    Patient = TRUE
    RsyncEcho = FALSE
    Skew = 0
    MaxUserOps = 2
    MaxFaults = 1
    MaxCrashes = 0
    MaxStops = 1
INVARIANTS RestartTypeOK  
 
