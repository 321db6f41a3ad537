SPECIFICATION FairSpec
CONSTANTS
    Path = {p}
    OutCap = 1
    Limits = {1, 2}
    NotifyCap = 1
    SendsPromptly = TRUE
    MayStop = TRUE
    MaxEvents = 3
    MaxFaults = 1
CHECK_DEADLOCK FALSE
INVARIANTS TypeOK LatestLoggedLast NoMissedWakeup FlushAllComplete
PROPERTIES AllDelivered ShutdownEndsOrStuck
