SPECIFICATION FairSpec
CONSTANTS
    Worker = {w1, w2}
    QueueCap = 2
    MaxKeys = 3
    MaxJobs = 4
    MaxFiles = 1
    MaxFaults = 1
CHECK_DEADLOCK FALSE
INVARIANTS TypeOK PoolDrained StoreOutlivesScan RecordedBeforePanic
PROPERTIES ShutdownEnds 
