SPECIFICATION FairSpec
CONSTANTS
    Path = {p, q}
    Writer = {w1, w2}
    RetentionDays = 1
    TombstoneDays = 1
    MaxEntries = 2
    MaxDay = 2
INVARIANTS TypeOK IdsNameTheReadRow NoChangeForgotten
PROPERTY AckedReclaimed
