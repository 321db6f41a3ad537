\* One clock, every way the wall clock may step, a counter that wraps, two rows.
SPECIFICATION TextSpec
CONSTANTS
    MaxWall = 7
    LogicalMod = 3
    Base = 2
    MaxRows = 2
INVARIANTS TypeOK CursorWithinSecond
PROPERTIES NowAdvances ReceiveDominates RestartCatchesUp
