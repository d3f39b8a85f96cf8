SPECIFICATION LimiterSpec
CONSTANTS
    Key = {k1, k2}
    Count = 2
    Window = 2
    GcThreshold = 2
    GcInterval = 1
    MaxTime = 4
CHECK_DEADLOCK FALSE
INVARIANT DroppingChangesNothing
