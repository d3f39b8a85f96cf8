SPECIFICATION MCSpec
CONSTANTS
    Key = {i1, i2}
    Count = 1
    Window = 1
    GcThreshold = 2
    GcInterval = 1
    MaxTime = 6
    Addr = {a1, a2, a3}
    Permitted = {a1, a2}
    Guest = {}
    Request = {q1, q2}
    Own <- MCOwn
    Ceiling <- MCCeiling
    Daily <- MCDaily
    KnownWindow = 2
    Day = 2
    MaxAlerts = 1
    MaxSends = 1
    MaxLate = 1
    Overflow = Overflow
    SignIn <- MCSignIn
    Login = {l1, l2}
    Who = {w1, w2}
    Visit = {v1, v2}
    App = {p1}
    Ask = {k1, k2}
    Hour = 2
    Retention = 2
    Casts <- MCCasts
SYMMETRY MCSymmetry
CHECK_DEADLOCK FALSE
INVARIANT GainsAreLost RefusedSpendNothing KnownDevicesPass AlertsTold
INVARIANT SeenIsRecorded ReadsAreRecorded
