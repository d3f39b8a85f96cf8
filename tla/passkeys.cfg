SPECIFICATION MCSpec
CONSTANTS
    Request = {q1, q2}
    Person = {p1, p2}
    Holder = p1
    None = None
    Wrong = Wrong
    MaxAttempts = 1
    Window = 2
    ReplayWindow = 3
    Skew = 1
    MaxTime = 4
    MaxLate = 1
    MaxRestarts = 1
    TTL = 1
    Freshness = 1
    StepMaxAge = 2
    GuardMax = 2
    SweepEvery = 1
    MaxChallenges = 3
    MaxPasskeys = 2
    Casts <- MCCasts
SYMMETRY MCSymmetry
CHECK_DEADLOCK FALSE
INVARIANT WrongCodesBounded CodesPassOnce ChallengesAnsweredOnce
INVARIANT PasskeysAreProven AdminGradeIsEarned
