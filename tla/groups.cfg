SPECIFICATION MCSpec
CONSTANTS
    Proc = {p1, p2}
    Person = {a}
    None = None
    Group = {f, g}
    FeedGroup = {f}
    Includable <- FeedIncluded
    ChecksFail = FALSE
    Legacy <- AdminName
    Policies <- MixedPolicies
    RouteFiles <- MixedFiles
    Routes <- MixedRoutes
    TOTPEnabled = TRUE
    RenewAfter = 2
    RecheckTTL = 2
    StepMaxAge = 1
    Start = 2
    MaxClock = 4
    MaxCookies = 4
    MaxGen = 2
    Outstanding <- CardAndOther
    Casts <- GroupCasts
SYMMETRY ProcSymmetry
INVARIANT RemovalReachesAnswers AdditionReachesAnswers
INVARIANT TierFollowsPolicy AdminRolesNeedStep GuestsHoldNoAppRole
