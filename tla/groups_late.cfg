SPECIFICATION MCSpec
CONSTANTS
    Proc = {p1, p2}
    Person = {a}
    None = None
    Group = {f, g}
    FeedGroup = {f}
    Includable <- FeedIncluded
    ChecksFail = TRUE
    Legacy <- Nothing
    Policies <- UsersOnly
    RouteFiles <- NoRoles
    Routes <- GroupOnly
    TOTPEnabled = TRUE
    RenewAfter = 2
    RecheckTTL = 2
    StepMaxAge = 1
    Start = 2
    MaxClock = 3
    MaxCookies = 2
    MaxGen = 2
    Outstanding <- Nothing
    Casts <- LateCasts
SYMMETRY ProcSymmetry
INVARIANT RemovalReachesAnswers
