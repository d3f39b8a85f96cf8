SPECIFICATION MCSpec
CONSTANTS
    Card = {c1}
    Group = {g1}
    Browser = {b1}
    Request = {q1, q2}
    FeedGroup = {}
    None = None
    Hour = 2
    OfferTTL = 0
    MaxGen = 2
    MaxTime = 3
    MaxLate = 1
    MaxRestarts = 1
    Casts <- MCCasts
SYMMETRY MCSymmetry
CHECK_DEADLOCK FALSE
INVARIANT RetiredCodesGrantNothing RefusedTargetsGrantNothing
INVARIANT AnsweredOffersStaySpent RefusalsAreTold
