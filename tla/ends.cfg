SPECIFICATION MCSpec
CONSTANTS
    Proc = {p1, p2}
    Person = {a}
    Passkey = {k}
    Card = {c}
    None = None
    Owner <- MCOwner
    SessionTTLs <- OneTTL
    CardTTL = 2
    RenewAfter = 1
    MaxAge = 2
    Start = 4
    MaxClock = 7
    MaxGen = 2
    MaxCookies = 3
    Outstanding <- MCOutstanding
    Casts <- MCCasts
SYMMETRY ProcSymmetry
INVARIANT RemovedPasskeyWindow
PROPERTY AckedEndsHold RetiredCardsHold MaxAgeHolds ImplementsTable
