SPECIFICATION MCSpec
CONSTANTS
    Proc = {p1, p2}
    Ip = {i1, i2}
    None = None
    Admissions <- AnyPage
    TTL = 2
    Cooldown = 1
    MaxAttempts = 2
    MaxTotal = 3
    WrongCodes = 1
    MaxClock = 7
    MaxCodes = 2
    MaxGranted = 5
    Casts <- Resending
SYMMETRY Symmetric
PROPERTY NoResetInCooldown
