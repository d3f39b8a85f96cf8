SPECIFICATION Spec
CONSTANTS
    Proc = {p1}
    Ip = {i1, i2}
    None = None
    Admissions <- StrangersAndStaff
    TTL = 2
    Cooldown = 1
    MaxAttempts = 1
    MaxTotal = 2
    WrongCodes = 1
    MaxClock = 6
    MaxCodes = 2
    MaxGranted = 2
SYMMETRY Symmetric
INVARIANT Indistinguishable
