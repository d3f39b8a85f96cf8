SPECIFICATION MCSpec
CONSTANTS
    ann = ann
    bob = bob
    cyd = cyd
    dan = dan
    Address <- MCAddress
    Lists <- MCLists
    Retrier = {r1, r2}
    Admin = {x1}
    Round = Round
    None = None
    Retries = 2
    Wait = 2
    Rotating = FALSE
    AddsFloor = 1
    RemovesFloor = 1
    DriftFloor = 1
    Allowance = 0
    MaxLate = 1
    MaxFaults = 2
    Casts <- MCCasts
INVARIANT NoCreep WaitsAreAlerted
PROPERTY LargeChangesWait AcceptedAsShown SequencesKeepApart
PROPERTY DownIsReported RetriesEnd SteadyChangeApplied
