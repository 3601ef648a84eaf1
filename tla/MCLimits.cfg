SPECIFICATION MCSpec
CONSTANTS
    r1 = r1
    r2 = r2
    r3 = r3
    burst = burst
    daily = daily
    Request <- MCRequest
    Budget <- MCBudget
    Chain <- MCChain
    Window <- MCWindow
    Cap <- MCCap
    StartClock = 2
    MaxClock = 3
    Identity = {i1}
    Scope = {s1, s2}
    Colo = {c1}
    Limit <- MCLimit
    MaxBuckets = 2
    EvictTo = 1
    MaxNow = 2
SYMMETRY MCSymmetry
INVARIANTS
    MailWithinCap
    SlotsAccountedFor
    ShardHoldsCap
    OvershootOnlyByOverlap
PROPERTY
    ReleaseOnlyOwnSlot
CHECK_DEADLOCK FALSE
