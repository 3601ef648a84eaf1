SPECIFICATION MCSpec
CONSTANTS
    h1 = h1
    h2 = h2
    p1 = p1
    p2 = p2
    c1 = c1
    c2 = c2
    Handler <- MCHandler
    Post <- MCPost
    PendingCap = 1
    MaxToken = 3
    Sub = {1}
    Comment <- MCComment
    Author <- MCGuests
    Refused = {}
    MaxDigests = 1
    MaxPerDigest = 1
    MaxRenewal = 2
    MaxCrash = 1
SYMMETRY MCSymmetry
INVARIANT
    ActiveMeansOptedIn
PROPERTIES
    CancelIsFinal
    FreshWithinPass
    TwiceOnlyIfLost
    ImplementsOutbox
CHECK_DEADLOCK FALSE
