SPECIFICATION MCSpec
CONSTANTS
    c1 = c1
    c2 = c2
    u1 = u1
    op = op
    h1 = h1
    h2 = h2
    Comment = {c1, c2}
    Parent <- MCParent
    User = {u1, op}
    Operator = op
    Handler = {h1, h2}
    Submit = {1, 2}
    MaxForm = 2
    MaxToken = 1
    AtOpen = 2
    MaxComment = 4
    PageSize = 1
    ReplyCap = 1
SYMMETRY Handlers
INVARIANTS
    FlaggedNeedsModerator
    WaitersAreTimed
    NeverTwice
    NoReloadLost
PROPERTIES
    HeldUntilModerator
    DeletedStaysDeleted
    BarredUserStops
CHECK_DEADLOCK FALSE
