SPECIFICATION Spec
CONSTANTS
    h1 = h1
    h2 = h2
    p1 = p1
    p2 = p2
    Handler <- MCHandler
    Post <- MCPost
    PendingCap = 1
    MaxToken = 3
SYMMETRY MCSymmetry
PROPERTY
    LinkRetiredByCancel
CHECK_DEADLOCK FALSE
