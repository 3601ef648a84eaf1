SPECIFICATION MCSpec
CONSTANTS
    Comment = {c1}
    Network = {n1, n2}
    Recipient = {m1, m2}
    Dead = {m2}
    MaxItems = 1
    MaxRow = 2
    MaxCrash = 1
INVARIANT
    RowPerReport
PROPERTIES
    ImplementsOutbox
    QueueDrains
    RepliesDrain
CHECK_DEADLOCK FALSE
