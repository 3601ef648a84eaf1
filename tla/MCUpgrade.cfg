SPECIFICATION Spec
CONSTANTS
    Release = {1, 2, 3}
    File = {1, 2, 3}
    Declared <- MCDeclared
    Once = {2}
    Totals = 2
    Oldest <- MCOldest
    Skips = {FALSE, TRUE}
    User = {u1}
    Kind = {k1}
    Request = {r1, r2}
    MaxFault = 2
SYMMETRY MCSymmetry
INVARIANTS
    SchemaBeforeCode
    RunAgainOnlyIfLost
    TotalsExact
CHECK_DEADLOCK FALSE
