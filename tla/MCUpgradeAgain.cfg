SPECIFICATION Spec
CONSTANTS
    Release = {1, 2, 3}
    File = {1, 2, 3}
    Declared <- MCDeclared
    Once = {2}
    Totals = 2
    Oldest <- MCOldest
    Skips = {FALSE}
    User = {u1}
    Kind = {k1}
    Request = {r1, r2}
    MaxFault = 1
SYMMETRY MCSymmetry
INVARIANT
    NothingLeftToDo
CHECK_DEADLOCK FALSE
