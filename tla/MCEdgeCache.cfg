SPECIFICATION MCSpec
CONSTANTS
    Colo = {c1, c2}
    Reader = {r1, r2}
    Writer = {w1}
    Sort = {new, top}
    Size = {1, 2}
    Kind = {"first", "deep", "feed"}
    FastTTL = 1
    SlowTTL = 2
    MaxFill = 1
    MaxNow = 2
    number = number
    text = text
    Isolate = {i1, i2}
    Asker = {q1, q2}
    Setting = {number, text}
    Group <- MCGroup
    Env <- MCEnv
    Wish = {0}
    Memo = 1
    MaxDerive = 1
    MaxSaves = 1
    MaxClock = 2
SYMMETRY MCSymmetry
INVARIANTS
    StaleWithinWindow
    StaleOnlyByOverlap
    SavesAreSeen
CHECK_DEADLOCK FALSE
