SPECIFICATION MCSpec
CONSTANTS
    a1 = a1
    a2 = a2
    p1 = p1
    p2 = p2
    Account = {a1, a2}
    Person = {p1, p2}
    Promoted = {p2}
    Owner = p1
    Role = {"user", "admin"}
    Founder <- MCFounder
    Request = {r1, r2}
    None = None
    Holder = {u1}
    Sid = {s1, s2}
    Browser = {b1}
    TTL = 2
    Lag = 1
    MaxClock = 3
    MaxStamp = 2
SYMMETRY MCSymmetry
PROPERTIES
    StaffMarkHonest
    LastAdminOnlyByRace
    ErasedByNameOnly
    BarredNotSignedIn
    RevokedWhileStamped
CHECK_DEADLOCK FALSE
