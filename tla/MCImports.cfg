SPECIFICATION MCSpec
CONSTANTS
    N = 3
    PageCount = 2
    UserCount = 1
    Export <- MCExport
    Junk = {2}
    Blocked = {1}
    Reply = {4}
    MaxDepth = 2
    Run = {r1, r2}
    Format = {"disqus", "remark42", "commento", "comentario", "isso", "cusdis"}
    Site = {s1, s2}
    SourceAccount = {"member"}
    SourcePage <- MCPage
    Listing <- MCListing
    MaxLen = 2
    CommentCount = 4
    Reader = {u1, u2}
    Visitor = anon
    PerPage = 1
    Levels = 2
    MaxWrite = 2
    u1 = u1
    u2 = u2
SYMMETRY MCSymmetry
INVARIANTS
    ImportsFaithful
    TreeExact
    ThreadsPagedOnce
PROPERTIES
    OthersLeftAlone
    ThreadsRestored
CHECK_DEADLOCK FALSE
