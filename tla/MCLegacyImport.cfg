SPECIFICATION Spec
CONSTANTS
    k1 = k1
    k2 = k2
    u1 = u1
    w1 = w1
    l1 = l1
    l2 = l2
    p1 = p1
    p2 = p2
    Keys = {k1, k2}
    Usernames = {k1, k2, u1}
    Passwords = {w1}
    Lists = {l1, l2}
    Names = {p1, p2}
    NoPassword = noPassword
    TvLogin = tvLogin
    NoList = noList
    NoName = noName
    MaxPresets = 2
    MaxEdits = 1
    Archives <- SomeArchives
    Drafts = {d1}
    MaxImports = 2
INVARIANTS
    TypeOK
    RunningIsLaunchable
    SeedMatchesUser
    ReimportIsNoOp
PROPERTIES
    ChangesAreAsked
    UIDataIsKept
    AppliedAsReviewed
CHECK_DEADLOCK FALSE
