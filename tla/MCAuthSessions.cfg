SPECIFICATION Spec
CONSTANTS
    u = u
    l1 = l1
    l2 = l2
    f1 = f1
    f2 = f2
    o1 = o1
    o2 = o2
    None = None
    Users = {u}
    Logins = {l1, l2}
    Refreshes = {f1, f2}
    Logouts = {o1, o2}
    MaxSessions = 1
    UserOf <- MCUserOf
SYMMETRY Interchangeable
INVARIANTS
    TypeOK
    SessionLimit
    SingleFreshToken
    ReuseEndsSession
    LogoutTakesEffect
    SomeRequestProceeds
PROPERTIES
    RevokedStaysRevoked
