SPECIFICATION FairSpec
CONSTANTS
    c1 = c1
    c2 = c2
    c3 = c3
    c4 = c4
    key = key
    Checks = {c1, c2, c3, c4}
    Keys = {key}
    Limit = 2
    Window = 2
    Faults = {"lost"}
    KeyOf <- MCKeyOf
INVARIANTS
    TypeOK
    WithinLimit
    LimitedOnlyWhenFull
PROPERTIES
    WindowsCloseUnlessLost
