SPECIFICATION Spec
CONSTANTS
    alice = alice
    bob = bob
    t1 = t1
    t2 = t2
    t3 = t3
    d1 = d1
    d2 = d2
    list = list
    history = history
    stranger = stranger
    Nobody = Nobody
    Conversations = {1, 2, 3, 4, 5}
    Existing = {1, 2, 3, 5}
    Turns = {t1, t2, t3}
    Deletions = {d1, d2}
    Lists = {list}
    Histories = {history, stranger}
    Users = {alice, bob}
    OwnerOf <- MCOwnerOf
    CallerOf <- MCCallerOf
    ConvOf <- MCConvOf
    Limit <- MCLimit
SYMMETRY Interchangeable
INVARIANTS
    TypeOK
    HistoryWalk
    ListWalk
    PurgeScheduled
CHECK_DEADLOCK FALSE
