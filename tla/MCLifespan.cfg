SPECIFICATION LifespanFairSpec
CONSTANTS
    r1 = r1
    r2 = r2
    e1 = e1
    e2 = e2
    NoEmail = NoEmail
    Registrations = {r1, r2}
    Servers = {s1, s2}
    Emails = {e1, e2}
    EmailOf <- MCEmailOf
    Faults = {"lost"}
    Outages = {"postgres", "valkey"}
    Settings <- MCSettings
INVARIANTS
    LifespanTypeOK
    AdminFirst
    AnswersTrue
    ResourcesHeld
PROPERTIES
    NobodyWaits
