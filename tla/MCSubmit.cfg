SPECIFICATION FairSpec
CONSTANTS
    r1 = r1
    r2 = r2
    r3 = r3
    d1 = d1
    talk = talk
    k1 = k1
    k2 = k2
    p1 = p1
    Nobody = Nobody
    NoBody = NoBody
    Requests = {r1, r2, r3}
    Conversations = {talk}
    Deleters = {}
    Strangers = {}
    Keys = {k1, k2}
    Payloads = {p1}
    Streaming = {r1, r2}
    Faults = {"lost", "refresh"}
    Expiring <- SecondKey
    ConvOf <- MCConvOf
    KeyOf <- MCKeyOf
    PayloadOf <- MCPayloadOf
INVARIANTS
    AtMostOneRunPerKey
    StoredResponseMatchesRun
    TurnHoldsKey
PROPERTIES
    SubmissionsAnswered
