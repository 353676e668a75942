SPECIFICATION Spec
CONSTANTS
    r1 = r1
    r2 = r2
    r3 = r3
    d1 = d1
    x = x
    talk = talk
    Nobody = Nobody
    Requests = {r1, r2}
    Conversations = {talk}
    Deleters = {d1}
    Strangers = {}
    Streaming = {}
    Faults = {}
    ConvOf <- MCConvOf
PROPERTIES
    NoTurnAfterDeletion
