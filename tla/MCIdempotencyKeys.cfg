SPECIFICATION Spec
CONSTANTS
    r1 = r1
    r2 = r2
    r3 = r3
    r4 = r4
    a = a
    b = b
    p = p
    q = q
    NoBody = NoBody
    Nobody = Nobody
    Requests <- MCRequests
    Slots <- MCSlots
    Fingerprints <- MCFingerprints
    Bodies <- MCBodies
    SlotOf <- MCSlotOf
    FingerprintOf <- MCFingerprintOf
SYMMETRY Interchangeable
INVARIANTS
    TypeOK
    ConflictRowSurvives
PROPERTIES
    ImplementsOnceRegister
