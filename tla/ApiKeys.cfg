\* Three calls, one tenant request; one key exists, three can be created.
CONSTANTS
    c1 = c1
    c2 = c2
    c3 = c3
    k1 = k1
    k2 = k2
    k3 = k3
    k4 = k4
    Calls = {c1, c2, c3}
    Logins = {l1}
    KeyIds = {k1, k2, k3, k4}
    Existing = {k1}
    NoKey = NoKey
    NoCall = NoCall
    MaxDbFaults = 1
    MaxCrashes = 1
    MaxSuspensions = 2
SPECIFICATION Spec
SYMMETRY MCSymmetry
INVARIANTS
    RotationReplaces
    AuditIsComplete
    RevocationIsImmediate
PROPERTY
    RevokedStays
