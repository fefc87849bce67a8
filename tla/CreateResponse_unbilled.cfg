\* No fault of any kind: a client reuses an X-Request-ID.
CONSTANTS
    r1 = r1
    r2 = r2
    r3 = r3
    k1 = k1
    f1 = f1
    Requests <- MCRequests
    Keys = {k1}
    NoKey = NoKey
    Prints = {f1}
    NoPrint = NoPrint
    NoResponse = NoResponse
    KeyOf <- MCKeyOfNone
    PrintOf <- MCPrintOfMixed
    IdOf <- MCIdOfReused
    MaxRedisFaults = 0
    MaxDbFaults = 0
    MaxExpiries = 0
    MaxStops = 0
SPECIFICATION Spec
INVARIANT
    GenerationIsBilled
