\* r1 and r2 share a key, r1 and r3 a fingerprint; r2 reuses r1's request id.
\* No expiry: the liveness of leases does not lean on their TTL.
CONSTANTS
    r1 = r1
    r2 = r2
    r3 = r3
    k1 = k1
    f1 = f1
    Requests <- MCRequests
    Keys = {k1}
    NoKey = NoKey
    Prints = {f1}
    NoPrint = NoPrint
    NoResponse = NoResponse
    KeyOf <- MCKeyOfMixed
    PrintOf <- MCPrintOfMixed
    IdOf <- MCIdOfReused
    MaxRedisFaults = 1
    MaxDbFaults = 1
    MaxExpiries = 0
    MaxStops = 3
SPECIFICATION FairSpec
PROPERTIES
    EveryRequestEnds
    LeaseResolves
