\* Three requests on one key and one fingerprint; two Redis and two database faults.
CONSTANTS
    r1 = r1
    r2 = r2
    r3 = r3
    k1 = k1
    f1 = f1
    Requests <- MCRequests
    Keys = {k1}
    NoKey = NoKey
    Prints = {f1}
    NoPrint = NoPrint
    NoResponse = NoResponse
    KeyOf <- MCKeyOf
    PrintOf <- MCPrintOf
    IdOf <- MCIdOf
    MaxRedisFaults = 2
    MaxDbFaults = 2
    MaxExpiries = 1
    MaxStops = 1
SPECIFICATION Spec
SYMMETRY MCSymmetry
INVARIANTS
    OneResponsePerKey
    BilledOncePerKey
    ServedIsBilledAndAudited
    LeaseIsExplained
PROPERTIES
    CompletedStays
