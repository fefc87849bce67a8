\* Months of two seconds, seconds of two ticks; a limit of two tokens or none.
CONSTANTS
    a = a
    b = b
    c = c
    Requests = {a, b, c}
    Models = {"m1", "m2"}
    ChainOf <- MCChainOf
    EstimateOf <- MCEstimateOf
    Caching = {a, b}
    Nobody = Nobody
    Limits = {2}
    Unlimited = Unlimited
    MaxTokens = 1
    TicksPerSecond = 2
    SecondsPerMonth = 2
    MaxTime = 4
    MaxChanges = 1
SPECIFICATION Spec
SYMMETRY MCSymmetry
INVARIANTS
    TypeOK
    OvershootIsConcurrency
    ServedByEntitledModel
    HitIsEntitledAndBilled
    RetryAfterReachesNextMonth
