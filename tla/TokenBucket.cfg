\* Two processes whose clocks agree or differ by one second, and two calls in flight;
\* a request costs three units and two refill per second, so that Retry-After is
\* rounded up.  An idle bucket is full after three seconds and expires after four.
CONSTANTS
    p1 = p1
    p2 = p2
    c1 = c1
    c2 = c2
    Processes = {p1, p2}
    Calls = {c1, c2}
    Skew = 1
    Cost = 3
    Capacity = 6
    Rate = 2
    MaxTime = 5
    MaxRuns = 4
SPECIFICATION Spec
SYMMETRY MCSymmetry
INVARIANTS
    WindowBound
    CreditIsSkewAndDelay
PROPERTY
    RetryAfterSuffices
