\* No database failure: a request id that was used before, or a blank response.
CONSTANTS
    MaxChunks = 3
    MaxTries = 1
    MaxDbFaults = 0
SPECIFICATION Spec
INVARIANT
    FailureIsReported
