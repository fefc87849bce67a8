\* Two provider calls of up to six chunks: an id, two pieces of text and both token
\* counts fit into one, with one to spare; two database failures.
CONSTANTS
    MaxChunks = 6
    MaxTries = 2
    MaxDbFaults = 2
SPECIFICATION Spec
INVARIANTS
    CompletedIsStreamedAndBilled
    BilledStreamIsWhole
    AbortedStreamIsWhole
