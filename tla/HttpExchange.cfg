\* Two pieces of text, and streams of up to three deltas.
CONSTANTS
    Pieces = {"p", "q"}
    MaxDeltas = 3
SPECIFICATION FairSpec
INVARIANTS
    GivenIsSent
    SuccessIsWhole
    
    LoggedAsSent
PROPERTY EveryExchangeEnds
