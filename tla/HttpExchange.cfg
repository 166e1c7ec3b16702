\* Every message of MCHttpExchange up to MaxLength tokens, cut in every way, and a reset.
CONSTANTS
    Contents <- MCContents
    Queries <- MCQueries
    Bodies <- MCBodies
    Streams <- MCStreams
    Tokens <- MCTokens
    MaxLength = 18
    LUAL_BUFFERSIZE = 2
    MayReset = TRUE
SPECIFICATION Spec
INVARIANTS
    EveryByteOnce
    WaitsAtBoundary
    ParsesWhatWasCreated
PROPERTY EmptyMeansEnd
