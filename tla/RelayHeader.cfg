\* Two branches that take off up to two blocks, against batches of four headers, and a
\* failed request.
SPECIFICATION FairSpec
CONSTANTS
    RELAY_HEADER_BATCH_SIZE = 4
    InitHeight = 1
    MaxHeight = 5
    MaxForks = 2
    MaxDepth = 2
    MaxFaults = 1
INVARIANTS
    TypeOK
    StartIsOnSideChain
    CompleteBatchIsAccepted
    RestIsInStep
PROPERTIES
    ImplementsFollow
