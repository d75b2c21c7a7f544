\* Three checkpoints, the first of which confirmation may pass over while the
\* other two are proved in order; a reorganisation; and two of failed requests,
\* evictions, crashes and broadcasts by another relayer.
SPECIFICATION FairSpec
CONSTANTS
    NumBlocks = 2
    ScanBlocks = 2
    Lag = 1
    Limit = 3
    MinConf = 1
    InitHeight = 1
    MaxIndex = 2
    MaxHeight = 4
    MaxForks = 1
    MaxFaults = 2
INVARIANTS
    TypeOK
    MarkedCheckpointWasSent
    ScanFindsTransaction
PROPERTIES
    ProofIsRefusedOnlyOffChain
    CompletedIsBroadcast
    ConfirmationCatchesUp
