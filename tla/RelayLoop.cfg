\* Two recovery transactions; a failed request, restart, reorganisation, eviction
\* or transaction that another relayer sends; a new block; another client of the account; two calls, of one client or of each.
SPECIFICATION LoopSpec
CONSTANTS
    MaxTx = 2
    MaxFaults = 1
    Other = {"signer"}
    MaxCalls = 2
    MaxTip = 2
INVARIANTS
    LoopTypeOK
    MarkedRecoveryWasSent
    CallsRunOnceInOrder
PROPERTIES
    RecoveryIsSentUnlessBlocked
    LoopComesRound
