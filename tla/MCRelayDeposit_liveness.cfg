\* One deposit from its broadcast to its credit, past a reorganisation or a
\* fork the node has not seen, and a failed request, a failed statement or a
\* restart.
SPECIFICATION FairSpec
CONSTANTS
    t1 = t1
    s1 = s1
    NoScript = NoScript
    Tx = {t1}
    Script = {s1}
    Outputs <- OneOutput
    Expiring = {}
    RELAY_DEPOSIT_BLOCKS_SIZE = 2
    ChunkSize = 2
    MinConf = 1
    InitHeight = 2
    MaxHeight = 4
    MaxForks = 1
    MaxFaults = 1
PROPERTIES
    DeepDepositIsCredited
    CreditedRowIsDropped
