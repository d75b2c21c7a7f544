\* A transaction with two deposits and a plain output: a reorganisation or a
\* fork; a failed request, a failed statement or a restart; and an address that
\* may expire.
SPECIFICATION Spec
CONSTANTS
    t1 = t1
    s1 = s1
    NoScript = NoScript
    Tx = {t1}
    Script = {s1}
    Outputs <- TwoDeposits
    Expiring = {s1}
    RELAY_DEPOSIT_BLOCKS_SIZE = 1
    ChunkSize = 1
    MinConf = 1
    InitHeight = 1
    MaxHeight = 3
    MaxForks = 1
    MaxFaults = 1
INVARIANTS
    TypeOK
    UnconfirmedRowIsMarked
    MarkedIsListed
    ScanHeightsExist
PROPERTIES
    RowLeavesOnlyWhenCredited
