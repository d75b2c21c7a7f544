\* The key of a confirmation whose execution was refused.
SPECIFICATION Spec
CONSTANTS
    NumBlocks = 2
    ScanBlocks = 2
    Lag = 1
    Limit = 3
    MinConf = 1
    InitHeight = 1
    MaxIndex = 1
    MaxHeight = 4
    MaxForks = 1
    MaxFaults = 0
INVARIANTS
    ConfMarkedMeansConfirmed
