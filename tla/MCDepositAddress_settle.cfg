\* Three relayers whose answers need not agree.
SPECIFICATION FairSpec
CONSTANTS
    Relayer = {r1, r2, r3}
    NoAnswer = NoAnswer
    Failed = Failed
    ErrorText = ErrorText
    MaxSigset = 0
    MaxConfig = 0
    MaxDetail = 1
PROPERTIES
    WalletGetsAResult
CHECK_DEADLOCK FALSE
