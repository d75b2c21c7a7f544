\* Three relayers; the checkpoint, its capacity and the configuration change.
SPECIFICATION Spec
CONSTANTS
    Relayer = {r1, r2, r3}
    NoAnswer = NoAnswer
    Failed = Failed
    ErrorText = ErrorText
    MaxSigset = 1
    MaxConfig = 1
    MaxDetail = 1
SYMMETRY Symmetry
INVARIANTS
    TypeOK
    AddressIsWatched
CHECK_DEADLOCK FALSE
