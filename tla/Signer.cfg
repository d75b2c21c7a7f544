\* Two checkpoints, two keys to choose from, a failed request and a crash.
SPECIFICATION FairSpec
CONSTANTS
    Key = {k1, k2}
    NoKey = NoKey
    MinBlocks = 1
    MaxIndex = 1
    MaxHeight = 2
    MaxCrashes = 1
    MaxFaults = 1
INVARIANTS
    TypeOK
    KeyIsOurs
PROPERTIES
    CircuitBreakerHolds
    SigningGoesOn
