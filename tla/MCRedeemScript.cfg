\* Up to three signatories, and a foundation of none to two keys.  The numbers
\* the network compares end where the precision does, so that a bit too many is
\* seen; in the code they are 8 bits apart.
SPECIFICATION Spec
CONSTANTS
    Precision = 2
    WordBits = 8
    NumLimit = 4
    MaxSigs = 3
    MaxPower = 3
    Thresholds <- MCThresholds
    Foundations <- MCFoundations
INVARIANTS
    TypeOK
    OpensOnlyAboveShare
    EnoughPowerOpens
PROPERTIES
    ImplementsVote
CHECK_DEADLOCK FALSE
