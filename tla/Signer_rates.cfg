\* A copy of the state that is replaced between the check and the signature.
SPECIFICATION Spec
CONSTANTS
    Key = {k1}
    NoKey = NoKey
    MinBlocks = 1
    MaxIndex = 1
    MaxHeight = 2
    MaxCrashes = 0
    MaxFaults = 0
INVARIANTS
    NoSignatureOverRate
