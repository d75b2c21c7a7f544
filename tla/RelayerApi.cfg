\* Two requests at a time, two signatory sets, clocks that differ by up to one, a
\* failed request or a crash.
SPECIFICATION FairSpec
CONSTANTS
    Request = {r1, r2}
    MaxIndex = 1
    MaxTime = 4
    MaxAge = 2
    MaxDepositAge = 1
    DepositBuffer = 0
    Skew = 1
    MaxFaults = 1
INVARIANTS
    TypeOK
    AcceptedIsWatched
    CheckpointAnswerAgrees
PROPERTIES
    ExpiredIsRemoved
