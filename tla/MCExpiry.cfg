\* Safety and refinement of the expiry scheduler.
CONSTANTS
    Keys = {k1, k2}
    Never = Never
    NoKey = NoKey
    MaxTime = 2
    MaxGen = 3
SPECIFICATION FairSpec
INVARIANTS
    TypeOK
    OneDeadline
    NeverOversleeps
PROPERTIES
    KeepsDeadlines
    DueKeysExpire
    StopEnds
CHECK_DEADLOCK FALSE
