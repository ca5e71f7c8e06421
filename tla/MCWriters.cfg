\* Safety and refinement of concurrent calls of every kind.
CONSTANTS
    t1 = t1  t2 = t2
    k1 = k1  k2 = k2
    v1 = v1
    None = None
    Missing = Missing
    AnyKey = AnyKey
    Free = Free
    Keys = {k1, k2}
    Values = {None, v1}
    Threads <- MCThreads
    CallsOf <- MCCallsOf
    MaxRetries = 2
    Subs = {}
    SubKey <- MCSubKey
    OneShot = {}
SYMMETRY Symmetry
SPECIFICATION Spec
INVARIANTS
    TypeOK
    SnapshotCurrent
    AnnouncementMatchesSwap
PROPERTIES
    CallsAreAtomic
