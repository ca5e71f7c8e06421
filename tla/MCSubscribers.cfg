\* Announcements of concurrent calls to subscribers that come and go.
CONSTANTS
    t1 = t1  t2 = t2
    k1 = k1  k2 = k2
    v1 = v1
    s1 = s1  s2 = s2
    None = None
    Missing = Missing
    AnyKey = AnyKey
    Free = Free
    Unheard = Unheard
    Keys = {k1, k2}
    Values = {None, v1}
    Threads <- MCThreads
    CallsOf <- MCCallsOf
    MaxRetries = 2
    Subs = {s1, s2}
    SubKey <- MCSubKey
    OneShot = {s1}
SPECIFICATION ViewSpec
INVARIANTS
    EveryCallAnnounced
    NoLockInCallback
    HeardIsCurrent
    ChainUnbroken
PROPERTIES
    CancelIsFinal
