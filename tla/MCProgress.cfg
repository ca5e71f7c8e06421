\* Every call ends: no conflict for ever, no lock waited for in vain.
CONSTANTS
    t1 = t1  t2 = t2
    k1 = k1
    v1 = v1
    s1 = s1
    None = None
    Missing = Missing
    AnyKey = AnyKey
    Free = Free
    Keys = {k1}
    Values = {None, v1}
    Threads <- MCThreads
    CallsOf <- MCCallsOf
    MaxRetries = 2
    Subs = {s1}
    SubKey <- MCSubKey
    OneShot = {s1}
SPECIFICATION FairSpec
PROPERTIES
    CallsEnd
