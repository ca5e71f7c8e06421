\* A key that expired comes back with a restart.
CONSTANTS
    t1 = t1  t2 = t2
    k1 = k1  k2 = k2
    v1 = v1
    None = None
    Missing = Missing
    Never = Never
    NoRow = NoRow
    NoJob = NoJob
    Keys = {k1}
    Values = {None, v1}
    Threads = {t1}
    CallsOf <- MCOneThread
    Async = {}
    Ttls = {1}
    BackendFails = FALSE
    MaxTime = 2
SPECIFICATION Spec
PROPERTIES
    DeadKeysStayDead
