\* Writes, expiry, stop, crash and restart with an mset of two keys.
CONSTANTS
    t1 = t1  t2 = t2
    k1 = k1  k2 = k2
    v1 = v1
    None = None
    Missing = Missing
    Never = Never
    NoRow = NoRow
    NoJob = NoJob
    Keys = {k1, k2}
    Values = {None, v1}
    Threads = {t1}
    CallsOf <- MCTwoKeys
    Async = {}
    Ttls = {1}
    BackendFails = TRUE
    MaxTime = 2
SPECIFICATION Spec
INVARIANTS
    Durable
    DeadlinesMatch
