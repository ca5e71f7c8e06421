\* A waiter that may time out or wait, against writers that set, toggle and delete.
CONSTANTS
    t1 = t1  t2 = t2
    k1 = k1
    v1 = v1
    w1 = w1
    None = None
    Missing = Missing
    AnyKey = AnyKey
    Free = Free
    TimedOut = TimedOut
    Keys = {k1}
    Values = {None, v1}
    Threads <- MCThreads
    CallsOf <- MCCallsOf
    MaxRetries = 2
    Subs = {w1}
    SubKey <- MCSubKey
    OneShot = {}
    Waiters = {w1}
    Pred <- MCPred
    Timed = {w1}
SPECIFICATION FairWaitSpec
INVARIANTS
    WaitTypeOK
    NoLostWakeup
    AnswerAccepted
PROPERTIES
    EveryWaiterReturns
