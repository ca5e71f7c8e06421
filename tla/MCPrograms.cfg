\* The threaded programs, and the benchmark runner with its faults.
CONSTANTS
    Workers = {w1, w2, w3}
    Rounds = 2
    Jobs = 3
    Swings = 2
    MaxTries = 2
    MaxOps = 2
    MaxRuns = 2
    MaxFaults = 1
SPECIFICATION Spec
INVARIANTS
    ThreadsTypeOK
    CountsAreExact
    ReportsAddUp
    StartTogether
    ResultsAreReady
    BenchTypeOK
    ReportsAreTwins
    NothingStale
    ReportComesLast
    OnlyFaultsFail
PROPERTIES
    ProgramEnds
CHECK_DEADLOCK FALSE
