\* Writes and loads of every backend, with failures, crashes and time.
CONSTANTS
    Never = Never
    NoRow = NoRow
    Free = Free
    Keys = {k1, k2}
    Values = {v1}
    Users = {u1, u2}
    Writers = {u1, u2}
    Loaders = {u2}
    Specs <- MCSpecs
    Ttls = {1}
    MaxTime = 2
    MaxWrites = 3
SPECIFICATION Spec
SYMMETRY Symmetry
INVARIANTS
    TypeOK
    LoadIsExact
    WrittenIsKept
