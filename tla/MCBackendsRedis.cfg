\* Redis: a key that expires while it is loaded loses its deadline.
CONSTANTS
    Never = Never
    NoRow = NoRow
    Free = Free
    Keys = {k1}
    Values = {v1}
    Users = {u1, u2}
    Writers = {u1, u2}
    Loaders = {u2}
    Specs <- MCSpecs
    Ttls = {1}
    MaxTime = 2
    MaxWrites = 3
SPECIFICATION Spec
INVARIANTS
    DeadlinesAreLoaded
