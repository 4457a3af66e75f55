\* A claim of the source that the code does not keep: ParallelReadsSucceed.
SPECIFICATION ProvidersSpec
CONSTANTS
    s1 = s1
    s2 = s2
    a = a
    b = b
    m = m
    Provider = {s1, s2, a, b}
    Name <- MCName
    Seed = {s1, s2}
    Old = {a, b}
    Model = {m}
    SeedModel = m
    Load = {1, 2}
    Write = {11, 12}
    MaxGestures = 2
    MaxLost = 1
INVARIANT ParallelReadsSucceed
CHECK_DEADLOCK FALSE
