\* Two tabs of a user who is new, or has two providers, in three gestures; one
\* answer is lost.
SPECIFICATION ProvidersSpec
CONSTANTS
    s1 = s1
    s2 = s2
    a = a
    b = b
    m = m
    Provider = {s1, s2, a, b}
    Name <- MCName
    Seed = {s1, s2}
    Old = {a, b}
    Model = {m}
    SeedModel = m
    Load = {1, 2}
    Write = {11, 12}
    MaxGestures = 3
    MaxLost = 1
INVARIANTS OneDefault CalmPage CalmPin
PROPERTY SavesForm
CHECK_DEADLOCK FALSE
