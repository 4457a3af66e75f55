SPECIFICATION Spec
CONSTANTS
    a = a
    b = b
    s1 = s1
    s2 = s2
    t1 = t1
    None = None
    Account = {a, b}
    Session = {s1, s2, t1}
    Owner <- MCOwner
    Task = {k1, k2}
INVARIANTS StopReachesStream CalmShowsActive
