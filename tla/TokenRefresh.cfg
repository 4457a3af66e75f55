\* Two terminal processes and a browser of one user.
SPECIFICATION Spec
CONSTANTS
    Proc = {p1, p2}
    Browser = {b1}
    Call = {k1, k2, k3}
SYMMETRY Symmetry
INVARIANTS CalmIsTrusted CalmLeavesNothing
PROPERTIES SignInNeedsLogin
CHECK_DEADLOCK FALSE
