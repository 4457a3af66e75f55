\* One process and two requests that find the access token expired.
SPECIFICATION Spec
CONSTANTS
    Proc = {p1}
    Browser = {b1}
    Call = {k1, k2}
INVARIANT RotatedOnce
CHECK_DEADLOCK FALSE
