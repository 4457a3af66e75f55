SPECIFICATION Spec
CONSTANTS
    s = s
    t = t
    Session = {s, t}
    Size = 3
    MaxId = 6
    Seeds <- MCLong
PROPERTY AutoFiresUnanswered
CHECK_DEADLOCK FALSE
