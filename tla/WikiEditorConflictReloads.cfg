SPECIFICATION Spec
CONSTANTS
    e1 = e1
    e2 = e2
    Ed = {e1, e2}
    Pasting = {}
    Asking = {}
    Clearing = {}
    MaxEvents = 2
INVARIANT ConflictReloads
CHECK_DEADLOCK FALSE
