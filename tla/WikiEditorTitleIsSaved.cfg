SPECIFICATION Spec
CONSTANTS
    e1 = e1
    e2 = e2
    Ed = {e1}
    Pasting = {}
    Asking = {}
    Clearing = {e1}
    MaxEvents = 1
INVARIANT TitleIsSaved
CHECK_DEADLOCK FALSE
