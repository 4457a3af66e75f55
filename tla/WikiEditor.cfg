SPECIFICATION Spec
CONSTANTS
    e1 = e1
    e2 = e2
    Ed = {e1, e2}
    Pasting = {e1}
    Asking = {e2}
    Clearing = {e2}
    MaxEvents = 3
INVARIANTS DirtyIsPending CalmSaved CalmAsk
PROPERTY EditsArrive
CHECK_DEADLOCK FALSE
