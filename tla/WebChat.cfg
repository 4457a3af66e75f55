SPECIFICATION Spec
CONSTANTS
    s = s
    t = t
    Session = {s, t}
    Size = 4
    MaxId = 6
    Seeds <- MCSeeds
INVARIANTS CalmOffers CalmRowsSettle CalmOneAnswer
PROPERTY TurnEnds
CHECK_DEADLOCK FALSE
