SPECIFICATION FairSpec
CONSTANTS
  Req = {r1, r2}
  Seed = seed
  k1 = k1
  Key = {k1}
  Kinds <- Overlap
  Seeds <- Traced
  MaxCalls = 0
  MaxEdits = 1
PROPERTY EveryRequestEnds
CHECK_DEADLOCK FALSE
