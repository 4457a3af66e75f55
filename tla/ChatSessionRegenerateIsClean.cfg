SPECIFICATION Spec
CONSTANTS
  Req = {r1}
  Seed = seed
  k1 = k1
  Key = {k1}
  Kinds <- Regenerates
  Seeds <- Fork
  MaxCalls = 1
  MaxEdits = 0
INVARIANT RegenerateIsClean
CHECK_DEADLOCK FALSE
