SPECIFICATION Spec
CONSTANTS
  Req = {r1, r2}
  Seed = seed
  k1 = k1
  Key = {k1}
  Kinds <- Overlap
  Seeds <- Traced
  MaxCalls = 1
  MaxEdits = 0
INVARIANT ToolRowsHaveCalls
CHECK_DEADLOCK FALSE
