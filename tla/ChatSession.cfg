SPECIFICATION Spec
CONSTANTS
  Req = {r1, r2}
  Seed = seed
  k1 = k1
  Key = {k1}
  Kinds <- Mixed
  Seeds <- Traced
  MaxCalls = 1
  MaxEdits = 1
SYMMETRY Symmetric
INVARIANTS CalmRegenerate CalmReply
PROPERTIES QuestionsSurvive EarlierTurnsSurvive
CHECK_DEADLOCK FALSE
