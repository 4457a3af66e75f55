\* A claim of the source that the code does not keep: AbortDropsIteration.
SPECIFICATION Spec
CONSTANTS
    Key = {"search1", "read"}
    NameOf <- MCNameOf
    SearchKey = "search1"
    MaxSteps = 2
    CallCap = 1
    MaxChunks = 2
    Histories <- MCTwoHistories
    PreludeLens = {1}
INVARIANT AbortDropsIteration
CHECK_DEADLOCK FALSE
