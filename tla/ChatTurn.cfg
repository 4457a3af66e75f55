\* Interleavings of one turn: every way it may be called, abort and close at
\* every point, one executed call per step, two searches with the
\* automatic one against their limit.
SPECIFICATION FairSpec
CONSTANTS
    Key = {"search1", "search2", "read"}
    NameOf <- MCNameOf
    SearchKey = "search1"
    MaxSteps = 2
    CallCap = 1
    MaxChunks = 2
    Histories <- MCTwoHistories
    PreludeLens = {1}
INVARIANTS Pairing DoneIsAnswered StreamProtocol StoreFollowsStream
           AbortStopsWork ToolBudget
PROPERTIES ImplementsTurnLog EventuallyEnds
CHECK_DEADLOCK FALSE
