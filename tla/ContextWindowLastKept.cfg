CONSTANTS
    CallId <- MCCalls
    Transcripts <- MCTurn
    Budgets = {2, 3}
    KeepRecents = {1, 2}
    SummarySizes = {1}
SPECIFICATION Spec
INVARIANTS LastKept
CHECK_DEADLOCK FALSE
