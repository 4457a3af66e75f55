CONSTANTS
    CallId <- MCCalls
    Transcripts <- MCTranscripts
    Budgets = {1, 2, 3, 5}
    KeepRecents = {1, 2}
    SummarySizes = {1, 2}
SPECIFICATION Spec
INVARIANTS NoDangling PairsWhole WithinBudget
CHECK_DEADLOCK FALSE
