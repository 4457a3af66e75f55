SPECIFICATION Spec
CONSTANTS
    u1 = u1
    u2 = u2
    big = big
    small = small
    Up = {u1, u2}
    File = {big, small}
    Size <- MCSize
    Content <- MCContent
    SingleShot = 2
    ChunkSize = 2
    MaxParallel = 2
INVARIANTS ReadyIsStored CompleteFindsAll CalmLeavesNothing
PROPERTY PendingEnds
CHECK_DEADLOCK FALSE
