CONSTANTS
    c1 = c1
    c2 = c2
    c3 = c3
    c4 = c4
    w1 = w1
    w2 = w2
    NoCtx = NoCtx
    Ctx <- MCRtCtx
    Workers <- MCRtWorkers
    Boot <- MCRtBoot
    Prog <- MCRtProg

SPECIFICATION RuntimeSpec
CHECK_DEADLOCK FALSE

INVARIANT RuntimeTypeOK
INVARIANT SingleResume
INVARIANT NoLostWakeup
INVARIANT NoUseAfterFree
INVARIANT OffloadNoDangle
INVARIANT YieldNoDangle
INVARIANT AvailableIdle
INVARIANT WorkNotStranded
PROPERTY JoinWaitsForFinish
PROPERTY WakeupDelivered
PROPERTY WorkerDrains
PROPERTY OleAllFinish
INVARIANT DetachedReclaimed
PROPERTY PoolQueueRefined
