CONSTANTS
    a = a
    b = b
    p = p
    x = x
    NoCtx = NoCtx
    Ctx <- MCViewCtx
    Boot <- MCViewBoot
    Prog <- MCViewProg

SPECIFICATION ViewSpec
CHECK_DEADLOCK FALSE

INVARIANT ViewTypeOK
INVARIANT ViewerSeesLive
PROPERTY NoDoubleView
PROPERTY AllFinish
INVARIANT WaitingCounted
