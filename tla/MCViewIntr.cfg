CONSTANTS
    a = a
    b = b
    p = p
    x = x
    NoCtx = NoCtx
    Ctx <- MCViewCtx
    Boot <- MCViewBoot
    Prog <- MCViewProgIntr

SPECIFICATION ViewSpec
CHECK_DEADLOCK FALSE

INVARIANT NoDanglingView
