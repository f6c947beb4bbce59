CONSTANTS
    c1 = c1
    c2 = c2
    c3 = c3
    c4 = c4
    NoCtx = NoCtx
    Ctx <- MCCtxSet
    Boot <- MCBoot
    Prog <- MCProgIntr

SPECIFICATION Spec

INVARIANT NoLostInterrupt
CHECK_DEADLOCK FALSE
