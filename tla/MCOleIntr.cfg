CONSTANTS
    c1 = c1
    c2 = c2
    NoCtx = NoCtx
    Ctx <- MCOleCtx
    Boot <- MCOleBoot
    Prog <- MCOleProgIntr

SPECIFICATION OleSpec
CHECK_DEADLOCK FALSE

INVARIANT OffloadNoDangle
