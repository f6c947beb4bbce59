CONSTANTS
    c1 = c1
    c2 = c2
    c3 = c3
    c4 = c4
    NoCtx = NoCtx
    Ctx <- MCCtxSet
    Boot <- MCBoot
    Prog <- MCProgJoin

SPECIFICATION Spec

PROPERTY JoinWaitsForFinish
