CONSTANTS
    ModuleNames <- MCModuleNames
    Optional <- MCOptional
    MayFail <- MCMayFail
    Listen = "m_listen"
    Cmds <- MCCmds
    Lines <- MCLines
    Items <- MCItems
    SetFails <- MCSetFails
    Chars <- MCChars

SPECIFICATION ConsoleSpec
CHECK_DEADLOCK FALSE

INVARIANT ConsoleTypeOK
INVARIANT ImportsOwned
INVARIANT DbsOutliveImports
INVARIANT FindLongest
PROPERTY UpHasAll
PROPERTY ReloadLossConfined
PROPERTY DefaultConfStops
