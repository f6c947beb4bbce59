CONSTANTS
    Events <- MCEvents
    Skips <- MCSkips
    Edits <- MCEdits

SPECIFICATION ConformsSpec

INVARIANT ConformsTypeOK
INVARIANT ReportExact
INVARIANT StringNames
