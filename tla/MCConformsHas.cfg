CONSTANTS
    Events <- MCEvents
    Skips <- MCSkips
    Edits <- MCEdits

SPECIFICATION ConformsSpec

INVARIANT HasUintAgrees
