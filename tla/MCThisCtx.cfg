CONSTANTS
    Unit = {1, 3}
    MaxD = 2
    MaxNotes = 2
    MaxNow = 7
SPECIFICATION Spec
INVARIANT NoteNotTimedOut
CHECK_DEADLOCK FALSE
