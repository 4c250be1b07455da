SPECIFICATION LoopSpec
CONSTANTS
    MAX_FILES_IN_DIR = 8
    NULL = NULL
    Entry <- OneEntry
CHECK_DEADLOCK FALSE
INVARIANTS
    ExitIsLastEntry
    ExitInBounds
