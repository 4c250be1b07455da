SPECIFICATION ThreadSpec
CONSTANTS
    MAX_FILES_IN_DIR = 2
    NULL = NULL
    WILD = WILD
    Names <- ThreadNames
    Paths <- ThreadPaths
    DirPaths <- ThreadDirPaths
    NumInodes = 4
    Thread = {t1, t2}
    MaxRequests = 4
INVARIANTS
    EntriesOwned
CHECK_DEADLOCK FALSE
