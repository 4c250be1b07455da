SPECIFICATION CrashSpec
CONSTANTS
    MAX_FILES_IN_DIR = 2
    NULL = NULL
    WILD = WILD
    Names <- CrashNames
    Paths <- CrashPaths
    NumInodes = 5
    TrashPaths = {}
    CreateModes = {33188}
    MkdirModes = {493}
    WriteSizes = {}
    MaxCuts = 1
INVARIANTS
    CrashInv
    NamesUnambiguous
    ScanInBounds
    DiskCurrent
PROPERTIES
    GainedIsAllocated
    LostIsFree
    DamageIsLocal
