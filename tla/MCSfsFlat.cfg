SPECIFICATION Spec
CONSTANTS
    MAX_FILES_IN_DIR = 4
    NULL = NULL
    n0 = n0
    n1 = n1
    n2 = n2
    n3 = n3
    n4 = n4
    n5 = n5
    Names <- FlatNames
    Paths <- FlatPaths
    NumInodes = 6
    TrashPaths <- FlatTrash
    CreateModes = {33188}
    MkdirModes = {509}
    WriteSizes = {4096, 262144}
SYMMETRY FlatSymmetry
INVARIANTS
    TypeOK
    IInv
    ScanInBounds
    EntriesUnique
PROPERTIES
    FailedReadKeepsDisk
