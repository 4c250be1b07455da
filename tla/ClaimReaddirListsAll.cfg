SPECIFICATION Spec
CONSTANTS
    MAX_FILES_IN_DIR = 4
    NULL = NULL
    n0 = n0
    n1 = n1
    n2 = n2
    n3 = n3
    n4 = n4
    n5 = n5
    Names <- FlatNames
    Paths <- FlatPaths
    NumInodes = 6
    TrashPaths = {}
    CreateModes = {33188}
    MkdirModes = {}
    WriteSizes = {4096}
INVARIANTS
    ReaddirListsAll
