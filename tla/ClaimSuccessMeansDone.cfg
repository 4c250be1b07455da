SPECIFICATION Spec
CONSTANTS
    MAX_FILES_IN_DIR = 2
    NULL = NULL
    n0 = n0
    n1 = n1
    n2 = n2
    n3 = n3
    n4 = n4
    n5 = n5
    Names <- RequestNames
    Paths <- RequestPaths
    NumInodes = 4
    TrashPaths <- RequestTrash
    CreateModes = {33188, 33204}
    MkdirModes = {493, 509}
    WriteSizes = {4096, 131072}
PROPERTIES
    SuccessMeansDone
