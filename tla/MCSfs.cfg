SPECIFICATION Spec
CONSTANTS
    MAX_FILES_IN_DIR = 2
    NULL = NULL
    n0 = n0
    n1 = n1
    n2 = n2
    n3 = n3
    n4 = n4
    n5 = n5
    Names <- TreeNames
    Paths <- TreePaths
    NumInodes = 4
    TrashPaths = {}
    CreateModes = {33188, 33204}
    MkdirModes = {493}
    WriteSizes = {4096}
INVARIANTS
    NamesUnambiguous
    EntriesAllocated
    EntriesBackLinked
    DiskCurrent
PROPERTIES
    AllocatedKeepsNames
    ImplementsLinkTable
