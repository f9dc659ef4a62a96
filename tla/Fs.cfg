SPECIFICATION SceneSpec
CONSTANTS
    CLUSTERS = 4
    FAT_PER_SECTOR = 2
    SLOTS_PER_SECTOR = 1
    SECTOR_SIZE = 2
    MAX_SIZE = 5
    Names = {a, b}
    Tags = {x, y}
    Ops = {"create", "remove", "rename", "write_all", "read_all", "list", "usage", "format", "open", "open_create", "read", "write", "truncate"}
    MAX_FAULTS = 1
    NULL = NULL
SYMMETRY Symmetry
INVARIANTS NoLeak AnswersTrue CrashConsistent WorkingStateConsistent
PROPERTY ImplementsFileStore
