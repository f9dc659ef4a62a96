SPECIFICATION FormatSpec
CONSTANTS
    CLUSTERS = 4
    FAT_PER_SECTOR = 2
    SLOTS_PER_SECTOR = 1
    SECTOR_SIZE = 1
    MAX_SIZE = 2
    Names = {a, b}
    Tags = {x, y}
    Ops = {"write_all", "format"}
    MAX_FAULTS = 1
    NULL = NULL
SYMMETRY Symmetry
INVARIANT MountedSound
