SPECIFICATION DamagedSpec
CONSTANTS
    CLUSTERS = 3
    FAT_PER_SECTOR = 2
    SLOTS_PER_SECTOR = 1
    SECTOR_SIZE = 1
    MAX_SIZE = 1
    Names = {a, b}
    Tags = {x}
    Ops = {"create", "remove", "rename", "list", "usage", "format"}
    MAX_FAULTS = 0
    NULL = NULL
INVARIANTS DamageReported
PROPERTY CallsReturn
