SPECIFICATION Spec
CONSTANTS
    Data = {0, 1}
    JUNK = JUNK
    ATA_SECTORS = 5
    ATA_RETRIES = 2
    MAX_COUNT = 4
    LBA_SPACE = 8
    QUEUE_ENTRIES = 2
    ID_MOD = 4
    PER_BLOCK = 2
    NSZE = 3
    MAX_SECTORS = 5
    MAX_BLOCKS = 2
    Lbas = {0, 1, 2, 9}
    Counts = {4, 5}
    Patterns <- MCPatterns
INVARIANTS QueuesInStep WritesFlushed CommandsInRange
PROPERTIES ImplementsBlockDevice CallsReturn
