SPECIFICATION FairSpec
CONSTANTS
    FACTORY_SECTORS = 4
    CHUNK_SECTORS = 2
    TEST_LBA = 1
    Names = {"a", "b"}
    OldNames = {"a", "b", "invalid"}
    Bundled = {"a"}
    MAX_EPOCH = 2
    MAX_FAULTS = 2
INVARIANTS InstallVerified ErasedFilesGone MigrationComplete
PROPERTIES UserFilesKept BootEnds
