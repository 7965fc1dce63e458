CONSTANTS
    SECTOR_SIZE = 2
    NV_MEMORY_SIZE = 4
    GLOBAL_PARTITION_SIZE = 1
    Byte = {0, 255}
    ERASED = 255
    MaxLength = 3
SPECIFICATION Spec
INVARIANTS TypeOK ReadReturnsView
PROPERTIES ImplementsStore
