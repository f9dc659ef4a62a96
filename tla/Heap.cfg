SPECIFICATION Spec
CONSTANTS
    HEAP_SIZE = 20
    HEADER = 2
    Sizes = {1, 2, 3, 5}
    NULL = NULL
INVARIANTS NoOverlap HeapTiled Coalesced
