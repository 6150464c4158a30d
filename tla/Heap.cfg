SPECIFICATION Spec
CONSTANTS
    DESCRIPTOR = 2
    HEAP_START = 6
    HEAP_SIZE = 18
    WORD = 64
    Sizes = {0, 1, 4}
    Alignments = {3, 4}
INVARIANTS ZonesOK FreeListOK
PROPERTIES AllocatorSpec
