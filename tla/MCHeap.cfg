\* Five or six blocks with their descriptors, requests below, at and above
\* the size of a descriptor and of a page, and room for an aligned page that
\* moves to another block.
SPECIFICATION HeapSpec
CONSTANTS
    HEAP_SIZE = 24
    DESCRIPTOR = 2
    PAGE_SIZE = 3
    Sizes = {1, 2, 3}
    Directory = {0, 1}
    MAX_HELD = 3
    NULL = NULL
INVARIANTS
    SizesAddUp
    FreeAreMerged
CHECK_DEADLOCK FALSE
