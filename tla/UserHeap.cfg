SPECIFICATION Spec
CONSTANTS
    FRAME_COUNT = 52
    kernel_frames = 3
    Regions <- OneRegion
    LEVELS = 4
    ENTRIES = 4
    MAX_PROCESS_NUMBER = 5
    stack_pages = 4
    system_stack_pages = 1
    heap_pages = 1
    PAGE_SIZE = 2
    Modules <- TwoModules
    FaultPages <- TopOfStack
    MAX_FORKS = 2
INVARIANTS UserPagesReachable
