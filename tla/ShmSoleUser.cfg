SPECIFICATION Spec
CONSTANTS
    MAX_PROCESS_NUMBER = 2
    MAX_SHAREDMEMORY_NUMBER = 1
    Frames = {f1, f2, f3}
    WINDOW = 9
    PageCounts = {1}
    MAX_PAGE = 2
INVARIANTS WaitsForUsers
CHECK_DEADLOCK FALSE
