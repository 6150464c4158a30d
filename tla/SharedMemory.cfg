SPECIFICATION Spec
CONSTANTS
    MAX_PROCESS_NUMBER = 3
    MAX_SHAREDMEMORY_NUMBER = 2
    Frames = {f1, f2, f3}
    WINDOW = 9
    PageCounts = {1, 2}
    MAX_PAGE = 4
SYMMETRY FrameSymmetry
INVARIANTS UsersOK OrphansAreUsed FramesConserved MappedApart
PROPERTIES EndWakesWaiters
CHECK_DEADLOCK FALSE
