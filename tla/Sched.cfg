SPECIFICATION Spec
CONSTANTS
    MAX_PROCESS_NUMBER = 4
    MAX_SEMAPHORE_NUMBER = 1
    timesharing_interval = 2
    TICK_MODULUS = 16
    BootLevels <- SystemAndUser
    DriverIrqs = {}
    Calls = {"sleep", "exit", "fork", "join", "signal"}
    JoinOwnChildren = TRUE
    IdsInRange = TRUE
    SleepTicks = {1, 3}
    StartCounts = {0}
    MAX_COUNT = 1
INVARIANTS TypeOK FatherPresent LevelInherited ListsOK
PROPERTIES JoinReturns SystemProcessesSurvive SleepersSpec ReadyRuns SleepersWake
