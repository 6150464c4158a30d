SPECIFICATION Spec
CONSTANTS
    MAX_PROCESS_NUMBER = 4
    MAX_SEMAPHORE_NUMBER = 2
    timesharing_interval = 1
    TICK_MODULUS = 16
    BootLevels <- SystemAndUser
    DriverIrqs = {}
    Calls = {"exit", "fork", "signal", "fault", "create_semaphore", "acquire_semaphore", "release_semaphore"}
    JoinOwnChildren = TRUE
    IdsInRange = FALSE
    SleepTicks = {}
    StartCounts = {0, 1}
    MAX_COUNT = 1
INVARIANTS OnePlace SemaphoreBalance
