SPECIFICATION Spec
CONSTANTS
    MAX_PROCESS_NUMBER = 5
    MAX_SEMAPHORE_NUMBER = 1
    timesharing_interval = 1
    TICK_MODULUS = 16
    BootLevels <- TwoUsers
    DriverIrqs = {}
    Calls = {"sleep", "exit", "fork", "join", "signal"}
    JoinOwnChildren = FALSE
    IdsInRange = TRUE
    SleepTicks = {2}
    StartCounts = {0}
    MAX_COUNT = 1
INVARIANTS NoDeadJoiner
