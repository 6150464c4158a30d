SPECIFICATION SpecDrivers
CONSTANTS
    MAX_PROCESS_NUMBER = 5
    MAX_SEMAPHORE_NUMBER = 1
    timesharing_interval = 2
    TICK_MODULUS = 16
    BootLevels <- DriverAndUsers
    DriverIrqs = {1}
    Calls = {"sleep", "exit"}
    JoinOwnChildren = FALSE
    IdsInRange = FALSE
    SleepTicks = {1}
    StartCounts = {0}
    MAX_COUNT = 1
    IRQ_SIZE = 24
    MAX_DRIVER_FUNCTIONS = 1
    DriverProcess <- KeyboardFirst
INVARIANTS DriversOK
PROPERTIES SystemLevelIsDriver InterruptServed
