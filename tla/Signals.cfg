SPECIFICATION SpecSignals
CONSTANTS
    MAX_PROCESS_NUMBER = 4
    MAX_SEMAPHORE_NUMBER = 1
    timesharing_interval = 1
    TICK_MODULUS = 16
    BootLevels <- UserAndSystem
    DriverIrqs = {}
    Calls = {"exit", "fork", "join"}
    JoinOwnChildren = TRUE
    IdsInRange = FALSE
    SleepTicks = {}
    StartCounts = {0}
    MAX_COUNT = 1
    SentSignals = {"SIGTERM"}
    HandledSignals = {"SIGTERM"}
    ExitValues = {1}
INVARIANTS ContextsOK HandlerIsItsOwn JoinValueUndisturbed
