SPECIFICATION Spec
CONSTANTS
    MAX_BUFFER_LEN = 2
    CharKeys = {a}
    ShiftKeys = {SHIFT}
    CAPS_LOCK = CAPS_LOCK
    Readers = {r1, r2}
    EarlyKeys = FALSE
    PortBytes = 1
    TypeAhead = 2
INVARIANTS RingOK KeysOK ByteWillInterrupt
PROPERTIES DriverComesBack ReaderServed
CHECK_DEADLOCK FALSE
