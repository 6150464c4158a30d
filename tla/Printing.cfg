SPECIFICATION Spec
CONSTANTS
    text_width = 3
    text_height = 2
    BYTE = 4
    INT_BITS = 4
    LONG_BITS = 8
    size = 31
    DEC_BUFSIZE = 9
    Calls <- KernelCalls
INVARIANTS InBounds MeaningKept
PROPERTIES ColorsKept PrintfReturns
