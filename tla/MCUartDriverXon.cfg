SPECIFICATION Spec
CONSTANTS
    Byte = {"a", "b"}
    Stale = "stale"
    XmitSize = 2
    WAKEUP_CHARS = 1
    FifoSize = 1
    Writes <- MCWrites
PROPERTY XonHeard
