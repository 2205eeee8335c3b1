SPECIFICATION Spec
CONSTANTS
    Byte = {"a", "b"}
    Stale = "stale"
    XmitSize = 3
    WAKEUP_CHARS = 2
    FifoSize = 2
    Writes <- MCWrites
INVARIANTS
    NoStall
    XonXoffCoherent
PROPERTIES
    TxIsQueue
    WriterWoken
    PeerTold
