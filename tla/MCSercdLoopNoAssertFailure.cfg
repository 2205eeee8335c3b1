\* Reads and writes never return EWOULDBLOCK.
SPECIFICATION Spec
CONSTANTS
    BufferSize = 9
    ReadSize = 2
    EscWriteChar_bytes = 2
    SendCPCByteCommand_bytes = 3
    EscRedirectChar_bytes_SockB = 4
    EscRedirectChar_bytes_DevB = 1
    InitialOptions_bytes = 2
    MayBlock = {}
INVARIANT
    NoAssertFailure
