\* Every read and write may return EWOULDBLOCK.
SPECIFICATION Spec
CONSTANTS
    BufferSize = 6
    ReadSize = 2
    EscWriteChar_bytes = 2
    SendCPCByteCommand_bytes = 3
    EscRedirectChar_bytes_SockB = 4
    EscRedirectChar_bytes_DevB = 1
    InitialOptions_bytes = 2
    MayBlock = {"devicein", "deviceout", "socketout", "socketin"}
INVARIANTS
    TypeOK
    ThreeStates
    NoStrandedClient
    ReadsFit
    NoLeakedDescriptor
    OpenImpliesLock
    LockReleased
PROPERTIES
    ClientServed
    ResetNoticed
    SignalHandled
