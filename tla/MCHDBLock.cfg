\* Three processes, so that two may meet the lock of one that has crashed.
SPECIFICATION Spec
CONSTANTS
    Proc = {p1, p2, p3}
    Inode = {i1, i2, i3}
    NoFile = NoFile
    Empty = Empty
    MayCrash = {p1, p2, p3}
INVARIANTS
    ExclusionUnlessRaced
PROPERTIES
    HeldLockKept
    HDBLockFileReturns
