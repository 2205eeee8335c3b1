\* Three processes: two may meet the lock of a third that has crashed.
SPECIFICATION Spec
CONSTANTS
    Proc = {p1, p2, p3}
    Inode = {i1, i2, i3, i4}
    NoFile = NoFile
    Empty = Empty
    MayCrash = {p1, p2, p3}
INVARIANT
    MutualExclusion
