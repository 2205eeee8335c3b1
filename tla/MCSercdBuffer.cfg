\* Four slots (three usable), two byte values, unsigned int of 4 bits.
SPECIFICATION Spec
CONSTANTS
    Byte = {b1, b2}
    BufferSize = 4
    UIntMod = 16
INVARIANTS
    TypeOK
    StringUsable
PROPERTY
    IsQueue
