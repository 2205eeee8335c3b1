SPECIFICATION Spec
CONSTANTS
    Data <- MCData
    MaxData = 2
    Parameter <- MCParameter
    Rate <- MCRate
    Text <- MCText
    Signature <- MCSignature
    SizeofIACCommand = 10
INVARIANTS
    TypeOK
    MessageTransparent
    ParserHeals
    DoubledParameter
    ClientTransparent
