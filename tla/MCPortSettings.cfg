SPECIFICATION Spec
CONSTANTS
    Speed = {9600, 115200}
    BadSpeed = {12345}
    HighSpeed = {115200}
    InitialSettings <- MCSettings
    CiscoIOSCompatible = TRUE
    MaxChanges = 4
INVARIANTS
    AnsweredAsPromised
    SettingsRestored
    UartKeepsUp
PROPERTY
    OnlyItsOwn
