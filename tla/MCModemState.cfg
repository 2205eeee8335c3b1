SPECIFICATION ModemSpec
CONSTANTS
    Line = {"CTS", "DCD"}
    MsPerSec = 2
    UsPerMs = 3
    MaxSec = 2
    Interval = {1, 2, 3}
INVARIANTS
    ToldRemembered
    PollNotLate
PROPERTIES
    DeltaIsNews
    ChangeIsTold
