\* COMPORT is requested by sercd and not offered, ECHO offered and not
\* requested, OTHER neither.  The client asks four times of its own accord.
SPECIFICATION Spec
CHECK_DEADLOCK FALSE
CONSTANTS
    Option = {"COMPORT", "ECHO", "OTHER"}
    MaxAsks = 4
    MaxSessions = 1
INVARIANTS
    TypeOK
    Agreement
    CommandNotIgnored
