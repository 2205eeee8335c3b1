SPECIFICATION Spec
CONSTANTS
    TX_NUM_FD = 2
    RX_NUM_FD = 4
    Limit = 2
INVARIANTS
    RingsInStep
    CompletionWakesQueue
PROPERTY FrameTaken
CHECK_DEADLOCK FALSE
