CONSTANTS
    readBufferSize = 10
    writeBufferSize = 7
    MinimumMessageSize = 2
    CompactAbove = 5
    Sizes = {5, 11}
    MaxBytes = 16
    MaxModes = 2
SPECIFICATION FairSpec
CHECK_DEADLOCK FALSE
INVARIANTS TypeOK WholeMessages
PROPERTIES AllArrives
