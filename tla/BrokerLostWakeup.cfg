CONSTANTS
    r1 = r1
    r2 = r2
    ch1 = ch1
    ch2 = ch2
    Nil = Nil
    Requests <- MCRequests
    Chans <- MCChans
    Timeout <- SameTimeout
    BufferSize = 1
    MaxTime = 1
SPECIFICATION FairSpec
CHECK_DEADLOCK FALSE
PROPERTIES CallsReturn
