CONSTANTS
    r1 = r1
    r2 = r2
    ch1 = ch1
    ch2 = ch2
    Nil = Nil
    Requests <- MCRequests
    Chans <- MCChans
    Timeout <- Timeouts
    BufferSize = 1
    MaxTime = 0
SPECIFICATION FairSpec
CHECK_DEADLOCK FALSE
INVARIANTS TypeOK OwnAnswer NeverBlocks NobodyForgotten EveryWaitIsTimed
PROPERTIES CloseAnswersEveryone
