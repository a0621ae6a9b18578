CONSTANTS
    Chunks = {c1}
    Items = {x, y}
    MaxDefrags = 2
    MaxRestarts = 2
    MaxProtections = 0
    MaxAsking = 1
    defragBufferSize = 1
SPECIFICATION OrderlySpec
CHECK_DEADLOCK FALSE
INVARIANTS NoLoss
