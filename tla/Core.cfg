CONSTANTS
    Chunks = {c1}
    Items = {x, y}
    MaxDefrags = 3
    MaxRestarts = 2
    MaxProtections = 2
    MaxAsking = 1
    defragBufferSize = 1
SYMMETRY AnyPair
SPECIFICATION Spec
CHECK_DEADLOCK FALSE
INVARIANTS TypeOK NoLossInOrder NoResurrection OneFilePerChunk KnownMatchesPresent NeverStuckProtected
PROPERTIES ProtectionNotCutShort
