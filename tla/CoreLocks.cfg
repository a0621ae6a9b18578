CONSTANTS
    Functions = {"BackwardsIterate", "defragmenter", "PresentChunksList", "ChunkSetNoPresent",
                 "ChunkSetProtected", "ProtectionExpires"}
SPECIFICATION FairSpec
CHECK_DEADLOCK FALSE
PROPERTIES ProtectionEnds
