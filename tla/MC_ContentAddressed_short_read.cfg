\* One SYNC, reliable parts, and F rewritten in place, shorter, while it is
\* uploaded.
CONSTANTS
    s1 = s1
    s2 = s2
    Readers <- MCOneReader
    Contents <- MCShrinkingContents
    CHUNK_SIZE = 2
    CONNECTION_COUNT = 1
    TICKS_PER_SECOND = 2
    MaxTime = 2
    MaxWrites = 1
    PartMayFail = FALSE
    WritesDuringUpload = TRUE
SPECIFICATION Spec
CHECK_DEADLOCK FALSE
INVARIANT
    ManifestComplete
