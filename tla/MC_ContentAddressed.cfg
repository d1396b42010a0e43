\* Two SYNCs of F, which is rewritten between (not during) its uploads, and
\* parts that may fail.
CONSTANTS
    s1 = s1
    s2 = s2
    Readers <- MCReaders
    Contents <- MCContents
    CHUNK_SIZE = 2
    CONNECTION_COUNT = 1
    TICKS_PER_SECOND = 2
    MaxTime = 2
    MaxWrites = 2
    PartMayFail = TRUE
    WritesDuringUpload = FALSE
SPECIFICATION Spec
SYMMETRY MCSymmetry
\* Each SYNC runs once; when both are done and the clock is at its bound,
\* nothing is left to do.
CHECK_DEADLOCK FALSE
INVARIANTS
    TypeOK
    ChunkingMatchesSpec
    ManifestComplete
    GotSomeVersion
