\* mc_safety: two smbproxy readers, F written at most once more, durations
\* scaled to whole seconds (see README).
CONSTANTS
    r1 = r1
    r2 = r2
    None = None
    Error = Error
    Readers <- MCReaders
    MaxVersion = 2
    MaxCalls = 2
    MaxAttempts = 1
    GW_CACHE_DURATION = 1
    METADATA_VALIDITY_DURATION = 2
    MTIME_METADATA_REFRESH_THRESHOLD = 1
    SmbTimeout <- MCSmbTimeout
    BackendTimeout <- MCBackendTimeout
SPECIFICATION Spec
INVARIANTS TypeOK DeleteRefreshSeesDeletion
PROPERTIES RefinesFreshMetadata
