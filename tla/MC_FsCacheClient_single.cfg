\* One client handle at a time while other sites write F on the remote side.
CONSTANTS
    c1 = c1
    c2 = c2
    Sessions <- MCOneSession
    MaxOps = 3
    MaxTime = 2
    MaxContent = 3
    MTIME_REFRESH_THRESHOLD = 2
    ENABLE_WRITE_THROUGH = TRUE
    ENABLE_TOUCH_FILES = TRUE
    HttpMayFail = FALSE
    ExternalWrites = TRUE
SPECIFICATION Spec
CHECK_DEADLOCK FALSE
INVARIANTS
    NoPlaceholderServed
    RemoteHoldsRealData
