\* Two sessions with a reliable backend; F is written only through the proxy.
CONSTANTS
    c1 = c1
    c2 = c2
    Sessions <- MCSessions
    MaxOps = 2
    MaxTime = 1
    MaxContent = 2
    MTIME_REFRESH_THRESHOLD = 2
    ENABLE_WRITE_THROUGH = TRUE
    ENABLE_TOUCH_FILES = TRUE
    HttpMayFail = FALSE
    ExternalWrites = FALSE
SPECIFICATION Spec
SYMMETRY MCSymmetry
CHECK_DEADLOCK FALSE
INVARIANTS
    TypeOK
    NoPlaceholderServed
    RemoteHoldsRealData
