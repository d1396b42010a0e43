\* Two sessions with a reliable backend: a SYNC of one handle races a fresh file of the other.
CONSTANTS
    c1 = c1
    c2 = c2
    Sessions <- MCSessions
    MaxOps = 1
    MaxTime = 1
    MaxContent = 2
    MTIME_REFRESH_THRESHOLD = 2
    ENABLE_WRITE_THROUGH = TRUE
    ENABLE_TOUCH_FILES = TRUE
    HttpMayFail = FALSE
    ExternalWrites = FALSE
SPECIFICATION Spec
SYMMETRY MCSymmetry
CHECK_DEADLOCK FALSE
PROPERTY
    WriteBackUploadsHandle
