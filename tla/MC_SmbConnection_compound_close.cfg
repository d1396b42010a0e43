\* A CREATE with a related CLOSE: is a file opened for writing written back?
CONSTANTS
    sData = sData
    sIpc = sIpc
    root = root
    f1 = f1
    srvsvc = srvsvc
    t1 = t1
    t2 = t2
    h1 = h1
    h2 = h2
    Shares <- MCShares
    PassThrough <- MCPassThrough
    Names <- MCNames
    Root = root
    Srvsvc = srvsvc
    TreeIds <- MCTreeIds
    FileIds <- MCFileIds
    AccessMasks <- MCAccessMasks
    RelatedChains <- CompoundClose
    MaxMid = 4
    ENABLE_WRITE_THROUGH = TRUE
    ENABLE_TOUCH_FILES = TRUE
    NoValue = NoValue
    SetInfoMayFail = FALSE
SPECIFICATION Spec
CHECK_DEADLOCK FALSE
INVARIANT WriteBackBeforeClose
