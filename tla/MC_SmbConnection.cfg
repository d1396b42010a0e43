\* Plain (non-compound) requests: the safety properties of one connection and
\* the completion of a graceful shutdown.
CONSTANTS
    sData = sData
    sIpc = sIpc
    root = root
    f1 = f1
    srvsvc = srvsvc
    t1 = t1
    t2 = t2
    h1 = h1
    h2 = h2
    Shares <- MCShares
    PassThrough <- MCPassThrough
    Names <- MCNames
    Root = root
    Srvsvc = srvsvc
    TreeIds <- MCTreeIds
    FileIds <- MCFileIds
    AccessMasks <- WriteMasks
    RelatedChains <- PlainChains
    MaxMid = 4
    ENABLE_WRITE_THROUGH = TRUE
    ENABLE_TOUCH_FILES = TRUE
    NoValue = NoValue
    SetInfoMayFail = FALSE
SPECIFICATION Spec
\* The client sends a bounded number of requests and the connection may be
\* closed by a shutdown, after which nothing is enabled.
CHECK_DEADLOCK FALSE
INVARIANTS
    TypeOK
    ServedAfterMaterialized
    WriteBackBeforeClose
    DeleteBeforeServerDelete
    NoSpuriousDelete
    HandleTracked
    NoCloseDuringWriteBack
PROPERTIES
    ShutdownCompletes
