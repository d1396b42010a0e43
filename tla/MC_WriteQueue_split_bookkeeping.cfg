\* One large write-back, a reliable network and downloads, and one fault
\* of the worker: a crash or a KV call that raises.
CONSTANTS
    w1 = w1
    w2 = w2
    w3 = w3
    Writers <- MCOneWriter
    WRITE_QUEUE_TIMEOUT = 2
    HTTP_ATTEMPTS = 2
    MAX_ATTEMPTS = 3
    SEM_SIZE = 1
    MaxFaults = 1
    HttpMayFail = FALSE
    DownloadMayFail = FALSE
    KvMayFail = TRUE
SPECIFICATION Spec
CHECK_DEADLOCK FALSE
INVARIANT
    JobTracked
