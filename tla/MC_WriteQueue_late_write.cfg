\* Two writers and a reliable network: the worker may just be slow.
CONSTANTS
    w1 = w1
    w2 = w2
    w3 = w3
    Writers <- MCTwoWriters
    WRITE_QUEUE_TIMEOUT = 2
    HTTP_ATTEMPTS = 2
    MAX_ATTEMPTS = 3
    SEM_SIZE = 1
    MaxFaults = 0
    HttpMayFail = FALSE
    DownloadMayFail = FALSE
    KvMayFail = FALSE
SPECIFICATION Spec
CHECK_DEADLOCK FALSE
PROPERTY
    NoLateWrite
