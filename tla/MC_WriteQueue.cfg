\* Two writers, unreliable HTTP, a worker whose downloads may fail, and two
\* faults: crashes, pop_task errors or KV calls that raise.
CONSTANTS
    w1 = w1
    w2 = w2
    w3 = w3
    Writers <- MCTwoWriters
    WRITE_QUEUE_TIMEOUT = 2
    HTTP_ATTEMPTS = 2
    MAX_ATTEMPTS = 3
    SEM_SIZE = 1
    MaxFaults = 2
    HttpMayFail = TRUE
    DownloadMayFail = TRUE
    KvMayFail = TRUE
SPECIFICATION Spec
\* Each writer makes one set_file call; once all have returned and the queue
\* is empty the system is idle.
CHECK_DEADLOCK FALSE
INVARIANTS
    TypeOK
    PermitsConserved
PROPERTIES
    WriterReturns
    RefinesBackgroundQueue
