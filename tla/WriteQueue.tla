----------------------------- MODULE WriteQueue -----------------------------
(***************************************************************************)
(* Writing a file back to the studio (fs_cache.py FSCache.set_file).       *)
(*                                                                         *)
(* A writer is one set_file call, made by a SYNCBACK of the local cache    *)
(* client.  A small file is sent by http_write_file_async: a PUT retried   *)
(* by _http_treq_req_with_retry_base and applied by the gateway's          *)
(* PutFileHandler.  A large file is uploaded to the chunk store            *)
(* (cache_file), then http_write_file_queue records a job in the shared    *)
(* key-value store, pushes it on bkgrd_dl:pending and polls the job's      *)
(* state once a second until WRITE_QUEUE_TIMEOUT polls have gone by.       *)
(*                                                                         *)
(* The gateway's BackgroundDownloadWorker (fileserver4_download.py) moves  *)
(* the oldest pending job to bkgrd_dl:processing with rpoplpush, tries     *)
(* MAX_ATTEMPTS times to download it over the target file, and ends it on  *)
(* bkgrd_dl:succeeded or bkgrd_dl:failed with its state set: three KV     *)
(* calls (lpush, lrem, hset), each of which may raise.  The worker process *)
(* may crash between any two steps, and pop_task may raise after the       *)
(* rpoplpush.                                                              *)
(*                                                                         *)
(* All writers write the same studio file; the content a writer writes is  *)
(* the writer itself.                                                      *)
(***************************************************************************)
EXTENDS Integers, Sequences, FiniteSets, SequencesExt

CONSTANTS Writers,            \* concurrent set_file calls on one path
          WRITE_QUEUE_TIMEOUT, \* polls of the job state (1200 in the code)
          HTTP_ATTEMPTS,      \* len(retry_delays) (16 in the code)
          MAX_ATTEMPTS,       \* BackgroundDownloadWorker.MAX_ATTEMPTS (3)
          SEM_SIZE,           \* permits of FSCacheHTTPConnector.sem (15)
          MaxFaults,          \* worker crashes, pop_task and KV call errors
          HttpMayFail,        \* HTTP calls and chunk-store calls may fail
          DownloadMayFail,    \* the worker's get_file may raise
          KvMayFail           \* the worker's lpush/lrem/hset may raise

ASSUME /\ WRITE_QUEUE_TIMEOUT \in Nat \ {0}
       /\ HTTP_ATTEMPTS \in Nat \ {0}
       /\ MAX_ATTEMPTS \in Nat \ {0}
       /\ SEM_SIZE \in Nat \ {0}
       /\ MaxFaults \in Nat

VARIABLES writer,      \* writer[w]: the state of set_file call w
          pending,     \* list bkgrd_dl:pending (lpush at the head)
          processing,  \* list bkgrd_dl:processing
          succeeded,   \* list bkgrd_dl:succeeded
          failed,      \* list bkgrd_dl:failed
          jobState,    \* field 'state' of hash bkgrd_dl:job:<w>
          worker,      \* the BackgroundDownloadWorker
          file,        \* content of the target file at the studio
          written,     \* history: writers whose content reached the file
          faults,      \* number of worker faults so far
          tokens,      \* free permits of the connector's DeferredSemaphore
          waiting      \* its waiting list: writers queued for a permit

vars == <<writer, pending, processing, succeeded, failed, jobState, worker,
          file, written, faults, tokens, waiting>>
sem == <<tokens, waiting>>

Orig == "orig"        \* the content before any write
Partial == "partial"  \* a truncated copy: open(path, 'wb') not refilled
NoJob == "none"       \* hash not created
NoState == "NONE"     \* hash created, 'state' not set (hget returns None)
NoWriter == "nowriter"

WriterPcs == {"idle", "caching", "poll", "put", "queued", "sending", "done"}
\* closed: the file object of http_write_file_async has been closed by the
\* FileBodyProducer of an earlier attempt.
IdleWriter == [pc |-> "idle", polls |-> 0, attempts |-> 0, result |-> FALSE, closed |-> FALSE]
\* The worker's step: fetching, or the KV call of the job's end it is at;
\* state is the state that end sets.
WorkerPcs == {"idle", "fetch", "lpush", "lrem", "hset"}
IdleWorker == [pc |-> "idle", job |-> NoWriter, attempts |-> 0, state |-> "SUCCESS"]

TypeOK ==
    /\ writer \in [Writers -> [pc : WriterPcs, polls : 0..(WRITE_QUEUE_TIMEOUT - 1),
                               attempts : 0..(HTTP_ATTEMPTS - 1), result : BOOLEAN,
                               closed : BOOLEAN]]
    /\ pending \in Seq(Writers)
    /\ processing \subseteq Writers
    /\ succeeded \subseteq Writers
    /\ failed \subseteq Writers
    /\ jobState \in [Writers -> {NoJob, NoState, "SUCCESS", "FAILURE"}]
    /\ worker \in [pc : WorkerPcs, job : Writers \cup {NoWriter},
                   attempts : 0..(MAX_ATTEMPTS - 1), state : {"SUCCESS", "FAILURE"}]
    /\ file \in Writers \cup {Orig, Partial}
    /\ written \subseteq Writers
    /\ faults \in 0..MaxFaults
    /\ tokens \in 0..SEM_SIZE
    /\ waiting \in Seq(Writers)

Init ==
    /\ writer = [w \in Writers |-> IdleWriter]
    /\ pending = <<>>
    /\ processing = {}
    /\ succeeded = {}
    /\ failed = {}
    /\ jobState = [w \in Writers |-> NoJob]
    /\ worker = IdleWorker
    /\ file = Orig
    /\ written = {}
    /\ faults = 0
    /\ tokens = SEM_SIZE
    /\ waiting = <<>>

Return(w, ok) ==
    writer' = [writer EXCEPT ![w].pc = "done", ![w].result = ok]

-----------------------------------------------------------------------------
(* The proxy side                                                          *)

\* set_file: a file above CACHECLIENT3_SIZE_THRESHOLD goes through the queue.
set_file(w) ==
    /\ writer[w].pc = "idle"
    /\ \E large \in BOOLEAN :
         writer' = [writer EXCEPT ![w].pc = IF large THEN "caching" ELSE "put"]
    /\ UNCHANGED <<pending, processing, succeeded, failed, jobState, worker,
                   file, written, faults, sem>>

\* http_write_file_queue up to the lpush: cache_file uploads the chunks, then
\* the job hash is written and its id pushed on bkgrd_dl:pending.
cache_file(w) ==
    /\ writer[w].pc = "caching"
    /\ \/ /\ jobState' = [jobState EXCEPT ![w] = NoState]
          /\ pending' = Cons(w, pending)
          /\ writer' = [writer EXCEPT ![w].pc = "poll", ![w].polls = 0]
       \/ /\ HttpMayFail
          /\ Return(w, FALSE)
          /\ UNCHANGED <<jobState, pending>>
    /\ UNCHANGED <<processing, succeeded, failed, worker, file, written, faults, sem>>

\* One iteration of the polling loop: hget(jid, 'state'), then sleep(1.0).
\* After WRITE_QUEUE_TIMEOUT iterations the write is reported as failed; the
\* job is left where it is.
NextPoll(n) == n + 1

PollTimeout_off_by_one(w) == writer[w].polls = WRITE_QUEUE_TIMEOUT
PollTimeout(w) == NextPoll(writer[w].polls) = WRITE_QUEUE_TIMEOUT

poll_job(w) ==
    /\ writer[w].pc = "poll"
    /\ CASE jobState[w] = "SUCCESS" -> Return(w, TRUE)
         [] jobState[w] = "FAILURE" -> Return(w, FALSE)
         [] PollTimeout(w)          -> Return(w, FALSE)
         [] OTHER -> writer' = [writer EXCEPT ![w].polls = NextPoll(@)]
    /\ UNCHANGED <<pending, processing, succeeded, failed, jobState, worker,
                   file, written, faults, sem>>

\* The outcome of one POST of _http_treq_req_base to the gateway's /put.
\* "lost": the handler wrote the file and the answer timed out; "error": a
\* 500 or a timeout before the handler ran.  "refused": any other status.
PutOutcomes == IF HttpMayFail THEN {"ok", "lost", "error", "refused"} ELSE {"ok"}

\* PutFileHandler.get_data: the upload replaces the file (and drops the
\* gateway's cached metadata of the file and its directory).
ApplyPut(w) ==
    /\ file' = w
    /\ written' = written \cup {w}

\* _http_treq_req_with_retry_base after a failed attempt: an exception with
\* status 500 or with no status is retried, after the wait, until the
\* attempts run out.  r is the writer's record.
RetryOrGiveUp(r) ==
    IF r.attempts + 1 = HTTP_ATTEMPTS
      THEN [r EXCEPT !.pc = "done", !.result = FALSE]
      ELSE [r EXCEPT !.pc = "put", !.attempts = @ + 1]

\* _http_treq_req_base: sem.run(make_request) takes a permit of the shared
\* DeferredSemaphore, or queues behind the writers already waiting.
sem_acquire(w) ==
    /\ writer[w].pc = "put"
    /\ IF tokens > 0
         THEN /\ tokens' = tokens - 1
              /\ writer' = [writer EXCEPT ![w].pc = "sending"]
              /\ UNCHANGED waiting
         ELSE /\ waiting' = Append(waiting, w)
              /\ writer' = [writer EXCEPT ![w].pc = "queued"]
              /\ UNCHANGED tokens
    /\ UNCHANGED <<pending, processing, succeeded, failed, jobState, worker,
                   file, written, faults>>

\* DeferredSemaphore.release: the permit goes to the oldest waiter, or back
\* to the pool.  wr is the writers' state after the finished request.
\* Mutation: the permit is handed to the waiter and also put back.
sem_release_both(wr) ==
    IF waiting = <<>>
      THEN /\ tokens' = tokens + 1 /\ writer' = wr /\ UNCHANGED waiting
      ELSE /\ writer' = [wr EXCEPT ![Head(waiting)].pc = "sending"]
           /\ waiting' = Tail(waiting)
           /\ tokens' = tokens + 1
sem_release(wr) ==
    IF waiting = <<>>
      THEN /\ tokens' = tokens + 1 /\ writer' = wr /\ UNCHANGED waiting
      ELSE /\ writer' = [wr EXCEPT ![Head(waiting)].pc = "sending"]
           /\ waiting' = Tail(waiting)
           /\ UNCHANGED tokens

\* Mutation: the permit is given back only when make_request succeeds
Releases_on_success(out) == out = "ok"
\* sem.run releases the permit when make_request's deferred fires, with a
\* result or with an exception.
Releases(out) == TRUE

\* One attempt of the PUT sent by http_write_file_async, holding a permit.
\* The files dict is built once, and treq sends its file object through a
\* FileBodyProducer, which closes it once the body is sent or the send is
\* stopped (read).  Every later attempt fails in treq.post (ValueError on
\* the closed file), an exception with no status code, so it is retried.
http_write_file_async(w) ==
    LET r == writer[w] IN
    /\ r.pc = "sending"
    /\ \E out \in (IF r.closed THEN {"closed"} ELSE PutOutcomes), read \in BOOLEAN :
         LET r2 == [r EXCEPT !.closed = @ \/ out = "lost" \/ (out = "error" /\ read)]
             new == CASE out = "ok"      -> [r EXCEPT !.pc = "done", !.result = TRUE]
                      [] out = "refused" -> [r EXCEPT !.pc = "done", !.result = FALSE]
                      [] OTHER           -> RetryOrGiveUp(r2)
             wr == [writer EXCEPT ![w] = new]
         IN
         /\ IF out \in {"ok", "lost"} THEN ApplyPut(w) ELSE UNCHANGED <<file, written>>
         /\ IF Releases(out) THEN sem_release(wr) ELSE writer' = wr /\ UNCHANGED sem
    /\ UNCHANGED <<pending, processing, succeeded, failed, jobState, worker, faults>>

-----------------------------------------------------------------------------
(* The gateway's background worker                                         *)

\* rpoplpush('bkgrd_dl:pending', 'bkgrd_dl:processing'): the oldest job.
rpoplpush_lifo(j) ==
    /\ j = Head(pending)
    /\ pending' = Tail(pending)
    /\ processing' = processing \cup {j}

rpoplpush(j) ==
    /\ j = Last(pending)
    /\ pending' = Front(pending)
    /\ processing' = processing \cup {j}

pop_task ==
    /\ worker.pc = "idle"
    /\ pending # <<>>
    /\ \E j \in Writers :
         /\ rpoplpush(j)
         /\ worker' = [IdleWorker EXCEPT !.pc = "fetch", !.job = j]
    /\ UNCHANGED <<writer, succeeded, failed, jobState, file, written, faults, sem>>

\* pop_task raises after the rpoplpush (hgetall times out, CacheClient3 cannot
\* be built); run_worker logs it and goes on with the next job.
PopTaskError ==
    /\ worker.pc = "idle"
    /\ pending # <<>>
    /\ faults < MaxFaults
    /\ \E j \in Writers : rpoplpush(j)
    /\ faults' = faults + 1
    /\ UNCHANGED <<writer, succeeded, failed, jobState, worker, file, written, sem>>

\* get_file(file_key, local_path, overwrite=True), one pass of the attempt
\* loop.  It writes the target and goes on to the success bookkeeping, or
\* raises, leaving the file as it was; after the last attempt the failure
\* bookkeeping follows.
NextAttempt(wk) ==
    IF wk.attempts + 1 = MAX_ATTEMPTS
      THEN [wk EXCEPT !.pc = "lpush", !.state = "FAILURE"]
      ELSE [wk EXCEPT !.pc = "fetch", !.attempts = @ + 1]

get_file_attempt ==
    LET j == worker.job IN
    /\ worker.pc = "fetch"
    /\ \/ /\ file' = j /\ written' = written \cup {j}
          /\ worker' = [worker EXCEPT !.pc = "lpush", !.state = "SUCCESS"]
       \/ /\ DownloadMayFail
          /\ worker' = NextAttempt(worker)
          /\ UNCHANGED <<file, written>>
    /\ UNCHANGED <<writer, pending, processing, succeeded, failed, jobState, faults, sem>>

\* The KV call the worker is at, applied: lpush on the terminal list of the
\* state, lrem from processing, hset of the state.
lpush_terminal(j, state) ==
    /\ succeeded' = IF state = "SUCCESS" THEN succeeded \cup {j} ELSE succeeded
    /\ failed' = IF state = "FAILURE" THEN failed \cup {j} ELSE failed
    /\ UNCHANGED <<processing, jobState>>
lrem_processing(j) ==
    /\ processing' = processing \ {j}
    /\ UNCHANGED <<succeeded, failed, jobState>>
hset_state(j, state) ==
    /\ jobState' = [jobState EXCEPT ![j] = state]
    /\ UNCHANGED <<succeeded, failed, processing>>
ApplyKvCall(wk) ==
    CASE wk.pc = "lpush" -> lpush_terminal(wk.job, wk.state)
      [] wk.pc = "lrem"  -> lrem_processing(wk.job)
      [] wk.pc = "hset"  -> hset_state(wk.job, wk.state)

\* The step after a KV call that returned.
AfterKvCall(wk) ==
    CASE wk.pc = "lpush" -> [wk EXCEPT !.pc = "lrem"]
      [] wk.pc = "lrem"  -> [wk EXCEPT !.pc = "hset"]
      [] wk.pc = "hset"  -> IdleWorker

\* One KV call of a job's end (download.py 64-66 or 75-77).  With the 1 s
\* socket timeout a call may raise, whether or not Redis has applied it.  A
\* raise in the success bookkeeping is caught by the attempt loop's except:
\* the next attempt, or the failure bookkeeping after the last one.  A raise
\* in the failure bookkeeping leaves pop_task; run_worker logs it.
KvCall ==
    /\ worker.pc \in {"lpush", "lrem", "hset"}
    /\ \/ /\ ApplyKvCall(worker)
          /\ worker' = AfterKvCall(worker)
          /\ UNCHANGED faults
       \/ /\ KvMayFail /\ faults < MaxFaults
          /\ faults' = faults + 1
          /\ \E applied \in BOOLEAN :
               IF applied THEN ApplyKvCall(worker)
               ELSE UNCHANGED <<processing, succeeded, failed, jobState>>
          /\ worker' = IF worker.state = "SUCCESS" THEN NextAttempt(worker) ELSE IdleWorker
    /\ UNCHANGED <<writer, pending, file, written, sem>>

\* The worker process dies and is restarted, during the copy or between two
\* KV calls: the KV store keeps what the calls before wrote.  A copy cut
\* short leaves the target as before, truncated, or fully written.
WorkerCrash ==
    /\ worker.pc # "idle"
    /\ faults < MaxFaults
    /\ IF worker.pc = "fetch"
         THEN \E f \in {file, Partial, worker.job} :
                /\ file' = f
                /\ written' = IF f = worker.job THEN written \cup {f} ELSE written
         ELSE UNCHANGED <<file, written>>
    /\ worker' = IdleWorker
    /\ faults' = faults + 1
    /\ UNCHANGED <<writer, pending, processing, succeeded, failed, jobState, sem>>

-----------------------------------------------------------------------------
WriterNext(w) ==
    \/ set_file(w)
    \/ cache_file(w)
    \/ poll_job(w)
    \/ sem_acquire(w)
    \/ http_write_file_async(w)

WorkerNext == pop_task \/ get_file_attempt \/ KvCall

Next ==
    \/ \E w \in Writers : WriterNext(w)
    \/ WorkerNext
    \/ PopTaskError
    \/ WorkerCrash

\* The reactor runs every ready callback and the poll's sleep always fires;
\* run_worker loops forever.  Faults are not fair.
Fairness ==
    /\ \A w \in Writers : WF_vars(cache_file(w) \/ poll_job(w) \/ sem_acquire(w)
                                     \/ http_write_file_async(w))
    /\ WF_vars(WorkerNext)

Spec == Init /\ [][Next]_vars /\ Fairness

-----------------------------------------------------------------------------
(* Properties                                                              *)

\* Spec 4.D: once the worker is done with a job (it has ended it, given up
\* or crashed), the job sits on exactly one of the four lists, and it has a
\* final state exactly when it is on the matching terminal list: the three
\* KV calls that end a job, and the faults between them, never leave a job
\* on two lists or on a terminal list without its state.
InHand(w) == worker.pc # "idle" /\ worker.job = w
JobTracked ==
    \A w \in Writers : ~InHand(w) =>
        LET on == {l \in {"pending", "processing", "succeeded", "failed"} :
                      \/ l = "pending" /\ w \in ToSet(pending)
                      \/ l = "processing" /\ w \in processing
                      \/ l = "succeeded" /\ w \in succeeded
                      \/ l = "failed" /\ w \in failed}
        IN /\ Cardinality(on) = IF jobState[w] = NoJob THEN 0 ELSE 1
           /\ (jobState[w] = "SUCCESS") = (w \in succeeded)
           /\ (jobState[w] = "FAILURE") = (w \in failed)

\* The connector's semaphore neither leaks nor duplicates a permit: the
\* free permits and the writers sending a PUT add up to SEM_SIZE, and the
\* waiting list holds each queued writer once, whatever order requests end.
PermitsConserved ==
    /\ tokens + Cardinality({w \in Writers : writer[w].pc = "sending"}) = SEM_SIZE
    /\ ToSet(waiting) = {w \in Writers : writer[w].pc = "queued"}
    /\ Len(waiting) = Cardinality(ToSet(waiting))
    /\ waiting # <<>> => tokens = 0

\* Every set_file call returns, even when the worker crashes or loses the
\* job: the poll timeout and the bounded retries end every wait.
WriterReturns ==
    \A w \in Writers : writer[w].pc # "idle" ~> writer[w].pc = "done"

\* Once a set_file call has returned, nothing it started changes the studio
\* file any more.
NoLateWrite ==
    [][\A w \in Writers :
         writer[w].pc = "done" => ~(worker.job = w /\ file' # file)]_vars

\* The lists implement the abstract queue: jobs are taken oldest first, a
\* job reaches a terminal list only after it was taken, and never leaves it,
\* whatever KV call raises or where the worker crashes.  A job's status is
\* read from the lists (a job on both terminal lists counts as succeeded);
\* the state field is what JobTracked is about.
JobStatus(w) ==
    CASE w \in succeeded        -> "SUCCESS"
      [] w \in failed           -> "FAILURE"
      [] w \in processing       -> "PROCESSING"
      [] w \in ToSet(pending)   -> "PENDING"
      [] OTHER                  -> "NONE"

BQ == INSTANCE BackgroundQueue WITH
        Jobs <- Writers, queue <- Reverse(pending), status <- [w \in Writers |-> JobStatus(w)]

RefinesBackgroundQueue == BQ!SafetySpec

=============================================================================
