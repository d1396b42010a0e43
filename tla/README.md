# TLA+ models of the SMB caching proxy

This directory holds TLA+ specifications of the SMB2 interception proxy in
`src/smbproxy`, with the TLC configurations that check them. The system lets
render-farm machines reach a remote Windows share through a local Samba server.
The local cache behind Samba is filled on demand from the remote site and
written back to it.

## The system

| Part | Source | What it does | Concurrency and state |
|---|---|---|---|
| SMB2 connection state machine | `smbproxy4/smbproxy4.py` | Sits between the SMB client and the local Samba server. It inspects TREE_CONNECT, CREATE, QUERY_DIRECTORY, SET_INFO and CLOSE. Before forwarding a request it starts a cache action: SYNC a file on open, LISTDIR a directory, SYNCBACK a file opened for writing on close, DELETE a deleted file. | One Twisted reactor. Per connection it keeps the tables `tree_connect_requests`, `connected_trees`, `file_open_requests` and `open_files`. Inbound packets are processed strictly in order, and a packet is forwarded only after its handlers' deferreds fire. Responses are inspected synchronously before they are written to the client. |
| Framing and parsing | same file | NetBIOS length framing, SMB2 headers, compounds (`next_command_offset`). | Pure parsing. |
| Local cache client | `smbproxy4/fs_local_cache_client.py` | Performs SYNC (fetch if stale), LISTDIR (placeholder files), SYNCBACK, DELETE and TOUCH on the Samba-exported directory. | Runs concurrently for all connections of the process, on one local file tree. |
| FS cache and HTTP connector | `smbproxy4/fs_cache.py` | Reads metadata (Redis with a 15 s age, else the metadata proxy) and fetches and puts files over HTTP. The retry loop waits up to 16 attempts. Large write-backs go through a Redis job queue that is polled for 1200 s. | At most 15 HTTP requests run at once. |
| Metadata proxy | `metadata_proxy/` | A Redis-backed HTTP cache of the gateway's metadata, with a 60 s validity. | Concurrent requests, with last-writer-wins stores. |
| Chunk store client | `seekscale_commons/.../twisted_client.py`, `renderfarm_commons/.../filecache_client3.py` | Content-addressed 5 MiB parts, a manifest per (path, size, mtime), and a HEAD probe before each upload. | Batches of 50 parts. |
| Gateway | `deployment/gateway/` | The remote side. It serves metadata with a 5 s cache and executes delete, touch and put. A background worker takes download jobs with `rpoplpush` and tries each up to 3 times. | A Redis queue shared with the farm side. |
| Management, logging, deployment | `smbproxy4.py` (management), `audit_logger.py`, `statsd_logging.py`, `debug_interface.py`, `deployment/*`, `nagios` | SHUTDOWN and STATS commands, audit and statistics output, configuration and mounting scripts. | I/O only. |

How the parts interact: a CREATE on the client side becomes a SYNC. The SYNC
asks `FSCache` for metadata (which may come from the metadata proxy or Redis),
fetches the file from the chunk store or the gateway, and renames it into the
Samba tree. Only then does the proxy forward the CREATE to Samba. A CLOSE of a
file opened for writing becomes a SYNCBACK. The SYNCBACK uploads the file,
directly or through the background queue, before the CLOSE is forwarded. A
graceful shutdown, requested over the management socket, closes each
connection once its `open_files` holds nothing but the share root.

## What is modelled

### `SmbConnection` (with `MC_SmbConnection`): one client connection

State, with the code's names:

| Model variable | Code |
|---|---|
| `tree_connect_requests`, `connected_trees`, `file_open_requests`, `open_files`, `session_latest_create_request_filename`, `session_latest_tree_connect_path`, `shutdown_requested`, `shutdown_deferred` | The fields of the same names. |
| `inPkt`, `inIdx` | The packet being processed and the request being handled. |
| `todo`, `cont` | The actions of the current handler's deferred chain, and its final callback: `register_open_request`, `remove_handle_from_open_files` + `tryShutdown`, or the chain moving on after LISTDIR. |
| `timerArmed` | The `reactor.callLater(1, tryShutdown)` timer. |
| `connClosed` | The lost transport. |

Actions follow the code's handlers:
- `ReceivePacket`, then one `UpdateState_*` per inspected command. Each sets the
  handler's synchronous state and starts its first action.
- `ActionDone`: an action's deferred fires and the next chained action starts.
- `register_open_request`, `listdir_done`, `remove_handle_from_open_files`: the
  callbacks at the end of a chain.
- `ForwardPacket` (`cli_queue.put`).
- `ProcessServerPacket`: all of `process_server_pending_packet` and the write
  to the client, which run in one reactor turn.
- `Shutdown`, `ShutdownTimer`.

The cache actions are opaque here. Each one is started and, in a later step,
finished, and either outcome leaves the connection's state the same: every
errback only logs. The `started` and `finished` history sets tag each action
with the message id that issued it.

The SMB server (Samba) and the client are environment:
- The server serves a whole packet at once. It resolves a compound's related
  ids as SMB2 specifies (the tree and file of the operation before). It may fail
  a CREATE and, in one configuration, refuse a delete disposition. It records
  what it served, closed and deleted.
- The client pipelines any requests on the trees and handles it has learnt. In
  some configurations it appends related operations to a CREATE.

Data abstraction:
- Shares, names and ids are model values, and an access mask is a set of right
  names.
- The HOTFIX host rewrite in `check_message_tid` maps every host to the same
  one. Since a share is identified by its name alone, the rewrite leaves it
  unchanged.

Granularity: each request handler and each callback is a step of its own. In
the code, handlers that return `True` run in the same reactor turn as the next
one. The finer steps add interleavings with response processing. That over-
approximates the code, which is sound for the safety properties.

### Properties (all in `SmbConnection`)

| Property | Statement |
|---|---|
| `ServedAfterMaterialized` | Every file the server opens and every directory it lists on an intercepted share was first synced (or listed) by an action of the same request, and that action had finished. |
| `WriteBackBeforeClose` | When the server closes a handle with write access, that CLOSE had a finished SYNCBACK. |
| `DeleteBeforeServerDelete` | When the server deletes a file on close, that CLOSE had a finished DELETE. |
| `NoSpuriousDelete` | A CLOSE after which the server keeps the file never issued a DELETE. |
| `HandleTracked` | Every handle the client holds on an intercepted share is in `open_files`, under the server's name and write flag. This means each response was matched to the right request by message id. |
| `NoCloseDuringWriteBack` | A shutdown never closes the connection while a SYNCBACK or DELETE of a non-root file is in progress. |
| `ShutdownCompletes` (liveness) | Once a shutdown is requested and the server holds no non-root handle from some point on, the connection is eventually closed. |

### `FsCacheClient` (with `MC_FsCacheClient`): the cache actions on one file

It models `fs_local_cache_client.py` together with the gateway handlers it
calls in `deployment/gateway/fileserver4_metadata.py` (`GetFile`, `TouchFile`,
`PutFileHandler`). The scope is one remote file F in a directory D. Several
client handles ("sessions") act on F, each driven by its own connection; all
of them share the one local tree.

State:

| Model variable | Code |
|---|---|
| `remote` | The gateway's F: whether it exists, its content, its mtime. |
| `localDir` | The local directory D (`create_directory`, `create_dir_hierarchy`). |
| `path`, `inode` | The local file system. `path` is the inode that the name F denotes. A Samba handle keeps its inode after `os.rename` replaces the name, so an open handle can end up on an unlinked file. |
| `sess[s]` | The step a session is at (`pc`), the metadata its SYNC read (`meta`), the download in flight (`tmp`), its Samba handle, and what it was served and uploaded. |
| `now` | The clock. Remote mtimes come from the gateway's writes and local ones from Samba's. |

Contents are abstract values:
- `Empty`, a file of size 0;
- `Zeros`, the sparse placeholder that `fake_file` makes;
- numbered real contents.

Each `yield` of an `inlineCallbacks` action ends a step, so the code between
two yields is one action:
- SYNC: `SyncMeta` (the metadata answer, then the cache-hit test of
  `send_file`), `SyncParent`, `GetServed` (the gateway reads F), `GetDone`
  (rename and `utime`, or the failure path that re-marks the file as stale);
- `Touch`;
- SYNCBACK: `SyncBackMeta` and `SyncBackPut`;
- LISTDIR: `ListdirSync` and `ListdirMeta` (`fake_file`).

`action()` swallows every exception, and the proxy forwards the CREATE after a
failed SYNC. So with `HttpMayFail` each HTTP step can also end in the failure
branch that the code takes.

The CREATE, the writes and the CLOSE that Samba serves are environment steps:
`SambaOpen` with the dispositions open, open-if and overwrite-if, `SambaWrite`
and `Close`. The order of the proxy's steps, SYNC then TOUCH then CREATE, and
SYNCBACK before the CLOSE, follows `_updateState_SMB2`. `RemoteWrite` stands
for another site writing F.

Properties:

| Property | Statement |
|---|---|
| `NoPlaceholderServed` | No client is served the all-zero placeholder. |
| `RemoteHoldsRealData` | The remote F never holds placeholder zeros. |
| `WriteBackUploadsHandle` (action) | A SYNCBACK uploads the file the closing handle wrote. |
| `SyncNotStale` (action) | A SYNC of an existing remote file that did not change meanwhile leaves the local F with the remote content or a newer local write. This is spec section 8, "local_mtime == remote_mtime after a successful SYNC", read with its evident intent. No run checks it: `LocalIsFresh` keeps a copy within the 5 s threshold by design, and TLC shows it at once if it is added to a cfg. |

### `WriteQueue` (with `MC_WriteQueue`): writing a file back to the studio

`FSCache.set_file` is what a SYNCBACK calls. The model has a set of
`Writers`, each one `set_file` call on the same studio file. The content a
writer writes is the writer itself, so the model can tell whose write the
file holds. The module also models the gateway side of both paths.

| Variable | Code |
|---|---|
| `writer[w]` | the coroutine of one `set_file` call: its step (`pc`), the poll and retry counters, the result it returns, and `closed`: whether treq's body producer has closed the opened file object (it does so when the body has been sent, or when the send is stopped) |
| `tokens`, `waiting` | `FSCache.sem`, the `DeferredSemaphore(15)` class attribute shared by every request of the process: free permits and the FIFO of waiting requests |
| `pending`, `processing`, `succeeded`, `failed` | the lists `bkgrd_dl:*` in the shared KV. `pending` is a sequence (`lpush` at the head, `rpoplpush` from the tail). The others are sets of unique job ids. |
| `jobState[w]` | the `state` field of the job hash `bkgrd_dl:job:<uuid>` (`"none"` before `hmset`) |
| `worker` | `BackgroundDownloadWorker`: its step (`idle`, `fetch`, or one of the three KV calls `lpush`, `lrem`, `hset` that end a job), the job, the attempts used, and the state the job is being ended with |
| `file` | the studio file: `"orig"`, a writer's content, or `"partial"` (truncated by a worker crash during the copy) |
| `written`, `faults` | a history of the contents that reached the file, and a count of worker faults |

Actions:
- `set_file` picks the branch: above `CACHECLIENT3_SIZE_THRESHOLD` the queue,
  otherwise a PUT.
- `sem_acquire` is `sem.acquire()` in `_http_treq_req_with_retry_base`:
  take a permit, or queue behind the requests already waiting.
- `http_write_file_async` is one attempt of the PUT, made while the permit is
  held. The gateway's `PutFileHandler` (`ApplyPut`) may run while the answer
  is lost, and `RetryOrGiveUp` is the 500/no-status retry rule. The
  `files={'file': open(...)}` argument is built once, so every retry reuses
  the same file object. treq's `FileBodyProducer` closes it once the body is
  sent or the send is stopped (`closed`); a later attempt then raises
  `ValueError` before any request, which has no status code and is retried
  until the attempts run out. The attempt ends with `sem.release()`
  (`sem_release`), which hands the permit to the oldest waiting request.
- `cache_file` is `http_write_file_queue` up to the `lpush`.
- `poll_job` is one iteration of its poll loop, ending on SUCCESS, on FAILURE
  or after `WRITE_QUEUE_TIMEOUT` polls.
- `pop_task`: the worker's `rpoplpush`.
- `get_file_attempt`: the `get_file` of one pass of the attempt loop. It
  writes the file and goes on to the success bookkeeping, or raises; then
  `NextAttempt` is the next pass, or the failure bookkeeping after the last.
- `KvCall`: one of the three Redis calls that end a job (`lpush` on the
  terminal list, `lrem` from processing, `hset` of the state, lines 64-66 or
  75-77), each its own step. With the 1 s socket timeout a call may raise,
  applied by Redis or not. A raise in the success bookkeeping is caught by
  the attempt loop (the next attempt, or the failure bookkeeping); a raise in
  the failure bookkeeping, outside the `try`, leaves `pop_task`.
- `PopTaskError`: `pop_task` raises after the `rpoplpush` (for example,
  `hgetall` hits the 1 s socket timeout), and `run_worker` logs the error and
  goes on.
- `WorkerCrash`: the worker process dies at any step of a job and is
  restarted. During the copy the file is left as it was, truncated, or fully
  copied, because `download_with_tmp_files` writes the target in place;
  between two KV calls Redis keeps what the earlier calls wrote.

`BackgroundQueue` is the abstract job life cycle of spec 4.D:
- a job goes NONE → PENDING → PROCESSING → SUCCESS | FAILURE;
- the oldest pending job is taken first;
- its `Spec` adds the liveness "every taken job ends".

`WriteQueue` instantiates it with a refinement mapping:
- `queue <- Reverse(pending)`;
- `status <- JobStatus`, read from the lists alone: on `succeeded`, SUCCESS;
  on `failed`, FAILURE; then `processing`, then `pending`. A job on both
  terminal lists counts as succeeded.

| Property | Statement |
|---|---|
| `TypeOK` | Counters stay below their bounds (the code's loops end one step before). |
| `JobTracked` | Each job the worker is not working on is on exactly one list, and is on a terminal list exactly when its state says so. Violated (`wq_split_bookkeeping`). |
| `PermitsConserved` | The free permits plus the requests holding one are `SEM_SIZE`; the waiting queue is exactly the queued requests, each once, and nobody waits while a permit is free. |
| `WriterReturns` (liveness) | Every `set_file` call returns, even when the worker crashes or loses the job. |
| `RefinesBackgroundQueue` (temporal) | `BQ!SafetySpec`: the worker takes jobs oldest first and ends only jobs it took. |
| `NoLateWrite` (action) | Once `set_file` has returned, its job no longer changes the studio file. |

### `MetadataCache` (with `MC_MetadataCache`): the metadata path, and `FreshMetadata`

Metadata of one remote file F, in its directory D, is cached three times on
its way to an smbproxy connection:
- the gateway's Redis keys, set with `setex` for 5 s by `get_file_metadata`
  and `ListDirHandler.get_data`, and deleted by `DeleteHandler`, `TouchFile`
  and `PutFileHandler`;
- the cluster Redis of `metadata_loader`, written by the metadata proxy's
  `handle_response` and read by the proxy with a 60 s validity;
- the same cluster Redis read directly by `FSCache.get_metadata_async` and
  `get_dir_listing_async` with a 15 s age (`get_metadata_max_age_for_path`).

| Variable | Code |
|---|---|
| `fs`, `ver` | The studio file: its version (0: absent), and the number of writes so far. |
| `gwMeta`, `gwList` | The gateway's `file_metadata:` and `listdir:` keys: the value and its age, `None` once expired or deleted. |
| `kvMeta`, `kvList` | The cluster keys `seekscale:metadata:file_metadata:` and `list_dir:`. Ages stand for `time.time() - _update_time`. `kvList.val` says whether the listing names F; its metadata is F's key, read whatever its age, as the code does. |
| `backend` | The proxy's requests to the gateway in flight: who is waiting, the kind, the age and the answer the gateway gave. |
| `rd[r]` | One smbproxy connection's call: the step (`pc`), kind, `force_refresh`, whether it is `delete_file`'s refresh, its age against `req_timeout`, attempts, the proxy's reply and the result. |
| `calls`, `lastSeen`, `deleted`, `gone` | A bound on the calls; and history for the properties: how many seconds ago F had each version, who deleted F, and whether a `delete_file` has returned since. |

Time is an age on each entry, so the state space does not grow with a
clock. `Tick` ages everything by one second and expires the keys.

| Action | Code |
|---|---|
| `StartRead(r, k)` | `get_metadata_async` / `get_dir_listing_async`: a hit in the cluster Redis within `MTIME_METADATA_REFRESH_THRESHOLD` returns, a miss posts to the proxy. |
| `delete_file(r)`, `DeleteHandler(r)` | `FSCache.delete_file`: the gateway removes F and deletes both keys, then the parent listing is asked with `force_update`. |
| `ProxyPost(r)` | `FileMetadataHandler.post` / `ListDirHandler.post`: a hit (unless forced) answers at once; otherwise the gateway serves the request in one synchronous handler and the answer travels back. |
| `handle_response(b)` | Stores the answer (`set_cached_file_metadata`, or `set_cached_list_dir`, which rewrites every listed child's key) and replies. |
| `BackendTimeoutFires(b)` | The proxy's 30 s / 45 s `request_timeout`: a 599, rethrown as a 500. |
| `Deliver(r)`, `SmbTimeoutFires(r)` | The reply reaches the smbproxy before its `req_timeout`, or the timeout fires first; an error or a timeout goes through the retry loop of `_http_treq_req_with_retry_base`. A request the smbproxy gave up on goes on at the proxy and is stored later. |
| `ExternalWrite`, `PutFileHandler`, `TouchFile` | A write of F by the studio or the background worker (no key deleted), and the gateway's put and touch handlers (both keys deleted). |

`FreshMetadata` is the promise: each answer is a version F had within the
last `Bound` seconds. `MetadataCache` implements it with
`Bound <- StalenessBound`, where

    StalenessBound = 2*(GW_CACHE_DURATION-1) + max BackendTimeout
                     + (METADATA_VALIDITY_DURATION-1) + max SmbTimeout

The gateway's key can be read twice (a listing uses the file key, which can
be as old as the listing's), the answer travels up to the proxy's timeout,
sits in the cluster cache up to its validity and travels up to the smbproxy's
timeout. In the run `GW_CACHE_DURATION` = 1, so the gateway term is 0 and
the gateway's key adds no staleness: the run checks the bound for the
proxy's and smbproxy's timeouts and the cluster's validity, and TLC finds a
violation when `Recent` is narrowed by one second. The factor 2 of the
gateway term is not exercised.

| Property | Statement |
|---|---|
| `TypeOK` | The variables keep their types; a listing never stores a missing F's metadata. |
| `RefinesFreshMetadata` (temporal) | `Fresh!Spec`: every answer is a version F had within `StalenessBound` seconds. |
| `DeleteRefreshSeesDeletion` | `delete_file`'s forced listing, when it returns while F is still absent, does not list F. |
| `DeletedNotListed` | Once `delete_file` has returned and while F stays absent, no valid cluster listing names F. No run checks it any more: it is violated by the stale listing below (`metadata_loader.py:106`). |

### `ContentAddressed` (with `MC_ContentAddressed`): large files through the chunk store

`FSCache.get_file` sends a file at or above `CACHECLIENT3_SIZE_THRESHOLD`
through `http_get_file_through_cacheclient3`. That function computes the
fingerprint key of the remote metadata (`key_from_metadata`). If Redis holds
no manifest under the key, it asks the gateway (`cache_file3.json`) to run
`CacheClient3.cache_file` on the studio file. Then `CacheClient3.get_file`
downloads the parts the manifest names into a temporary file. The studio
may rewrite F at any point.

Data is abstracted as follows:
- a content is a short sequence of bytes;
- a chunk's shasum is the chunk itself, so SHA-256 is taken as injective;
- time is counted in mtime ticks, `TICKS_PER_SECOND` to a second of the
  key's `%d`.

| Variable | Code |
|---|---|
| `versions`, `now` | The history of F at the studio (content and mtime), and the clock. |
| `store` | The chunks the content-addressed endpoint holds (`/part/<shasum>`). |
| `manifests` | The Redis keys `renderfarm:cacheclient3:file:<b64 path>:<size>:<mtime>`: a sequence of `{uid, offset, length, shasum}`. |
| `rd[r]` | One SYNC: its step, the version it asked for, the key, and `upload`'s state: `total_size`, `offset`, `uid`, the current batch `tasks` and the earlier ones in `final`. It also holds the manifest `get_file` read, the download result of each part and the outcome. |
| `out[r]` | The temporary file the SYNC downloads into. |

| Action | Code |
|---|---|
| `SyncStart(r)` | `http_get_file_through_cacheclient3`: `key_from_metadata`, then `has_file`. |
| `cache_file(r)` | `cache_file` at the gateway: `key_from_file` on the current version, then `has_file`, and otherwise `add_file`. |
| `read_chunk(r)` | One pass of `upload`'s inner loop: the length, `read_chunk` of the current content, and `upload_part` started. There are at most `CONNECTION_COUNT` per batch. An empty read fails the upload, because the tuple unpacking raises. |
| `upload(r)` | `upload`'s own `os.path.getsize` (`total_size`), a second stat after `key_from_file`'s. |
| `upload_part(r, i)` | `check_part`'s HEAD, then the POST if the chunk is absent. The endpoint (`raw_nginx_cache/app.py`) answers 200 to a body whose length differs from the header but stores nothing (`StoreUpload`), and `cbResponse` takes any 200 as success. |
| `StoreResult(r)` | The `DeferredList` of a batch. After the last batch come the result loop and `store_result`, which calls `set_file_manifest`. |
| `get_file(r)` | `get_file_manifest`, or the "Unknown key" failure. |
| `download_part_to_disk(r, i)` | A GET of a part, in batches of `CONNECTION_COUNT`. |
| `build_output_file(r)` | Concatenates the parts into the target if all of them arrived; otherwise it fails without opening the target. |

The recursive `Parts` is `upload`'s offset arithmetic. `ChunkingMatchesSpec`
compares it with `SpecParts`, the layout spec 4.D describes.

| Property | Statement |
|---|---|
| `TypeOK` | The variables keep their types; no batch holds more than `CONNECTION_COUNT` parts. |
| `ChunkingMatchesSpec` | Every version of F is cut into the spec's parts, and reading them back gives the version again. |
| `ManifestComplete` | Every stored manifest covers its key's size part by part, and every chunk it references is stored (spec 4.D). Holds when F is not written during an upload (`ca_safety`); violated otherwise (`ca_short_read`). |
| `GotSomeVersion` | A SYNC that succeeded wrote into its temporary file exactly the content of some version F had: parts are read from the right offsets and concatenated in order. |
| `NotOlderThanRequested` | A successful SYNC gets a version at least as recent as the one whose metadata it looked up. No run checks it (see the key collision below). |

Bounds: `CHUNK_SIZE` = 2 and contents of 2 and 3 bytes give one-part files
and files with a short last part. Two of the contents share their first
chunk, so `check_part` finds chunks another upload stored. `CONNECTION_COUNT`
= 1 makes every part its own batch, so batching and the result loop across
batches are exercised. `TICKS_PER_SECOND` = 2 with `MaxTime` = 2 allows two
writes within one second and one across a second. There are two readers and
up to two writes.

## Runs

| Run | cfg | Expect | What it shows |
|---|---|---|---|
| `smb_safety` | `MC_SmbConnection.cfg` | pass | The six safety properties and `TypeOK` hold for plain (non-compound) requests, and so does `ShutdownCompletes` under the fairness below. The bounds are two shares (one intercepted, one `IPC$`), the root and one file, two tree ids and two file ids, a MAXIMUM_ALLOWED mask (a write access), delete-on-close on or off, and 4 message ids. That covers connect, open, set-disposition and close, pipelined in any order with a shutdown at any point. A read-only mask is left out: it only removes the SYNCBACK and TOUCH of a close and an open, which no property constrains, and it would multiply the states by five. About 104k states, 20 s with the liveness check. |
| `smb_compound_close` | `..._compound_close.cfg` | violation | `WriteBackBeforeClose` fails. A CREATE with a related CLOSE makes the CLOSE handler look up `open_files['\xff'*16]`, which does not exist, so it issues no SYNCBACK. The same compound also leaves the real handle in `open_files` for ever, so `tryShutdown` never fires (see the finding). |

| `fs_safety` | `MC_FsCacheClient.cfg` | pass | `TypeOK`, `NoPlaceholderServed` and `RemoteHoldsRealData` with two sessions of two requests each and a reliable backend, where F is written only through the proxy. F starts absent, empty or with content. About 2.5M states, 50 s, with symmetry over the sessions. |
| `fs_single_handle` | `MC_FsCacheClient_single.cfg` | pass | `NoPlaceholderServed` and `RemoteHoldsRealData` for one session of three requests while other sites rewrite F. Its own LISTDIR placeholder is always fetched over before it is served. With two sessions the remote create makes the placeholder finding below reachable, so the two-session run keeps F written only through the proxy. About 122k states, 2 s. |
| `fs_fetch_failure` | `..._fetch_failure.cfg` | violation | `RemoteHoldsRealData` fails. The failed SYNC is swallowed, the placeholder is served to a handle opened for writing, and its SYNCBACK uploads the zeros. |
| `fs_lost_write` | `..._lost_write.cfg` | violation | `WriteBackUploadsHandle` fails. Handle 1 creates F, and its TOUCH makes an empty remote F. Handle 2's SYNC sees an empty local F, so not fresh, and renames the download over it. Handle 1's writes go to the unlinked inode, and its SYNCBACK uploads the empty download. |

| `wq_safety` | `MC_WriteQueue.cfg` | pass | `TypeOK`, `PermitsConserved`, `WriterReturns` and `RefinesBackgroundQueue`. Two writers behind a one-permit semaphore, HTTP calls that may fail or close the file object, and a worker whose downloads and KV calls may fail and which may crash, up to two faults in all. About 41k states, 9 s. |
| `wq_split_bookkeeping` | `MC_WriteQueue_split_bookkeeping.cfg` | violation | `JobTracked` fails with one queued writer and one fault: the worker writes the file, `lpush`es the job on `succeeded` and crashes before the `lrem`. The job stays on `succeeded` and on `processing` with no state. |
| `wq_late_write` | `MC_WriteQueue_late_write.cfg` | violation | `NoLateWrite` fails with a reliable network. A queued write-back times out after its polls and is reported failed; the worker then takes the job and writes the file. |

| `mc_safety` | `MC_MetadataCache.cfg` | pass | `TypeOK`, `DeleteRefreshSeesDeletion` and `RefinesFreshMetadata` for two connections that read, list and delete F, with studio writes that invalidate nothing, proxy and smbproxy timeouts, and orphaned requests stored late. About 200k states, 15 s. |

| `ca_safety` | `MC_ContentAddressed.cfg` | pass | `TypeOK`, `ChunkingMatchesSpec`, `ManifestComplete` and `GotSomeVersion`. Two SYNCs run while F is rewritten, but not during an upload, and any HEAD, POST or GET of a part may fail. About 260k states, 18 s, with symmetry over the readers. |
| `ca_short_read` | `MC_ContentAddressed_short_read.cfg` | violation | `ManifestComplete` fails with one SYNC and one write. F (1 byte) is keyed by `cache_file`'s stat, rewritten with 2 bytes before `upload`'s `getsize`, and the 2-byte manifest is stored under the 1-byte key. |

Bounds of `MetadataCache`:
- Durations are scaled to seconds of the model: the gateway's 5 s key is 1,
  the cluster's 60 s validity is 2 and the smbproxy's 15 s threshold is 1,
  keeping threshold <= validity; both timeouts are 1 tick. The scaled
  order of the code's timeouts (10 s < 30 s for metadata, 50 s > 45 s for
  listings) changes only which side gives up first, and both sides may
  give up in the model whatever the order.
- Two connections are the least for an old answer to be stored over a newer
  one; two calls in all (`MaxCalls`) let one list while the other deletes.
- `MaxAttempts` = 1: a retried attempt is, for the caches, a new call of the
  same kind, which the other connection already makes. With 2 the state
  space passes 3.6M states.
- `MaxVersion` = 2: one write after the initial version, and the delete.

Bounds of `WriteQueue`:
- Two writers allow two queued jobs, or a queued job and a PUT, which is what
  ordering (`rpoplpush` from the tail) and a late write over a newer PUT
  need, and a PUT that waits behind another for the permit. Three writers
  with the KV faults did not finish within half an hour.
- `WRITE_QUEUE_TIMEOUT` = 2 and `HTTP_ATTEMPTS` = 2 reach both the
  "retry" and the "give up" branch of each loop.
- `MAX_ATTEMPTS` is the code's 3.
- `SEM_SIZE` = 1 stands for the 15 permits with 14 held by other requests;
  it is the bound at which a PUT waits behind another and the handoff in
  `release` happens.
- `MaxFaults` counts worker crashes, `pop_task` errors and KV calls that
  raise. Two faults let a raise in the success bookkeeping be followed by a
  second one in the failure bookkeeping; one is enough for a job to stay in
  processing for ever or on two lists.

Bounds of `FsCacheClient`, and why they are enough:
- Two sessions are the least that can race.
- Two requests per session let one session list and then open, or open twice.
- Three dispositions cover every branch of the CREATE.
- `MTIME_REFRESH_THRESHOLD` = 2 ticks puts a remote write inside the window
  when it is one tick after the cached one, and outside it when two ticks
  after.
- `MaxContent` bounds the writes.

Why the `SmbConnection` bounds are enough:
- Every handler path is reached within 4 message ids: connect, then open, then
  one more request and a close.
- Two file ids allow a second open while the first handle is still tracked.
- Two shares are the least that tells intercepted from pass-through.
- 5 message ids would multiply the state space about tenfold (past 6 million
  states) without reaching a new handler path.

Fairness: weak fairness of the proxy's steps and of the server. Twisted runs
every ready callback. The HTTP layer gives up after a bounded number of
retries, so each action's deferred eventually fires. Samba answers every
request. The client and the operator are not fair: they may stop at any time.
`FsCacheClient` is checked for safety only and assumes no fairness. In
`WriteQueue`, each writer's steps and the worker's steps are weakly fair.
The reactor runs every ready callback, the poll's `sleep` fires, and
`run_worker` loops for ever. A writer queued on the semaphore has no step of its
own: it runs when a release hands it the permit, and every permit holder
releases it after its attempt, so the weak fairness of the holder is enough. The faults (`PopTaskError`, `WorkerCrash`, a `KvCall` that raises) and
the choice to start a `set_file` are not fair.
`CHECK_DEADLOCK FALSE` is used because the client's requests are bounded and a
closed connection has nothing left to do.

## Findings

- **Compound close and set-info (`smbproxy4.py:768`, `:724`).** They never
  resolve the related file id. The spec (4.F) says a compound file id reuses
  the preceding CREATE's file. The consequences are a lost write-back, a lost
  remote delete, and a handle that blocks graceful shutdown for ever.
- **Related tree id (`smbproxy4.py:985`).** It resolves to the latest
  TREE_CONNECT of the session, as the spec (4.F) states; a compound whose
  requests span two shares would be misrouted. No run checks it.
- **Delete disposition (`smbproxy4.py:746`).** It is taken from the request,
  not from the server's answer. `smb_safety` checks `NoSpuriousDelete` when
  the server grants every disposition. No run now keeps a server that refuses
  one; earlier versions of the project showed the violation.

- **Placeholder uploaded after a failed fetch (`fs_local_cache_client.py:436`,
  `:546`).** This is a code bug. `send_file`'s failure path leaves the
  placeholder in place, and `action()` reports nothing to the proxy. The CREATE
  is served, and the SYNCBACK of a handle opened for writing uploads the zeros
  over the real file.
- **Lost write (`fs_local_cache_client.py:532`, `:565`).** This is a code bug.
  A SYNC by any other connection treats a just-created, still-empty file as
  stale and renames a download over it while its creator is writing.
- **Placeholder with a healthy backend (`fs_local_cache_client.py:356`).** A
  SYNC that finds F absent races a remote create and a LISTDIR. The spec (7)
  promises placeholders only when the backend is unavailable. `fs_safety`
  keeps `NoPlaceholderServed` with F written only through the proxy. No run
  now has the remote create that violates it.
- **Stale cache hit (`fs_local_cache_client.py:532`).** The 5 s window keeps a
  stale copy indefinitely, against the letter of the spec's property 8; the
  code means it (`MTIME_REFRESH_THRESHOLD`), and no run checks it.

- **Late write after a timed-out queued write-back (`fs_cache.py:559`).**
  After 1200 polls `http_write_file_queue` reports failure, but the job stays
  queued. The worker later writes it over the studio file, possibly over a
  newer write-back. Nothing cancels the job, and the spec (4.D) does not say
  what happens to it.

- **A deleted file listed again (`metadata_loader.py:106`).**
  `set_cached_list_dir` stamps `_update_time` when it stores an answer, not
  when the gateway listed the directory, and the proxy stores answers in the
  order they complete. A listing requested before a delete and answered after
  `delete_file`'s forced refresh overwrites it, and F is listed for another
  60 s. The spec (4.B) says a delete invalidates the parent listing.
  An earlier run found this trace against `DeletedNotListed`; no run checks
  it any more (its run slot went to a `WriteQueue` run).

- **Split job bookkeeping (`fileserver4_download.py:64`).** The worker ends
  a job with three separate Redis calls (`lpush` on the terminal list, `lrem`
  from processing, `hset` of the state), each under a 1 s socket timeout. A
  crash after the `lpush` leaves the job on `succeeded` and on `processing`
  with no state; the writer never sees SUCCESS and reports a write that was
  done as failed. A raise in the success bookkeeping leads to the failure
  bookkeeping, so a job can also end on both terminal lists. Spec 4.D says a
  finished job leaves processing for SUCCESS or FAILURE.
- **Manifest of another size, or of a missing chunk
  (`twisted_client.py:292`).** This is a code bug. `cache_file` takes the
  key's size from one stat (`filecache_client3.py:115`) and `upload` its
  `total_size` from another. F rewritten in place in between gets the new
  content's manifest under the old size's key (`ca_short_read`). F made
  shorter during the upload gives a short read that `upload_part` posts with
  the length it asked for; the endpoint answers 200 to the mismatch and
  stores nothing, `cbResponse` takes the 200 as success, and the manifest
  names a chunk that is not stored. Spec 4.D says a part whose length does
  not match is refused.
- **A retried PUT does not upload an empty file.** `http_write_file_async`
  opens the file once and every retry reuses the file object
  (`filecache_client3.py:613`), but treq's body producer closes it once the
  body was sent or the send stopped, so a retry raises `ValueError` and fails
  rather than uploading what is left. The retries are useless, not harmful;
  `WriterReturns` covers them ending.

- **Key collision in the chunk store (`filecache_client3.py:129`).** This is
  a divergence from the spec, not a bug. `key_from_metadata` formats mtime with `%d`. Two versions of
  the same size written within one second therefore share a key. Once the
  first is cached, a SYNC of the second finds a manifest, downloads the
  first version and reports success. The spec's key (4.D) has the float
  mtime; the repository's test (`test_cache_client.py:275`) says changes
  within one second are not expected to be detected. An earlier run
  (`ca_key_collision`) showed the trace against `NotOlderThanRequested`: V1
  is cached, V2 of the same size is written in the same second, and a SYNC
  of V2 gets V1. Its slot went to `fs_single_handle`, the only run with
  writes by other sites.
- **`upload` checks the first part only (`twisted_client.py:327`).** The
  `returnValue` is inside the loop. A failed later part is not returned as
  the error. It is kept out of Redis only because `json.dumps` of the
  Failure raises in `store_result`. `ManifestComplete` holds with that
  behaviour and fails for a result check that stores anyway.

## Plan for the remaining parts

1. **`FsCacheClient`, continued.** The plan:
   - add DELETE (`perform_delete` and the gateway's `DeleteHandler`) and
     Samba's delete-on-close;
   - compose with `SmbConnection` by instantiating it per connection, with its
     opaque action steps replaced by `FsCacheClient`'s, and adding WRITE
     requests for the SYNCBACK-before-writes-applied hazard.
2. **`MetadataCache`, continued.** The 24 h age of static paths, a Redis
   error that disables the gateway's cache, and a failed `os.remove`.
3. **The semaphore, continued.** `WriteQueue` models it with one free
   permit, the others held. Still to do: the other requests that hold
   permits (GETs, listings), and the inbound queue of `SmbConnection`
   stalling behind them.
4. **`ContentAddressed`, continued.** The plan:
   - keep the upload tasks that are still running after a failed
     `read_chunk`;
   - handle `key_from_file`'s `BLANK_FILE` fallback;
   - handle the empty file, whose manifest is `[]`;
   - compose with `FsCacheClient`'s SYNC.
5. **`SmbProxy`.** It composes several connections with the factory shutdown.
   It also states an abstract "transparent pipe" spec: the server receives
   exactly the client's packets, in order. `SmbConnection` is shown to refine
   it through `INSTANCE ... WITH`.

## Not modelled

- **Parsing and framing.** The model works on decoded packets.
- **SMB1.** The code ignores it.
- **Logging, audit, statsd and STATS output.**
- **Deployment and mounting scripts and the nginx and nagios helpers.** They
  are I/O with no shared state of the proxy.
- **In `ContentAddressed`:** The model leaves out four things:
  - the small-file path (`http_get_file_async`), which is `FsCacheClient`'s
    GetFile;
  - upload parts still in flight when `upload` fails on an empty read (the
    model drops them);
  - `key_from_file`'s `BLANK_FILE` fallback when `stat` fails;
  - `clear`, `download_part` and the CLI functions.
- **Wall-clock time.** Timers are single steps, except in `MetadataCache`,
  where the TTLs and timeouts are ages counted in ticks.
- **In `MetadataCache`:** two orphaned requests of the same kind with the same
  answer and age are one element of `backend`. That is harmless, since their
  stores are the same.
