--------------------------- MODULE MetadataCache ---------------------------
(***************************************************************************)
(* The metadata path of one remote file F in a directory D, through its   *)
(* three caches:                                                           *)
(*  - the gateway (fileserver4_metadata.py): get_file_metadata and         *)
(*    ListDirHandler cache their answers in the gateway's Redis with setex *)
(*    (file_metadata_cache_duration, listdir_cache_duration); DeleteHandler,*)
(*    TouchFile and PutFileHandler delete both keys;                       *)
(*  - the metadata proxy (metadata_proxy.py) answers from the cluster      *)
(*    Redis when the entry is younger than METADATA_VALIDITY_DURATION and *)
(*    not forced, else asks the gateway and stores the answer, stamped    *)
(*    with the time it arrives (metadata_loader.py);                       *)
(*  - the smbproxy (fs_cache.py) reads the cluster Redis directly with     *)
(*    max_age MTIME_METADATA_REFRESH_THRESHOLD, else posts to the proxy    *)
(*    with the retry loop of _http_treq_req_with_retry_base.               *)
(* Time passes in whole seconds (Tick).  Every cache entry and every HTTP  *)
(* request carries its age, compared with the durations and timeouts as   *)
(* the code compares time.time() - _update_time; an age stops growing once *)
(* no comparison of the code tells it apart from a larger one, and a      *)
(* gateway key disappears when its setex duration is over.                 *)
(* A value is the metadata of F: its version, 0 when F does not exist; a   *)
(* listing of D is that value when F is listed, NotListed when it is not.  *)
(***************************************************************************)
EXTENDS Integers

CONSTANTS
    Readers,                          \* concurrent smbproxy metadata calls
    MaxVersion,                       \* bound on writes of F
    MaxCalls,                         \* bound on smbproxy calls in all
    MaxAttempts,                      \* len(retry_delays)
    GW_CACHE_DURATION,                \* file_metadata_/listdir_cache_duration
    METADATA_VALIDITY_DURATION,       \* the metadata proxy's cache validity
    MTIME_METADATA_REFRESH_THRESHOLD, \* max_age of the smbproxy's own reads
    SmbTimeout,       \* [Kinds -> Nat]: req_timeout, LIST_DIR_TIMEOUT
    BackendTimeout,   \* [Kinds -> Nat]: FILE_METADATA_/FILE_LISTDIR_REQUEST_TIMEOUT
    None,             \* model value: a Redis key absent, no answer yet
    Error             \* model value: the call raised

Kinds == {"meta", "list"}

ASSUME /\ MaxAttempts >= 1 /\ MaxVersion >= 1 /\ GW_CACHE_DURATION >= 1
       /\ MTIME_METADATA_REFRESH_THRESHOLD <= METADATA_VALIDITY_DURATION
       /\ SmbTimeout \in [Kinds -> Nat] /\ BackendTimeout \in [Kinds -> Nat]

VARIABLES
    fs,       \* F on the studio file system: its version, 0 if absent
    ver,      \* the last version written
    gwMeta,   \* gateway Redis 'file_metadata:F': None or [val, age]
    gwList,   \* gateway Redis 'listdir:D'
    kvMeta,   \* cluster Redis seekscale:metadata:file_metadata:F
    kvList,   \* cluster Redis seekscale:metadata:list_dir:D (val: F listed)
    backend,  \* the metadata proxy's requests to the gateway in flight
    rd,       \* rd[r]: the smbproxy call of reader r
    calls,    \* the number of smbproxy calls made
    lastSeen, \* history: lastSeen[v], seconds since F last had version v
    deleted,  \* history: readers whose delete_file found F absent since
    gone      \* history: some delete_file returned and F is absent since

vars == <<fs, ver, gwMeta, gwList, kvMeta, kvList, backend, rd, calls,
          lastSeen, deleted, gone>>

Versions == 0..MaxVersion
NotListed == -1
Values == Versions \cup {NotListed}

MaxOf(f) == CHOOSE m \in {f[k] : k \in Kinds} : \A k \in Kinds : f[k] <= m

\* The oldest data a call can be answered: a gateway listing cached with a
\* child's cached metadata, a backend answer as late as request_timeout,
\* a proxy cache entry just inside its validity, and the smbproxy's
\* req_timeout for the answer to arrive.
StalenessBound ==
    2 * (GW_CACHE_DURATION - 1) + MaxOf(BackendTimeout)
    + (METADATA_VALIDITY_DURATION - 1) + MaxOf(SmbTimeout)

Entry(S, maxAge) == [val : S, age : 0..maxAge]
Request == [owner : Readers \cup {None}, kind : Kinds,
            age : 0..(MaxOf(BackendTimeout) + 1), ans : Values]
Call == [pc : {"idle", "deleting", "sent", "wait", "done"}, kind : Kinds,
         forced : BOOLEAN, del : BOOLEAN, age : 0..(MaxOf(SmbTimeout) + 1),
         att : 0..(MaxAttempts - 1),
         reply : Values \cup {None, Error}, res : Values \cup {None, Error}]

TypeOK ==
    /\ fs \in Versions /\ ver \in 1..MaxVersion
    /\ gwMeta \in Entry(Versions, GW_CACHE_DURATION - 1) \cup {None}
    /\ gwList \in Entry(Values, GW_CACHE_DURATION - 1) \cup {None}
    /\ kvMeta \in Entry(Versions, METADATA_VALIDITY_DURATION) \cup {None}
    /\ kvList \in Entry(BOOLEAN, METADATA_VALIDITY_DURATION - 1) \cup {None}
    /\ backend \subseteq Request
    /\ rd \in [Readers -> Call]
    /\ calls \in 0..MaxCalls
    /\ lastSeen \in [Versions -> 0..(StalenessBound + 1)]
    /\ deleted \subseteq Readers /\ gone \in BOOLEAN

Init ==
    /\ fs = 1 /\ ver = 1
    /\ gwMeta = None /\ gwList = None /\ kvMeta = None /\ kvList = None
    /\ backend = {}
    /\ rd = [r \in Readers |->
               [pc |-> "idle", kind |-> "meta", forced |-> FALSE, del |-> FALSE,
                age |-> 0, att |-> 0, reply |-> None, res |-> None]]
    /\ calls = 0
    /\ lastSeen = [v \in Versions |-> IF v = 1 THEN 0 ELSE StalenessBound + 1]
    /\ deleted = {} /\ gone = FALSE

\* One second passes.  A gateway key expires with its setex duration; a
\* listing in the cluster Redis older than the proxy's validity is read by
\* no one; the file key is read by get_cached_list_dir whatever its age.
Older(a, cap) == IF a < cap THEN a + 1 ELSE cap
GwAged(e) == IF e = None THEN None
             ELSE IF e.age + 1 >= GW_CACHE_DURATION THEN None
             ELSE [e EXCEPT !.age = @ + 1]
Tick ==
    /\ gwMeta' = GwAged(gwMeta)
    /\ gwList' = GwAged(gwList)
    /\ kvMeta' = IF kvMeta = None THEN None
                 ELSE [kvMeta EXCEPT !.age = Older(@, METADATA_VALIDITY_DURATION)]
    /\ kvList' = IF kvList = None THEN None
                 ELSE IF kvList.age + 1 >= METADATA_VALIDITY_DURATION THEN None
                 ELSE [kvList EXCEPT !.age = @ + 1]
    /\ backend' = {[b EXCEPT !.age = Older(@, BackendTimeout[b.kind] + 1)] :
                   b \in backend}
    /\ rd' = [r \in Readers |->
                IF rd[r].pc \in {"sent", "wait"}
                  THEN [rd[r] EXCEPT !.age = Older(@, SmbTimeout[rd[r].kind] + 1)]
                  ELSE rd[r]]
    /\ lastSeen' = [v \in Versions |->
                      IF v = fs THEN 0 ELSE Older(lastSeen[v], StalenessBound + 1)]
    /\ UNCHANGED <<fs, ver, calls, deleted, gone>>

\* F is written on the studio file system: version v.
SetFs(v) ==
    /\ fs' = v
    /\ lastSeen' = [lastSeen EXCEPT ![v] = 0]
    /\ deleted' = {}
    /\ gone' = FALSE

-----------------------------------------------------------------------------
(* The gateway.  Its handlers are synchronous: one step each.             *)

\* get_file_metadata: the cached answer, or os.stat and setex.
get_file_metadata == IF gwMeta # None THEN gwMeta.val ELSE fs
GwMetaAfterRead == IF gwMeta # None THEN gwMeta ELSE [val |-> fs, age |-> 0]

\* ListDirHandler.get_data: the cached listing, or listdir, with
\* get_file_metadata for every child, and setex.
ListDirValue ==
    IF gwList # None THEN gwList.val
    ELSE IF fs = 0 THEN NotListed ELSE get_file_metadata

\* The gateway's answer to a request of the given kind, and its caches
\* after it: FileMetadataHandler.post or ListDirHandler.post.
GatewayAnswer(kind) == IF kind = "meta" THEN get_file_metadata ELSE ListDirValue
GatewayServe(kind) ==
    IF kind = "meta"
      THEN /\ gwMeta' = GwMetaAfterRead
           /\ UNCHANGED gwList
      ELSE /\ gwMeta' = IF gwList # None \/ fs = 0 THEN gwMeta
                        ELSE GwMetaAfterRead
           /\ gwList' = IF gwList # None THEN gwList
                        ELSE [val |-> ListDirValue, age |-> 0]

\* Someone at the studio, or the background download worker, writes F:
\* no gateway handler runs, no key is deleted.
ExternalWrite ==
    /\ ver < MaxVersion
    /\ ver' = ver + 1
    /\ SetFs(ver + 1)
    /\ UNCHANGED <<gwMeta, gwList, kvMeta, kvList, backend, rd, calls>>

\* PutFileHandler writes F and deletes both gateway keys.
PutFileHandler ==
    /\ ver < MaxVersion
    /\ ver' = ver + 1
    /\ SetFs(ver + 1)
    /\ gwMeta' = None /\ gwList' = None
    /\ UNCHANGED <<kvMeta, kvList, backend, rd, calls>>

\* TouchFile creates F empty if it is absent and deletes both keys.
TouchFile ==
    /\ fs = 0 => ver < MaxVersion
    /\ IF fs = 0 THEN ver' = ver + 1 /\ SetFs(ver + 1)
                 ELSE UNCHANGED <<ver, fs, lastSeen, deleted, gone>>
    /\ gwMeta' = None /\ gwList' = None
    /\ UNCHANGED <<kvMeta, kvList, backend, rd, calls>>

-----------------------------------------------------------------------------
(* metadata_loader: the cluster Redis, shared by the proxy and smbproxy.  *)

\* get_cached_file_metadata(path, max_age)
CachedMetaValid_inclusive(maxAge) == kvMeta # None /\ kvMeta.age <= maxAge
CachedMetaValid(maxAge) == kvMeta # None /\ kvMeta.age < maxAge

\* get_cached_list_dir(directory, max_age): the children's metadata keys
\* are read without checking their age.
CachedListValid(maxAge) == kvList # None /\ kvList.age < maxAge
CachedListValue == IF kvList.val THEN kvMeta.val ELSE NotListed

Cached(kind, maxAge) ==
    IF kind = "meta" THEN CachedMetaValid(maxAge) ELSE CachedListValid(maxAge)
CachedValue(kind) == IF kind = "meta" THEN kvMeta.val ELSE CachedListValue

\* set_cached_file_metadata, or set_cached_list_dir, which also writes the
\* key of every listed child; both stamp _update_time with time.time().
StoreAnswer_all_children(kind, v) ==
    IF kind = "meta"
      THEN /\ kvMeta' = [val |-> v, age |-> 0]
           /\ UNCHANGED kvList
      ELSE /\ kvList' = [val |-> v # NotListed, age |-> 0]
           /\ kvMeta' = [val |-> v, age |-> 0]
StoreAnswer(kind, v) ==
    IF kind = "meta"
      THEN /\ kvMeta' = [val |-> v, age |-> 0]
           /\ UNCHANGED kvList
      ELSE /\ kvList' = [val |-> v # NotListed, age |-> 0]
           /\ kvMeta' = IF v = NotListed THEN kvMeta ELSE [val |-> v, age |-> 0]

-----------------------------------------------------------------------------
(* The metadata proxy.                                                    *)

\* The proxy's answer v reaches the smbproxy connection of b.owner, if
\* that connection is still open (owner None: the smbproxy gave up on it).
ReplyTo(b, v) ==
    rd' = IF b.owner # None THEN [rd EXCEPT ![b.owner].reply = v] ELSE rd

\* FileMetadataHandler.post / ListDirHandler.post: a cache hit is answered
\* at once; otherwise the request goes to the gateway, which answers it in
\* one synchronous handler; the time the request and its answer travel is
\* the age of the answer in backend.
ProxyPost(r) ==
    LET c == rd[r] IN
    /\ c.pc = "sent"
    /\ IF ~c.forced /\ Cached(c.kind, METADATA_VALIDITY_DURATION)
         THEN /\ rd' = [rd EXCEPT ![r].pc = "wait", ![r].reply = CachedValue(c.kind)]
              /\ UNCHANGED <<backend, gwMeta, gwList>>
         ELSE /\ rd' = [rd EXCEPT ![r].pc = "wait"]
              /\ GatewayServe(c.kind)
              /\ backend' = backend \cup
                   {[owner |-> r, kind |-> c.kind, age |-> 0,
                     ans |-> GatewayAnswer(c.kind)]}
    /\ UNCHANGED <<fs, ver, kvMeta, kvList, calls, lastSeen, deleted, gone>>

\* handle_response with the gateway's answer, within request_timeout:
\* stored in the cache, then returned.
handle_response(b) ==
    /\ b.age <= BackendTimeout[b.kind]
    /\ StoreAnswer(b.kind, b.ans)
    /\ backend' = backend \ {b}
    /\ ReplyTo(b, b.ans)
    /\ UNCHANGED <<fs, ver, gwMeta, gwList, calls, lastSeen, deleted, gone>>

\* handle_response with error 599 (request_timeout, or the connection
\* lost): rethrow, and tornado_json_endpoint answers 500.
BackendTimeoutFires(b) ==
    /\ b.age >= BackendTimeout[b.kind]
    /\ backend' = backend \ {b}
    /\ ReplyTo(b, Error)
    /\ UNCHANGED <<fs, ver, gwMeta, gwList, kvMeta, kvList, calls, lastSeen,
                   deleted, gone>>

-----------------------------------------------------------------------------
(* The smbproxy: get_metadata_async, get_dir_listing_async, delete_file.  *)

\* A call that has returned res: only the result is kept.
Done(c, res) ==
    [c EXCEPT !.pc = "done", !.kind = "meta", !.forced = FALSE, !.age = 0,
              !.att = 0, !.reply = None, !.res = res]

\* _http_treq_req_with_retry_base after a failed attempt: a 500 or a
\* timeout is retried while attempts remain, else the call raises.
Retry(r) ==
    IF rd[r].att + 1 < MaxAttempts
      THEN rd' = [rd EXCEPT ![r].pc = "sent", ![r].att = @ + 1,
                            ![r].age = 0, ![r].reply = None]
      ELSE rd' = [rd EXCEPT ![r] = Done(@, Error)]

\* A new call of kind k, forced or not, part of a delete_file or not.
NewCall(c, k, forced, del) ==
    [c EXCEPT !.pc = "sent", !.kind = k, !.forced = forced, !.del = del,
              !.age = 0, !.att = 0, !.reply = None, !.res = None]

\* get_metadata_async / get_dir_listing_async without force_update: the
\* smbproxy's own read of the cluster Redis, else a post to the proxy.
StartRead(r, kind) ==
    /\ rd[r].pc \in {"idle", "done"} /\ calls < MaxCalls
    /\ calls' = calls + 1
    /\ rd' = [rd EXCEPT ![r] =
                IF Cached(kind, MTIME_METADATA_REFRESH_THRESHOLD)
                  THEN Done([@ EXCEPT !.del = FALSE], CachedValue(kind))
                  ELSE NewCall(@, kind, FALSE, FALSE)]
    /\ UNCHANGED <<fs, ver, gwMeta, gwList, kvMeta, kvList, backend, lastSeen,
                   deleted, gone>>

\* delete_file posts delete_file.json to the gateway.
delete_file(r) ==
    /\ rd[r].pc \in {"idle", "done"} /\ calls < MaxCalls
    /\ calls' = calls + 1
    /\ rd' = [rd EXCEPT ![r] = [NewCall(@, "list", TRUE, TRUE) EXCEPT !.pc = "deleting"]]
    /\ UNCHANGED <<fs, ver, gwMeta, gwList, kvMeta, kvList, backend, lastSeen,
                   deleted, gone>>

\* The gateway's DeleteHandler removes F and deletes both keys (or finds F
\* absent and does nothing); on its success delete_file asks the parent
\* listing with force_update.
DeleteHandler_keeps_listdir(r) ==
    /\ rd[r].pc = "deleting"
    /\ IF fs = 0 THEN UNCHANGED <<fs, lastSeen, gwMeta, gwList>>
                 ELSE /\ fs' = 0
                      /\ lastSeen' = [lastSeen EXCEPT ![0] = 0]
                      /\ gwMeta' = None /\ UNCHANGED gwList
    /\ deleted' = deleted \cup {r}
    /\ rd' = [rd EXCEPT ![r].pc = "sent", ![r].age = 0]
    /\ UNCHANGED <<ver, kvMeta, kvList, backend, calls, gone>>
DeleteHandler(r) ==
    /\ rd[r].pc = "deleting"
    /\ IF fs = 0 THEN UNCHANGED <<fs, lastSeen, gwMeta, gwList>>
                 ELSE /\ fs' = 0
                      /\ lastSeen' = [lastSeen EXCEPT ![0] = 0]
                      /\ gwMeta' = None /\ gwList' = None
    /\ deleted' = deleted \cup {r}
    /\ rd' = [rd EXCEPT ![r].pc = "sent", ![r].age = 0]
    /\ UNCHANGED <<ver, kvMeta, kvList, backend, calls, gone>>

\* The proxy's answer arrives before req_timeout.
Deliver(r) ==
    LET c == rd[r] IN
    /\ c.pc = "wait" /\ c.reply # None
    /\ c.age <= SmbTimeout[c.kind]
    /\ IF c.reply = Error
         THEN Retry(r) /\ UNCHANGED gone
         ELSE /\ rd' = [rd EXCEPT ![r] = Done(@, c.reply)]
              /\ gone' = (gone \/ (c.del /\ r \in deleted))
    /\ UNCHANGED <<fs, ver, gwMeta, gwList, kvMeta, kvList, backend, calls,
                   lastSeen, deleted>>

\* treq's timeout fires before an answer arrives: the connection is
\* dropped, the proxy's request to the gateway goes on without it.
SmbTimeoutFires(r) ==
    /\ rd[r].pc \in {"sent", "wait"}
    /\ rd[r].age >= SmbTimeout[rd[r].kind]
    /\ Retry(r)
    /\ backend' = {IF b.owner = r THEN [b EXCEPT !.owner = None] ELSE b :
                   b \in backend}
    /\ UNCHANGED <<fs, ver, gwMeta, gwList, kvMeta, kvList, calls, lastSeen,
                   deleted, gone>>

Next ==
    \/ Tick
    \/ ExternalWrite \/ PutFileHandler \/ TouchFile
    \/ \E b \in backend : handle_response(b) \/ BackendTimeoutFires(b)
    \/ \E r \in Readers :
         \/ \E k \in Kinds : StartRead(r, k)
         \/ delete_file(r) \/ DeleteHandler(r) \/ ProxyPost(r) \/ Deliver(r)
         \/ SmbTimeoutFires(r)

Spec == Init /\ [][Next]_vars

-----------------------------------------------------------------------------
(* Properties.                                                            *)

\* The answer of a finished call, as a version of F (not listed: absent).
Version(v) == IF v = NotListed THEN 0 ELSE v
Answered(r) == rd[r].pc = "done" /\ rd[r].res \notin {None, Error}

\* Every answer the smbproxy gets, from its own read of the cluster Redis,
\* from the proxy's cache or from the gateway, is a version F had within
\* the last StalenessBound seconds: the three caches and the timeouts
\* compose to that bound and no further.
Fresh == INSTANCE FreshMetadata
           WITH Bound <- StalenessBound,
                answer <- [r \in Readers |->
                             IF Answered(r) THEN Version(rd[r].res) ELSE -1]
RefinesFreshMetadata == Fresh!Spec

\* delete_file's forced listing of the parent, when it returns, does not
\* list F while F is still absent: force_refresh bypasses the proxy cache
\* and DeleteHandler deleted the gateway's listdir key.
DeleteRefreshSeesDeletion ==
    \A r \in Readers :
        (Answered(r) /\ rd[r].del /\ r \in deleted) => rd[r].res = NotListed

\* Once delete_file has returned ("Manually update our local metadata
\* cache") and while F stays absent, the cluster cache holds no valid
\* listing of D that lists F.
DeletedNotListed ==
    gone => ~(CachedListValid(METADATA_VALIDITY_DURATION) /\ kvList.val)

====
