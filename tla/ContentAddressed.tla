-------------------------- MODULE ContentAddressed --------------------------
(***************************************************************************)
(* The content-addressed transfer of a large file (CacheClient3 in         *)
(* filecache_client3.py, upload and download_with_tmp_files in            *)
(* twisted_client.py), on the read path of a SYNC: FSCache.get_file sends  *)
(* a large file through http_get_file_through_cacheclient3, which looks    *)
(* up the fingerprint key of the remote metadata and, when no manifest is  *)
(* there, asks the gateway (cache_file3.json) to run cache_file on the     *)
(* studio file; then get_file downloads the parts named by the manifest.   *)
(*                                                                         *)
(* The file F is written at the studio while this goes on.  A file content *)
(* is a sequence of bytes; a chunk's shasum is the chunk itself (SHA-256   *)
(* taken as injective).  Time is counted in ticks of the file system's    *)
(* mtime resolution; the key's %d keeps whole seconds of TICKS_PER_SECOND *)
(* ticks.                                                                  *)
(***************************************************************************)
EXTENDS Integers, Sequences, SequencesExt

CONSTANTS Readers,            \* concurrent SYNCs of F
          Contents,           \* the contents F may be written with
          CHUNK_SIZE,         \* CHUNK_SIZE_IN_MB (5 MiB)
          CONNECTION_COUNT,   \* parts in flight at once (50)
          TICKS_PER_SECOND,   \* mtime ticks per second of the key
          MaxTime, MaxWrites,
          PartMayFail,        \* a HEAD, POST or GET of a part may fail
          WritesDuringUpload  \* F may be written between cache_file's stat
                              \* and the end of its upload

ASSUME /\ CHUNK_SIZE \in Nat \ {0} /\ CONNECTION_COUNT \in Nat \ {0}
       /\ TICKS_PER_SECOND \in Nat \ {0}
       /\ \A d \in Contents : Len(d) > 0

VARIABLES versions,   \* history of F: its contents and mtimes, Last = now
          now,        \* the clock, in mtime ticks
          store,      \* the chunks stored on the content-addressed endpoint
          manifests,  \* renderfarm:cacheclient3:file:<key> -> manifest
          rd,         \* rd[r]: the SYNC r, from the lookup to the temp file
          out         \* out[r]: the temporary file r downloads into

vars == <<versions, now, store, manifests, rd, out>>

NoKey == <<0, 0>>
Pcs == {"idle", "caching", "sizing", "reading", "getfile", "fetching", "done"}
Current == Last(versions)

\* key_from_metadata: base64(path), size and mtime formatted with %d.
key_from_metadata(size, mtime) == <<size, mtime \div TICKS_PER_SECOND>>
KeyOf(v) == key_from_metadata(Len(v.data), v.mtime)

\* has_file / get_file_manifest: a manifest is stored under the key.
has_file(k) == k \in DOMAIN manifests
\* set_file_manifest: the manifest stored under the key, any older one replaced.
set_file_manifest(k, m) == (k :> m) @@ manifests

\* upload: the length of the part that starts at offset.
ChunkLength_full(offset, total) == CHUNK_SIZE
ChunkLength(offset, total) ==
    IF offset + CHUNK_SIZE <= total THEN CHUNK_SIZE ELSE total - offset

\* fh.read(length) at offset: fewer bytes, or none, past the end.
ReadBytes(data, offset, length) ==
    SubSeq(data, offset + 1, IF offset + length < Len(data) THEN offset + length
                             ELSE Len(data))

\* The parts upload cuts a file of total bytes into: uid, offset, length.
RECURSIVE PartsFrom(_, _, _)
PartsFrom(offset, uid, total) ==
    IF offset < total
      THEN <<[uid |-> uid, offset |-> offset,
              length |-> ChunkLength(offset, total)]>>
           \o PartsFrom(offset + ChunkLength(offset, total), uid + 1, total)
      ELSE <<>>
Parts(total) == PartsFrom(0, 0, total)

Layout(m) == [i \in DOMAIN m |-> [uid |-> m[i].uid, offset |-> m[i].offset,
                                  length |-> m[i].length]]
Reassemble(m) == FlattenSeq([i \in DOMAIN m |-> m[i].shasum])

IdleRd == [pc |-> "idle", req |-> 0, key |-> NoKey, total |-> 0, offset |-> 0, pos |-> 0,
           uid |-> 0, tasks |-> <<>>, final |-> <<>>, man |-> <<>>,
           got |-> <<>>, res |-> "none"]

TypeOK ==
    /\ versions \in Seq([data : Contents, mtime : 0..MaxTime])
    /\ Len(versions) \in 1..(MaxWrites + 1)
    /\ now \in 0..MaxTime
    /\ \A k \in DOMAIN manifests : manifests[k] \in Seq([uid : Nat, offset : Nat,
                                                      length : Nat, shasum : Seq(Nat)])
    /\ \A r \in Readers :
         /\ rd[r].pc \in Pcs /\ rd[r].res \in {"none", "ok", "fail"}
         /\ Len(rd[r].tasks) <= CONNECTION_COUNT
         /\ \A i \in DOMAIN rd[r].tasks : rd[r].tasks[i].st \in {"pending", "ok", "fail"}

Init ==
    /\ \E d \in Contents : versions = <<[data |-> d, mtime |-> 0]>>
    /\ now = 0
    /\ store = {}
    /\ manifests = <<>>
    /\ rd = [r \in Readers |-> IdleRd]
    /\ out = [r \in Readers |-> <<>>]

-----------------------------------------------------------------------------
(* The studio                                                              *)

Tick == now < MaxTime /\ now' = now + 1 /\ UNCHANGED <<versions, store, manifests, rd, out>>

\* F is rewritten; each write has a later mtime than the one before.
Write ==
    /\ Len(versions) <= MaxWrites /\ now > Current.mtime
    /\ WritesDuringUpload \/ \A r \in Readers : rd[r].pc \notin {"sizing", "reading"}
    /\ \E d \in Contents : versions' = Append(versions, [data |-> d, mtime |-> now])
    /\ UNCHANGED <<now, store, manifests, rd, out>>

-----------------------------------------------------------------------------
(* The SYNC of a large file                                                *)

\* http_get_file_through_cacheclient3: the key of the metadata the SYNC
\* read; has_file(unverified_key), else cache_file3.json at the gateway.
SyncStart(r) ==
    LET k == KeyOf(Current) IN
    /\ rd[r].pc = "idle"
    /\ rd' = [rd EXCEPT ![r].req = Len(versions), ![r].key = k,
                        ![r].pc = IF has_file(k) THEN "getfile" ELSE "caching"]
    /\ UNCHANGED <<versions, now, store, manifests, out>>

\* CacheClient3.cache_file of the studio file: key_from_file's os.stat,
\* has_file, then add_file.
cache_file(r) ==
    LET k == KeyOf(Current) IN
    /\ rd[r].pc = "caching"
    /\ rd' = [rd EXCEPT ![r].key = k,
                        ![r].pc = IF has_file(k) THEN "getfile" ELSE "sizing"]
    /\ UNCHANGED <<versions, now, store, manifests, out>>

\* upload: total_size from its own os.path.getsize, then open(path, 'rb').
\* F is written in place, so the handle reads its current content.
upload(r) ==
    /\ rd[r].pc = "sizing"
    /\ rd' = [rd EXCEPT ![r].total = Len(Current.data), ![r].offset = 0,
                        ![r].pos = 0, ![r].pc = "reading"]
    /\ UNCHANGED <<versions, now, store, manifests, out>>

\* upload's inner loop: read_chunk (fh.read(length) in a thread, from the
\* handle's position), then upload_part started with the length asked for;
\* at most CONNECTION_COUNT parts are queued before the DeferredList.  An
\* empty read makes the tuple unpacking raise: the upload fails.
read_chunk_unbounded(r) ==
    LET c == rd[r]
        len == ChunkLength(c.offset, c.total)
        bytes == ReadBytes(Current.data, c.pos, len)
    IN
    /\ c.pc = "reading" /\ c.offset < c.total
    /\ rd' = [rd EXCEPT ![r] =
                IF bytes = <<>> THEN [c EXCEPT !.pc = "done", !.res = "fail"]
                ELSE [c EXCEPT !.offset = @ + len, !.pos = @ + Len(bytes), !.uid = @ + 1,
                        !.tasks = Append(@, [st |-> "pending",
                                   part |-> [uid |-> c.uid, offset |-> c.offset,
                                             length |-> len, shasum |-> bytes]])]]
    /\ UNCHANGED <<versions, now, store, manifests, out>>
\* Mutation: each part read from the start of the file (opened per part).
read_chunk_from_start(r) ==
    LET c == rd[r]
        len == ChunkLength(c.offset, c.total)
        bytes == ReadBytes(Current.data, 0, len)
    IN
    /\ c.pc = "reading" /\ c.offset < c.total /\ Len(c.tasks) < CONNECTION_COUNT
    /\ rd' = [rd EXCEPT ![r] =
                IF bytes = <<>> THEN [c EXCEPT !.pc = "done", !.res = "fail"]
                ELSE [c EXCEPT !.offset = @ + len, !.pos = @ + Len(bytes), !.uid = @ + 1,
                        !.tasks = Append(@, [st |-> "pending",
                                   part |-> [uid |-> c.uid, offset |-> c.offset,
                                             length |-> len, shasum |-> bytes]])]]
    /\ UNCHANGED <<versions, now, store, manifests, out>>
read_chunk(r) ==
    LET c == rd[r]
        len == ChunkLength(c.offset, c.total)
        bytes == ReadBytes(Current.data, c.pos, len)
    IN
    /\ c.pc = "reading" /\ c.offset < c.total /\ Len(c.tasks) < CONNECTION_COUNT
    /\ rd' = [rd EXCEPT ![r] =
                IF bytes = <<>> THEN [c EXCEPT !.pc = "done", !.res = "fail"]
                ELSE [c EXCEPT !.offset = @ + len, !.pos = @ + Len(bytes), !.uid = @ + 1,
                        !.tasks = Append(@, [st |-> "pending",
                                   part |-> [uid |-> c.uid, offset |-> c.offset,
                                             length |-> len, shasum |-> bytes]])]]
    /\ UNCHANGED <<versions, now, store, manifests, out>>

\* The chunk endpoint's /upload (raw_nginx_cache): the body is stored under
\* its shasum only when its size and shasum match the headers; the answer is
\* 200 either way.  The client computed the shasum from the body it sends.
StoreUpload(p) == IF Len(p.shasum) = p.length THEN store \cup {p.shasum} ELSE store

\* upload_part: check_part's HEAD finds the chunk, or the POST sends it with
\* the length asked for in X-Seekscale-Payload-Length; cbResponse takes any
\* 200 as success.  A HEAD or POST may fail (an error or another status).
upload_part(r, i) ==
    LET p == rd[r].tasks[i].part IN
    /\ rd[r].pc = "reading" /\ rd[r].tasks[i].st = "pending"
    /\ \/ /\ store' = IF p.shasum \in store THEN store ELSE StoreUpload(p)
          /\ rd' = [rd EXCEPT ![r].tasks[i].st = "ok"]
       \/ /\ PartMayFail
          /\ rd' = [rd EXCEPT ![r].tasks[i].st = "fail"]
          /\ UNCHANGED store
    /\ UNCHANGED <<versions, now, manifests, out>>

\* yield DeferredList(tasks); after the last batch, the result loop and
\* add_file's store_result (set_file_manifest).  A failed first part is
\* returned as the error; a later one reaches json.dumps, which raises.
StoreResult_early(r) ==
    LET c == rd[r] IN
    /\ c.pc = "reading" /\ c.tasks # <<>>
    /\ Len(c.tasks) = CONNECTION_COUNT \/ c.offset = c.total
    /\ rd' = [rd EXCEPT ![r].tasks = <<>>, ![r].final = @ \o c.tasks,
                        ![r].pc = IF c.offset < c.total THEN "reading" ELSE "getfile"]
    /\ manifests' = IF c.offset < c.total THEN manifests
                    ELSE (c.key :> [i \in DOMAIN (c.final \o c.tasks) |->
                                                   (c.final \o c.tasks)[i].part]) @@ manifests
    /\ UNCHANGED <<versions, now, store, out>>
StoreResult(r) ==
    LET c == rd[r]
        all == c.final \o c.tasks
        m == [i \in DOMAIN all |-> all[i].part]
        ok == \A i \in DOMAIN all : all[i].st = "ok"
    IN
    /\ c.pc = "reading" /\ c.tasks # <<>>
    /\ Len(c.tasks) = CONNECTION_COUNT \/ c.offset = c.total
    /\ \A i \in DOMAIN c.tasks : c.tasks[i].st # "pending"
    /\ IF c.offset < c.total
         THEN /\ rd' = [rd EXCEPT ![r].tasks = <<>>, ![r].final = all]
              /\ UNCHANGED manifests
         ELSE IF ok
           THEN /\ manifests' = set_file_manifest(c.key, m)
                /\ rd' = [rd EXCEPT ![r].tasks = <<>>, ![r].final = all, ![r].pc = "getfile"]
           ELSE /\ rd' = [rd EXCEPT ![r].pc = "done", ![r].res = "fail"]
                /\ UNCHANGED manifests
    /\ UNCHANGED <<versions, now, store, out>>

\* CacheClient3.get_file: the manifest under the key, else "Unknown key".
get_file(r) ==
    LET k == rd[r].key IN
    /\ rd[r].pc = "getfile"
    /\ rd' = [rd EXCEPT ![r] =
                IF has_file(k)
                  THEN [@ EXCEPT !.pc = "fetching", !.man = manifests[k],
                                 !.got = [i \in DOMAIN manifests[k] |-> "none"]]
                  ELSE [@ EXCEPT !.pc = "done", !.res = "fail"]]
    /\ UNCHANGED <<versions, now, store, manifests, out>>

\* download_part_to_disk of part i, in batches of CONNECTION_COUNT: a batch
\* starts once the one before it has completed.
Batch(i) == (i - 1) \div CONNECTION_COUNT
download_part_to_disk(r, i) ==
    LET c == rd[r] IN
    /\ c.pc = "fetching" /\ c.got[i] = "none"
    /\ \A j \in DOMAIN c.got : Batch(j) < Batch(i) => c.got[j] # "none"
    /\ \E st \in {"ok", "fail"} :
         /\ st = "ok" => c.man[i].shasum \in store
         /\ st = "fail" => PartMayFail \/ c.man[i].shasum \notin store
         /\ rd' = [rd EXCEPT ![r].got[i] = st]
    /\ UNCHANGED <<versions, now, store, manifests, out>>

\* build_output_file: with every part, the parts copied in uid order into
\* the target; with a failed part, the target is not opened.
build_output_file(r) ==
    LET c == rd[r]
        ok == \A i \in DOMAIN c.got : c.got[i] = "ok"
    IN
    /\ c.pc = "fetching" /\ \A i \in DOMAIN c.got : c.got[i] # "none"
    /\ out' = IF ok THEN [out EXCEPT ![r] = Reassemble(c.man)] ELSE out
    /\ rd' = [rd EXCEPT ![r].pc = "done", ![r].res = IF ok THEN "ok" ELSE "fail"]
    /\ UNCHANGED <<versions, now, store, manifests>>

-----------------------------------------------------------------------------
Next ==
    \/ Tick \/ Write
    \/ \E r \in Readers :
         \/ SyncStart(r) \/ cache_file(r) \/ upload(r) \/ read_chunk(r) \/ StoreResult(r)
         \/ get_file(r) \/ build_output_file(r)
         \/ \E i \in DOMAIN rd[r].tasks : upload_part(r, i)
         \/ \E i \in DOMAIN rd[r].got : download_part_to_disk(r, i)

Spec == Init /\ [][Next]_vars

-----------------------------------------------------------------------------
(* Properties                                                              *)

\* The parts of a file of size bytes as spec 4.D states them: uid 0 to
\* ceil(size / chunk) - 1, each CHUNK_SIZE long but the last.
SpecParts(size) ==
    [i \in 1..((size + CHUNK_SIZE - 1) \div CHUNK_SIZE) |->
        [uid |-> i - 1, offset |-> (i - 1) * CHUNK_SIZE,
         length |-> IF size - (i - 1) * CHUNK_SIZE < CHUNK_SIZE
                      THEN size - (i - 1) * CHUNK_SIZE ELSE CHUNK_SIZE]]

\* upload's offset and length arithmetic cuts every version the file takes
\* into the parts of the spec (a short last part, never an empty one), and
\* reading those parts back to back gives that version again.
ChunkingMatchesSpec ==
    \A j \in DOMAIN versions :
        LET d  == versions[j].data
            ps == Parts(Len(d))
        IN  /\ ps = SpecParts(Len(d))
            /\ FlattenSeq([i \in DOMAIN ps |-> ReadBytes(d, ps[i].offset, ps[i].length)]) = d

\* Spec 4.D: a key present in the shared KV names a manifest that covers the
\* key's size part by part, and every chunk it references is stored, however
\* uploads of several SYNCs interleave, fail or skip chunks already stored.
ManifestComplete ==
    \A k \in DOMAIN manifests :
        /\ Layout(manifests[k]) = Parts(k[1])
        /\ \A i \in DOMAIN manifests[k] : manifests[k][i].shasum \in store

\* A SYNC that gets F through the chunk store gets a content F had at some
\* time, never a mix of two versions or a file cut short, however SYNCs
\* share keys, chunks and manifests and whichever parts fail.
GotSomeVersion ==
    \A r \in Readers :
        rd[r].pc = "done" /\ rd[r].res = "ok" =>
            \E j \in DOMAIN versions : versions[j].data = out[r]

\* A SYNC that gets F through the chunk store gets the content F had at the
\* metadata the SYNC read, or a later one.
NotOlderThanRequested ==
    \A r \in Readers :
        rd[r].pc = "done" /\ rd[r].res = "ok" =>
            \E j \in rd[r].req..Len(versions) : versions[j].data = out[r]

====
