---------------------------- MODULE FsCacheClient ----------------------------
(***************************************************************************)
(* The local cache client (fs_local_cache_client.py) acting on one remote  *)
(* file F in one directory D of an intercepted share, with the gateway     *)
(* handlers it calls (deployment/gateway/fileserver4_metadata.py).         *)
(*                                                                         *)
(* Every connection of the proxy process runs its actions on the same      *)
(* local tree.  A session is one client handle's life as the proxy drives  *)
(* it: SYNC (then TOUCH when opened for writing), the CREATE served by     *)
(* Samba, writes through the handle, and on CLOSE a SYNCBACK before Samba  *)
(* closes.  A session may also list D (LISTDIR).  Each `yield` of the      *)
(* inlineCallbacks actions ends a step, so the actions of different        *)
(* sessions interleave at every HTTP round trip.                           *)
(*                                                                         *)
(* The local file system keeps inodes: `path` is the inode that the name   *)
(* F denotes, and a Samba handle keeps its inode even after a rename       *)
(* replaces the name.  Contents are abstract: Empty (size 0), Zeros (the   *)
(* sparse placeholder of fake_file) and numbered real contents.            *)
(***************************************************************************)
EXTENDS Integers, Sequences, FiniteSets

CONSTANTS
    Sessions,                 \* concurrent client handles (connections)
    MaxOps,                   \* requests per session
    MaxTime,                  \* clock ticks
    MaxContent,               \* distinct real contents written
    MTIME_REFRESH_THRESHOLD,  \* settings.MTIME_REFRESH_THRESHOLD, in ticks
    ENABLE_WRITE_THROUGH,
    ENABLE_TOUCH_FILES,
    HttpMayFail,              \* an HTTP call raises after its retries
    ExternalWrites            \* other sites write F on the remote side

VARIABLES
    now,          \* the clock; remote and local mtimes are taken from it
    remote,       \* the gateway's file F: [exists, content, mtime]
    localDir,     \* the local directory D exists
    path,         \* the inode the local name F denotes, NoInode if none
    inode,        \* sequence of inodes: [content, mtime]
    sess,         \* per-session state
    nextContent   \* the last real content created

vars == <<now, remote, localDir, path, inode, sess, nextContent>>

Empty == 0
Zeros == -1
Failed == -2
NoInode == 0
NoPut == -3
Content == {Zeros, Empty} \cup 1..MaxContent
Dispositions == {"open", "open_if", "overwrite_if"}
NoMeta == [exists |-> FALSE, content |-> Empty, mtime |-> 0]
Idle == [pc |-> "idle", write |-> FALSE, disp |-> "open", meta |-> NoMeta,
         tmp |-> Failed, handle |-> NoInode, served |-> Empty, put |-> NoPut,
         ops |-> 0]

FileSize(c) == IF c = Empty THEN 0 ELSE 1

\* The identity of the inode a creation makes.
NewId_reused == Len(inode)
NewId == Len(inode) + 1

\* Creates a file: a new inode with content c and mtime m.
Create(c, m) == inode' = Append(inode, [content |-> c, mtime |-> m])

\* send_file: the local copy is kept when it is non-empty and the remote
\* mtime is older than the local one plus the threshold.
LocalIsFresh_any_mtime(meta) ==
    /\ path # NoInode
    /\ FileSize(inode[path].content) > 0
LocalIsFresh(meta) ==
    /\ path # NoInode
    /\ FileSize(inode[path].content) > 0
    /\ meta.mtime < inode[path].mtime + MTIME_REFRESH_THRESHOLD

\* fake_file: the placeholder's mtime lies far in the past.
FakeMtime_remote(m) == m
FakeMtime(m) == m - 500 * MTIME_REFRESH_THRESHOLD

\* Where SYNC continues: MessageProcessor chains touch_file after syncFile
\* for a file opened for writing, then Samba serves the CREATE.
AfterSync(s) ==
    IF sess[s].write /\ ENABLE_WRITE_THROUGH /\ ENABLE_TOUCH_FILES
    THEN "touch" ELSE "open"

\* create_dir_hierarchy of F's parent: every ancestor but the share root.
create_dir_hierarchy == localDir' = TRUE

Goto(s, pc) == [sess EXCEPT ![s].pc = pc]

-----------------------------------------------------------------------------
(* The proxy asks for a cache action.                                      *)

Request(s) ==
    /\ sess[s].pc = "idle"
    /\ sess[s].ops < MaxOps
    /\ \E w \in BOOLEAN, d \in Dispositions:
         sess' = [sess EXCEPT ![s] = [Idle EXCEPT !.pc = "sync_meta", !.write = w,
                                     !.disp = d, !.ops = sess[s].ops + 1]]
    /\ UNCHANGED <<now, remote, localDir, path, inode, nextContent>>

RequestListdir(s) ==
    /\ sess[s].pc = "idle"
    /\ sess[s].ops < MaxOps
    /\ sess' = [sess EXCEPT ![s] = [Idle EXCEPT !.pc = "ld_sync", !.ops = sess[s].ops + 1]]
    /\ UNCHANGED <<now, remote, localDir, path, inode, nextContent>>

-----------------------------------------------------------------------------
(* SYNC (perform_sync, send_file).                                         *)

\* metadata_object answered; the code runs on to the next yield: the
\* parent's SYNC, the cache-hit return, or get_file.
SyncMeta(s) ==
    /\ sess[s].pc = "sync_meta"
    /\ \/ /\ HttpMayFail
          /\ sess' = Goto(s, AfterSync(s))
          /\ UNCHANGED localDir
       \/ /\ ~remote.exists
          /\ sess' = [sess EXCEPT ![s].pc = "sync_parent", ![s].meta = remote]
          /\ UNCHANGED localDir
       \/ /\ remote.exists
          /\ create_dir_hierarchy
          /\ sess' = [sess EXCEPT ![s].meta = remote,
                         ![s].pc = IF LocalIsFresh(remote) THEN AfterSync(s)
                                   ELSE "get_file"]
    /\ UNCHANGED <<now, remote, path, inode, nextContent>>

\* The nested SYNC of D: D exists remotely, so create_directory(D).
SyncParent(s) ==
    /\ sess[s].pc = "sync_parent"
    /\ localDir' \in {TRUE} \cup (IF HttpMayFail THEN {localDir} ELSE {})
    /\ sess' = Goto(s, AfterSync(s))
    /\ UNCHANGED <<now, remote, path, inode, nextContent>>

\* The gateway's GetFile reads F into the response (404 once F is gone).
GetServed(s) ==
    /\ sess[s].pc = "get_file"
    /\ \E ok \in {TRUE} \cup (IF HttpMayFail THEN {FALSE} ELSE {}):
         sess' = [sess EXCEPT ![s].pc = "get_done",
                    ![s].tmp = IF ok /\ remote.exists THEN remote.content ELSE Failed]
    /\ UNCHANGED <<now, remote, localDir, path, inode, nextContent>>

\* get_file returned: rename the temporary file over F and utime it to the
\* metadata's mtime; on failure re-mark an existing F as stale.
GetDone(s) ==
    /\ sess[s].pc = "get_done"
    /\ LET m == sess[s].meta IN
       IF sess[s].tmp # Failed
       THEN /\ Create(sess[s].tmp, m.mtime)
            /\ path' = NewId
       ELSE /\ inode' = IF path = NoInode THEN inode
                        ELSE [inode EXCEPT ![path].mtime = FakeMtime(m.mtime)]
            /\ UNCHANGED path
    /\ sess' = Goto(s, AfterSync(s))
    /\ UNCHANGED <<now, remote, localDir, nextContent>>

\* TOUCH: the gateway's TouchFile creates F empty when it does not exist.
Touch(s) ==
    /\ sess[s].pc = "touch"
    /\ \/ remote' = IF remote.exists THEN remote
                    ELSE [exists |-> TRUE, content |-> Empty, mtime |-> now]
       \/ HttpMayFail /\ UNCHANGED remote
    /\ sess' = Goto(s, "open")
    /\ UNCHANGED <<now, localDir, path, inode, nextContent>>

-----------------------------------------------------------------------------
(* Samba serves the forwarded requests on the local tree (environment).    *)

SambaOpen(s) ==
    /\ sess[s].pc = "open"
    /\ LET d == sess[s].disp IN
       \/ /\ \/ ~localDir
             \/ path = NoInode /\ d = "open"
          /\ sess' = [sess EXCEPT ![s] = [Idle EXCEPT !.ops = sess[s].ops]]
          /\ UNCHANGED <<path, inode>>
       \/ /\ localDir /\ path = NoInode /\ d # "open"
          /\ Create(Empty, now)
          /\ path' = NewId
          /\ sess' = [sess EXCEPT ![s].pc = "opened", ![s].handle = NewId,
                                  ![s].served = Empty]
       \/ /\ localDir /\ path # NoInode
          /\ inode' = IF d = "overwrite_if"
                      THEN [inode EXCEPT ![path] = [content |-> Empty, mtime |-> now]]
                      ELSE inode
          /\ sess' = [sess EXCEPT ![s].pc = "opened", ![s].handle = path,
                                  ![s].served = inode'[path].content]
          /\ UNCHANGED path
    /\ UNCHANGED <<now, remote, localDir, nextContent>>

SambaWrite(s) ==
    /\ sess[s].pc = "opened"
    /\ sess[s].write
    /\ nextContent < MaxContent
    /\ nextContent' = nextContent + 1
    /\ inode' = [inode EXCEPT ![sess[s].handle] =
                    [content |-> nextContent + 1, mtime |-> now]]
    /\ UNCHANGED <<now, remote, localDir, path, sess>>

\* The client's CLOSE: a handle opened for writing is synced back first.
Close(s) ==
    /\ sess[s].pc = "opened"
    /\ IF sess[s].write /\ ENABLE_WRITE_THROUGH
       THEN sess' = Goto(s, "sb_meta")
       ELSE sess' = [sess EXCEPT ![s] = [Idle EXCEPT !.ops = sess[s].ops]]
    /\ UNCHANGED <<now, remote, localDir, path, inode, nextContent>>

-----------------------------------------------------------------------------
(* SYNCBACK (perform_syncback, set_file, the gateway's PutFileHandler).    *)

\* metadata_object answered; F must be a regular local file, else raise.
SyncBackMeta(s) ==
    /\ sess[s].pc = "sb_meta"
    /\ \/ path # NoInode /\ sess' = Goto(s, "sb_put")
       \/ (path = NoInode \/ HttpMayFail)
          /\ sess' = [sess EXCEPT ![s] = [Idle EXCEPT !.ops = sess[s].ops]]
    /\ UNCHANGED <<now, remote, localDir, path, inode, nextContent>>

\* The upload carries the file the name F denotes now.
SyncBackPut(s) ==
    /\ sess[s].pc = "sb_put"
    /\ \/ /\ remote' = [exists |-> TRUE, content |-> inode[path].content, mtime |-> now]
          /\ sess' = [sess EXCEPT ![s] = [Idle EXCEPT !.ops = sess[s].ops,
                                             !.put = inode[path].content]]
       \/ /\ HttpMayFail
          /\ sess' = [sess EXCEPT ![s] = [Idle EXCEPT !.ops = sess[s].ops]]
          /\ UNCHANGED remote
    /\ UNCHANGED <<now, localDir, path, inode, nextContent>>

-----------------------------------------------------------------------------
(* LISTDIR (perform_listdir, fake_file).                                   *)

\* The LISTDIR's own SYNC of D.
ListdirSync(s) ==
    /\ sess[s].pc = "ld_sync"
    /\ localDir' \in {TRUE} \cup (IF HttpMayFail THEN {localDir} ELSE {})
    /\ sess' = Goto(s, "ld_meta")
    /\ UNCHANGED <<now, remote, path, inode, nextContent>>

\* fake_file for the child F: a sparse file of F's size, unless F exists.
fake_file_overwrites(r) ==
    /\ localDir
    /\ Create(IF FileSize(r.content) > 0 THEN Zeros ELSE Empty, FakeMtime(r.mtime))
    /\ path' = NewId
fake_file(r) ==
    IF localDir /\ path = NoInode
    THEN /\ Create(IF FileSize(r.content) > 0 THEN Zeros ELSE Empty, FakeMtime(r.mtime))
         /\ path' = NewId
    ELSE UNCHANGED <<path, inode>>

\* metadata_object(D, include_children) answered: fake every existing child.
ListdirMeta(s) ==
    /\ sess[s].pc = "ld_meta"
    /\ \/ remote.exists /\ fake_file(remote)
       \/ (~remote.exists \/ HttpMayFail) /\ UNCHANGED <<path, inode>>
    /\ sess' = [sess EXCEPT ![s] = [Idle EXCEPT !.ops = sess[s].ops]]
    /\ UNCHANGED <<now, remote, localDir, nextContent>>

-----------------------------------------------------------------------------
(* The remote side and time.                                               *)

RemoteWrite ==
    /\ ExternalWrites
    /\ nextContent < MaxContent
    /\ nextContent' = nextContent + 1
    /\ remote' = [exists |-> TRUE, content |-> nextContent + 1, mtime |-> now]
    /\ UNCHANGED <<now, localDir, path, inode, sess>>

Tick ==
    /\ now < MaxTime
    /\ now' = now + 1
    /\ UNCHANGED <<remote, localDir, path, inode, sess, nextContent>>

-----------------------------------------------------------------------------
Init ==
    /\ now = 0
    /\ remote \in {NoMeta, [exists |-> TRUE, content |-> Empty, mtime |-> 0],
                   [exists |-> TRUE, content |-> 1, mtime |-> 0]}
    /\ localDir = FALSE
    /\ path = NoInode
    /\ inode = <<>>
    /\ sess = [s \in Sessions |-> Idle]
    /\ nextContent = 1

SessionNext(s) ==
    \/ Request(s) \/ RequestListdir(s)
    \/ SyncMeta(s) \/ SyncParent(s) \/ GetServed(s) \/ GetDone(s) \/ Touch(s)
    \/ SambaOpen(s) \/ SambaWrite(s) \/ Close(s)
    \/ SyncBackMeta(s) \/ SyncBackPut(s)
    \/ ListdirSync(s) \/ ListdirMeta(s)

Next == (\E s \in Sessions: SessionNext(s)) \/ RemoteWrite \/ Tick

Spec == Init /\ [][Next]_vars

-----------------------------------------------------------------------------
(* Properties.                                                             *)

OpenPcs == {"opened", "sb_meta", "sb_put"}

TypeOK ==
    /\ now \in 0..MaxTime
    /\ remote \in [exists: BOOLEAN, content: Content, mtime: 0..MaxTime]
    /\ localDir \in BOOLEAN
    /\ path \in 0..Len(inode)
    /\ \A i \in 1..Len(inode): inode[i].content \in Content
    /\ \A s \in Sessions:
         /\ sess[s].ops \in 0..MaxOps
         /\ sess[s].pc \in OpenPcs => sess[s].handle \in 1..Len(inode)
    /\ nextContent \in 1..MaxContent

\* A client that opens F never gets the zero-filled placeholder while the
\* backend answers: SYNC replaces a placeholder made by a concurrent
\* LISTDIR's fake_file before Samba serves the CREATE.
NoPlaceholderServed == \A s \in Sessions: sess[s].served # Zeros

\* The remote copy of F never holds placeholder zeros: no SYNCBACK uploads
\* a placeholder that fake_file or a failed send_file left in the tree.
RemoteHoldsRealData == remote.content # Zeros

\* A SYNCBACK uploads what was written through the closing handle: the
\* file the name F denotes when it uploads is the one the handle opened.
WriteBackUploadsHandle ==
    [][\A s \in Sessions:
         (sess[s].pc = "sb_put" /\ sess'[s].put # NoPut)
            => sess'[s].put = inode[sess[s].handle].content]_vars

\* After a SYNC of an existing remote file that the remote did not change
\* during, the local F holds the remote content or a newer local write
\* (spec: "after a successful SYNC, local_mtime == remote_mtime").
SyncNotStale ==
    [][\A s \in Sessions:
         (/\ sess[s].pc \in {"sync_meta", "get_done"}
          /\ sess'[s].pc \in {"open", "touch"}
          /\ sess'[s].meta.exists
          /\ remote' = sess'[s].meta)
            => /\ path' # NoInode
               /\ \/ inode'[path'].content = remote'.content
                  \/ inode'[path'].mtime >= remote'.mtime]_vars
=============================================================================
