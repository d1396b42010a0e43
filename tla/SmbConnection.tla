--------------------------- MODULE SmbConnection ---------------------------
(***************************************************************************)
(* One client connection of the SMB2 interception proxy                    *)
(* (src/smbproxy/smbproxy4/smbproxy4.py, ProxyServerProtocol).             *)
(*                                                                         *)
(* The client sends NetBIOS session packets, each holding a chain of SMB2  *)
(* requests (a compound when it has several).  The proxy handles the       *)
(* requests of a packet one at a time: a handler may start a cache action  *)
(* (SYNC, TOUCH, LISTDIR, SYNCBACK, DELETE) and the rest of the chain, and  *)
(* the forwarding of the packet to the SMB server, waits until it is done. *)
(* Responses from the server are inspected in one synchronous step before  *)
(* they are written to the client.  A graceful shutdown closes the          *)
(* connection once no non-root file is left in open_files.                 *)
(*                                                                         *)
(* The server and the client are modelled as far as the proxy depends on  *)
(* them: the server hands out tree and file ids, may fail a CREATE,        *)
(* resolves the related (0xFF..) ids of a compound as SMB2 specifies, and  *)
(* keeps, as history, what it served, closed and deleted.                  *)
(***************************************************************************)
EXTENDS Naturals, Sequences, FiniteSets, Functions, TLC

CONSTANTS
    Shares,          \* share paths the client may connect to
    PassThrough,     \* the shares share_is_intercepted rejects (IPC$, ADMIN$, ...)
    Names,           \* file names the client opens, relative to the share
    Root,            \* the empty file name '' (the share root)
    Srvsvc,          \* the 'srvsvc' pipe name the proxy never acts on
    TreeIds,         \* tree ids the server hands out
    FileIds,         \* file ids the server hands out
    AccessMasks,     \* access masks (sets of access rights) a CREATE may request
    RelatedChains,   \* sequences of commands sent as related operations after a CREATE
    MaxMid,          \* bound on the message ids the client uses
    ENABLE_WRITE_THROUGH,
    ENABLE_TOUCH_FILES,
    SetInfoMayFail,  \* whether the server may refuse a FileDispositionInformation
    NoValue          \* Python's None

ASSUME /\ PassThrough \subseteq Shares
       /\ Root \in Names
       /\ Cardinality(TreeIds) >= Cardinality(Shares)
       /\ MaxMid \in Nat
       /\ {ENABLE_WRITE_THROUGH, ENABLE_TOUCH_FILES, SetInfoMayFail} \subseteq BOOLEAN

\* 0xFFFFFFFF and '\xff' * 16: the ids of a related operation of a compound
RelatedTid == "0xFFFFFFFF"
RelatedFid == "0xFF*16"
\* What check_message_tid returns for an unknown tree (False) and for a
\* tree that is not intercepted (None).
UNKNOWN_SHARE   == "False"
NOT_INTERCEPTED == NoValue
NoFid           == "none"
NoCont          == [kind |-> "none"]
EmptyFn         == [x \in {} |-> NoValue]
\* The filename the CLOSE handler uses when the handle is not in open_files
MissingName     == "_"

AccessRights == {"GENERIC_READ", "FILE_WRITE_DATA", "FILE_APPEND_DATA",
                 "FILE_WRITE_ATTRIBUTES", "MAXIMUM_ALLOWED", "GENERIC_ALL",
                 "GENERIC_WRITE"}
Commands == {"TREE_CONNECT", "CREATE", "SET_INFO", "CLOSE", "QUERY_DIRECTORY"}
ActionKinds == {"SYNC", "TOUCH", "LISTDIR", "SYNCBACK", "DELETE"}

VARIABLES
    \* the client: trees and handles it has learnt, shares it tried, next mid
    clientTrees, clientOpen, triedShares, nextMid,
    \* packets client -> proxy, proxy -> server, server -> proxy
    toProxy, toServer, fromServer,
    \* the proxy's per-connection state (smbproxy4.py:101-107, 125-126)
    tree_connect_requests, connected_trees, file_open_requests, open_files,
    session_latest_create_request_filename, session_latest_tree_connect_path,
    shutdown_requested, shutdown_deferred,
    \* the packet being processed, the index of the request being handled,
    \* the actions its handler still waits for, and the callback after them
    inPkt, inIdx, todo, cont,
    \* the reactor.callLater(1, tryShutdown) timer, and the closed transport
    timerArmed, connClosed,
    \* the server: trees, open handles, file ids used, and its history
    srvTrees, srvOpen, usedFids, srvClosed, srvServed,
    \* history: cache actions started and finished, each tagged with the mid
    \* of the request whose handler issued it
    started, finished

client  == <<clientTrees, clientOpen, triedShares, nextMid>>
chans   == <<toProxy, toServer, fromServer>>
proxy   == <<tree_connect_requests, connected_trees, file_open_requests,
             open_files, session_latest_create_request_filename,
             session_latest_tree_connect_path, shutdown_requested,
             shutdown_deferred>>
inbound == <<inPkt, inIdx, todo, cont>>
server  == <<srvTrees, srvOpen, usedFids, srvClosed, srvServed>>
vars == <<client, chans, proxy, inbound, timerArmed, connClosed, server,
          started, finished>>

Drop(f, k) == Restrict(f, DOMAIN f \ {k})
Act(kind, share, name, mid) == [kind |-> kind, share |-> share, name |-> name, mid |-> mid]


(***************************************************************************)
(* Requests and responses.  Data is abstracted: a share or a file name is  *)
(* a model value, an access mask a set of rights.                          *)
(***************************************************************************)
TreeConnectReq(m, s) == [cmd |-> "TREE_CONNECT", mid |-> m, share |-> s]
CreateReq(m, t, n, a, doc) ==
    [cmd |-> "CREATE", mid |-> m, tid |-> t, name |-> n, mask |-> a, delOnClose |-> doc]
HandleReq(c, m, t, f) == [cmd |-> c, mid |-> m, tid |-> t, fid |-> f]
SetInfoReq(m, t, f, d) == [cmd |-> "SET_INFO", mid |-> m, tid |-> t, fid |-> f, disp |-> d]
\* A related operation of a compound: both ids are the 0xFF.. sentinels
RelatedReq(c, m) ==
    IF c = "SET_INFO" THEN SetInfoReq(m, RelatedTid, RelatedFid, TRUE)
                      ELSE HandleReq(c, m, RelatedTid, RelatedFid)
Response(r, t, ok, f) == [cmd |-> r.cmd, mid |-> r.mid, tid |-> t, ok |-> ok, fid |-> f]

(***************************************************************************)
(* The proxy's helpers (smbproxy4.py).                                     *)
(***************************************************************************)
\* share_is_intercepted: False for IPC$, ADMIN$ and my_seekscale_data
share_is_intercepted(s) == s \notin PassThrough

\* check_message_tid: the share of a message's tree.  A compound's related
\* tid resolves to the path of the latest TREE_CONNECT request.  The host
\* rewrite of the HOTFIX maps every host to one, and a share is identified
\* by its name alone here, so it leaves the share unchanged.
check_message_tid(tid, trees) ==
    LET path == IF tid = RelatedTid THEN session_latest_tree_connect_path
                ELSE IF tid \in DOMAIN trees THEN trees[tid]
                ELSE NoValue
    IN  IF path = NoValue THEN UNKNOWN_SHARE
        ELSE IF ~share_is_intercepted(path) THEN NOT_INTERCEPTED
        ELSE path

\* Mutation of do_write: MAXIMUM_ALLOWED is not taken as a write access
do_write_no_max(mask) ==
    mask \cap {"FILE_WRITE_DATA", "FILE_APPEND_DATA", "FILE_WRITE_ATTRIBUTES",
               "GENERIC_ALL", "GENERIC_WRITE"} # {}

\* The access bits for which the CREATE handler expects writes
do_write(mask) ==
    mask \cap {"FILE_WRITE_DATA", "FILE_APPEND_DATA", "FILE_WRITE_ATTRIBUTES",
               "MAXIMUM_ALLOWED", "GENERIC_ALL", "GENERIC_WRITE"} # {}

\* get_filename: the related file id maps to the latest CREATE's name,
\* any other to its open_files entry; NoValue when there is none.
get_filename(fid) ==
    IF fid = RelatedFid THEN session_latest_create_request_filename
    ELSE IF fid \in DOMAIN open_files THEN open_files[fid].filename
    ELSE NoValue

\* The fscacheclient calls, each a sequence of at most one action: empty
\* where the wrapper returns an already fired deferred.
syncFile(share, path, mid) ==
    IF path = Srvsvc THEN <<>> ELSE <<Act("SYNC", share, path, mid)>>
listdir(share, path, mid) ==
    IF path = Srvsvc THEN <<>> ELSE <<Act("LISTDIR", share, path, mid)>>
sync_back_file(share, path, mid) ==
    IF ~ENABLE_WRITE_THROUGH \/ path = Srvsvc THEN <<>>
    ELSE <<Act("SYNCBACK", share, path, mid)>>
delete_file(share, path, mid) ==
    IF ~ENABLE_WRITE_THROUGH \/ path = Srvsvc THEN <<>>
    ELSE <<Act("DELETE", share, path, mid)>>
touch_file(share, path, mid) ==
    IF ~ENABLE_WRITE_THROUGH \/ ~ENABLE_TOUCH_FILES \/ path = Srvsvc THEN <<>>
    ELSE <<Act("TOUCH", share, path, mid)>>

\* Mutation of tryShutdown: open_files is not looked at
tryShutdown_unconditional(of) ==
    IF shutdown_deferred
    THEN shutdown_deferred' = FALSE /\ connClosed' = TRUE
    ELSE UNCHANGED <<shutdown_deferred, connClosed>>

\* tryShutdown: fire shutdown_deferred, whose callback loses the
\* connection, when every open_files entry is the share root.
tryShutdown(of) ==
    IF shutdown_deferred /\ \A f \in DOMAIN of : of[f].filename = Root
    THEN shutdown_deferred' = FALSE /\ connClosed' = TRUE
    ELSE UNCHANGED <<shutdown_deferred, connClosed>>


(***************************************************************************)
(* Inbound: process_client_pending_packet and onNMBSessionMessage.  A      *)
(* packet is taken from the queue, its requests are handed to              *)
(* _updateState_SMB2 one after another, each after the deferred of the one  *)
(* before has fired, and the packet is then put on cli_queue (forwarded).  *)
(***************************************************************************)
CurrentMsg == inPkt[inIdx]

\* The next request of the packet is ready for its handler
Ready == /\ ~connClosed
         /\ inPkt # <<>> /\ inIdx <= Len(inPkt)
         /\ todo = <<>> /\ cont = NoCont

\* Mutation of Await: the handler starts its actions but returns True, so
\* the chain does not wait for them
Await_no_return(acts, k) ==
    /\ todo' = <<>>
    /\ cont' = k
    /\ started' = started \cup Range(acts)

\* A handler returns a deferred: start its first action; the others, and
\* the callback k, are chained behind it.
Await(acts, k) ==
    /\ todo' = acts
    /\ cont' = k
    /\ started' = IF acts = <<>> THEN started ELSE started \cup {Head(acts)}

\* The handler returned True: the next request is handled at once
Pass == inIdx' = inIdx + 1 /\ UNCHANGED <<todo, cont, started>>

ReceivePacket ==
    /\ ~connClosed /\ inPkt = <<>> /\ toProxy # <<>>
    /\ inPkt' = Head(toProxy) /\ toProxy' = Tail(toProxy) /\ inIdx' = 1
    /\ UNCHANGED <<client, toServer, fromServer, proxy, todo, cont, timerArmed,
                   connClosed, server, started, finished>>

UpdateState_TreeConnect ==
    /\ Ready /\ CurrentMsg.cmd = "TREE_CONNECT"
    /\ tree_connect_requests' = (CurrentMsg.mid :> CurrentMsg.share) @@ tree_connect_requests
    /\ session_latest_tree_connect_path' = CurrentMsg.share
    /\ Pass
    /\ UNCHANGED <<client, chans, connected_trees, file_open_requests, open_files,
                   session_latest_create_request_filename, shutdown_requested,
                   shutdown_deferred, inPkt, timerArmed, connClosed, server, finished>>

\* CREATE: sync the file, then touch it when writes are expected; the
\* open request is registered only after both.  Nothing is done for a
\* share that is not intercepted, and no action for an unknown tree.
UpdateState_Create ==
    /\ Ready /\ CurrentMsg.cmd = "CREATE"
    /\ LET m     == CurrentMsg
           share == check_message_tid(m.tid, connected_trees)
           entry == [filename |-> m.name, do_write |-> do_write(m.mask),
                     do_delete |-> m.delOnClose]
       IN  IF share = NOT_INTERCEPTED THEN Pass
           ELSE /\ Await(IF share = UNKNOWN_SHARE THEN <<>>
                         ELSE syncFile(share, m.name, m.mid)
                              \o (IF entry.do_write THEN touch_file(share, m.name, m.mid)
                                  ELSE <<>>),
                         [kind |-> "register", mid |-> m.mid, entry |-> entry])
                /\ UNCHANGED inIdx
    /\ UNCHANGED <<client, chans, proxy, inPkt, timerArmed, connClosed, server, finished>>

\* Mutation of register_open_request: the latest create request's whole
\* entry is stored, not its filename
register_open_request_entry ==
    /\ ~connClosed /\ todo = <<>> /\ cont.kind = "register"
    /\ file_open_requests' = (cont.mid :> cont.entry) @@ file_open_requests
    /\ session_latest_create_request_filename' = cont.entry
    /\ cont' = NoCont /\ inIdx' = inIdx + 1
    /\ UNCHANGED <<client, chans, tree_connect_requests, connected_trees, open_files,
                   session_latest_tree_connect_path, shutdown_requested,
                   shutdown_deferred, inPkt, todo, timerArmed, connClosed, server,
                   started, finished>>

register_open_request ==
    /\ ~connClosed /\ todo = <<>> /\ cont.kind = "register"
    /\ file_open_requests' = (cont.mid :> cont.entry) @@ file_open_requests
    /\ session_latest_create_request_filename' = cont.entry.filename
    /\ cont' = NoCont /\ inIdx' = inIdx + 1
    /\ UNCHANGED <<client, chans, tree_connect_requests, connected_trees, open_files,
                   session_latest_tree_connect_path, shutdown_requested,
                   shutdown_deferred, inPkt, todo, timerArmed, connClosed, server,
                   started, finished>>

\* QUERY_DIRECTORY: list the directory the handle names, on an intercepted
\* and known share, when get_filename finds a name for the handle.
UpdateState_QueryDirectory ==
    /\ Ready /\ CurrentMsg.cmd = "QUERY_DIRECTORY"
    /\ LET share == check_message_tid(CurrentMsg.tid, connected_trees)
           name  == get_filename(CurrentMsg.fid)
       IN  IF share \in {NOT_INTERCEPTED, UNKNOWN_SHARE} \/ name = NoValue THEN Pass
           ELSE Await(listdir(share, name, CurrentMsg.mid), [kind |-> "listdir"])
                /\ UNCHANGED inIdx
    /\ UNCHANGED <<client, chans, proxy, inPkt, timerArmed, connClosed, server, finished>>

listdir_done ==
    /\ ~connClosed /\ todo = <<>> /\ cont.kind = "listdir"
    /\ cont' = NoCont /\ inIdx' = inIdx + 1
    /\ UNCHANGED <<client, chans, proxy, inPkt, todo, timerArmed, connClosed, server,
                   started, finished>>

\* Mutation of set_disposition: the FileDispositionInformation is ignored
set_disposition_ignored(of, fid, disp) == of

\* FileDispositionInformation: 1 sets do_delete, 0 clears it
set_disposition(of, fid, disp) == [of EXCEPT ![fid].do_delete = disp]

\* SET_INFO FileDispositionInformation: record the delete disposition in
\* the handle's open_files entry (a KeyError is logged and ignored).
UpdateState_SetInfo ==
    /\ Ready /\ CurrentMsg.cmd = "SET_INFO"
    /\ LET m == CurrentMsg IN
       open_files' = IF check_message_tid(m.tid, connected_trees) # NOT_INTERCEPTED
                        /\ m.fid \in DOMAIN open_files
                     THEN set_disposition(open_files, m.fid, m.disp)
                     ELSE open_files
    /\ Pass
    /\ UNCHANGED <<client, chans, tree_connect_requests, connected_trees,
                   file_open_requests, session_latest_create_request_filename,
                   session_latest_tree_connect_path, shutdown_requested,
                   shutdown_deferred, inPkt, timerArmed, connClosed, server, finished>>

\* Mutation of close_actions: the delete is guarded by do_write
close_actions_delete_on_write(share, e, mid) ==
    (IF e.do_write THEN sync_back_file(share, e.filename, mid) ELSE <<>>)
    \o (IF e.do_write THEN delete_file(share, e.filename, mid) ELSE <<>>)

\* The CLOSE handler's chain: write back, then delete
close_actions(share, e, mid) ==
    (IF e.do_write THEN sync_back_file(share, e.filename, mid) ELSE <<>>)
    \o (IF e.do_delete THEN delete_file(share, e.filename, mid) ELSE <<>>)

\* CLOSE: sync back the file if it was opened for writing, then delete it
\* if it is to be deleted, then drop the handle and try to shut down.  A
\* handle missing from open_files is closed as '_' with neither flag.
UpdateState_Close ==
    /\ Ready /\ CurrentMsg.cmd = "CLOSE"
    /\ LET m     == CurrentMsg
           share == check_message_tid(m.tid, connected_trees)
           e     == IF m.fid \in DOMAIN open_files THEN open_files[m.fid]
                    ELSE [filename |-> MissingName, do_write |-> FALSE, do_delete |-> FALSE]
       IN  IF share = NOT_INTERCEPTED THEN Pass
           ELSE /\ Await(close_actions(share, e, m.mid), [kind |-> "close", fid |-> m.fid])
                /\ UNCHANGED inIdx
    /\ UNCHANGED <<client, chans, proxy, inPkt, timerArmed, connClosed, server, finished>>

\* Mutation of remove_handle_from_open_files: tryShutdown is not chained
remove_handle_no_try ==
    /\ ~connClosed /\ todo = <<>> /\ cont.kind = "close"
    /\ open_files' = Drop(open_files, cont.fid)
    /\ cont' = NoCont /\ inIdx' = inIdx + 1
    /\ UNCHANGED <<client, chans, tree_connect_requests, connected_trees,
                   file_open_requests, session_latest_create_request_filename,
                   session_latest_tree_connect_path, shutdown_requested,
                   shutdown_deferred, inPkt, todo, timerArmed, connClosed, server,
                   started, finished>>

remove_handle_from_open_files ==
    /\ ~connClosed /\ todo = <<>> /\ cont.kind = "close"
    /\ open_files' = Drop(open_files, cont.fid)
    /\ tryShutdown(Drop(open_files, cont.fid))
    /\ cont' = NoCont /\ inIdx' = inIdx + 1
    /\ UNCHANGED <<client, chans, tree_connect_requests, connected_trees,
                   file_open_requests, session_latest_create_request_filename,
                   session_latest_tree_connect_path, shutdown_requested, inPkt, todo,
                   timerArmed, server, started, finished>>

\* The running action's deferred fires; the next chained action starts.
ActionDone ==
    /\ ~connClosed /\ todo # <<>>
    /\ finished' = finished \cup {Head(todo)}
    /\ todo' = Tail(todo)
    /\ started' = IF Tail(todo) = <<>> THEN started ELSE started \cup {Head(Tail(todo))}
    /\ UNCHANGED <<client, chans, proxy, inPkt, inIdx, cont, timerArmed, connClosed, server>>

\* Every request handled: self.cli_queue.put(chunk)
ForwardPacket ==
    /\ ~connClosed /\ inPkt # <<>> /\ inIdx > Len(inPkt)
    /\ toServer' = Append(toServer, inPkt)
    /\ inPkt' = <<>> /\ inIdx' = 1
    /\ UNCHANGED <<client, toProxy, fromServer, proxy, todo, cont, timerArmed,
                   connClosed, server, started, finished>>


(***************************************************************************)
(* Outbound: clientDataReceived puts each response packet on the server    *)
(* queue, whose waiting callback runs process_server_pending_packet at     *)
(* once, and then writes the packet to the client: one atomic step.        *)
(***************************************************************************)
\* _updateState_SMB2_Response on one response.  st holds the tables it
\* updates.  The TREE_CONNECT response is bound whatever its status.
UpdateStateResponse(r, st) ==
    CASE r.cmd = "TREE_CONNECT" ->
           IF r.mid \in DOMAIN st.tcr
           THEN [st EXCEPT !.ct = (r.tid :> st.tcr[r.mid]) @@ @, !.tcr = Drop(@, r.mid)]
           ELSE st
      [] r.cmd = "CREATE" /\ check_message_tid(r.tid, st.ct) # NOT_INTERCEPTED ->
           IF r.ok
           THEN IF r.mid \in DOMAIN st.fors
                THEN [st EXCEPT !.of = (r.fid :> st.fors[r.mid]) @@ @, !.fors = Drop(@, r.mid)]
                ELSE st
           ELSE [st EXCEPT !.fors = Drop(@, r.mid)]
      [] OTHER -> st

RECURSIVE ResponseChain(_, _)
ResponseChain(pkt, st) ==
    IF pkt = <<>> THEN st ELSE ResponseChain(Tail(pkt), UpdateStateResponse(Head(pkt), st))

\* Mutation of no_pending_requests: file_open_requests is not looked at
no_pending_tree_connects ==
    DOMAIN tree_connect_requests = {}

\* onNMBSessionMessageResponse returns at once when no request is pending.
no_pending_requests ==
    DOMAIN tree_connect_requests = {} /\ DOMAIN file_open_requests = {}

ProcessServerPacket ==
    /\ ~connClosed /\ fromServer # <<>>
    /\ LET pkt  == Head(fromServer)
           st0  == [tcr |-> tree_connect_requests, ct |-> connected_trees,
                    fors |-> file_open_requests, of |-> open_files]
           st   == IF no_pending_requests THEN st0 ELSE ResponseChain(pkt, st0)
           \* what the client learns from the packet written to it
           trees   == {r.tid : r \in {q \in Range(pkt) : q.cmd = "TREE_CONNECT" /\ q.ok}}
           created == {q \in Range(pkt) : q.cmd = "CREATE" /\ q.ok /\ q.fid \in DOMAIN srvOpen}
       IN  /\ tree_connect_requests' = st.tcr
           /\ connected_trees' = st.ct
           /\ file_open_requests' = st.fors
           /\ open_files' = st.of
           /\ clientTrees' = clientTrees \cup trees
           /\ clientOpen' = clientOpen @@ [f \in {q.fid : q \in created} |->
                                            (CHOOSE q \in created : q.fid = f).tid]
    /\ fromServer' = Tail(fromServer)
    /\ UNCHANGED <<triedShares, nextMid, toProxy, toServer,
                   session_latest_create_request_filename,
                   session_latest_tree_connect_path, shutdown_requested,
                   shutdown_deferred, inbound, timerArmed, connClosed, server,
                   started, finished>>

(***************************************************************************)
(* The SMB server (Samba behind the proxy).  It serves a packet at once,   *)
(* resolving the related ids of a compound to the tree and the file of the *)
(* operation before, as SMB2 specifies.                                    *)
(***************************************************************************)
\* The rights for which a server grants write access to a handle
GrantsWrite(mask) ==
    mask \cap {"FILE_WRITE_DATA", "FILE_APPEND_DATA", "FILE_WRITE_ATTRIBUTES",
               "MAXIMUM_ALLOWED", "GENERIC_ALL", "GENERIC_WRITE"} # {}

SrvState == [trees |-> srvTrees, open |-> srvOpen, used |-> usedFids,
             closed |-> srvClosed, served |-> srvServed,
             tid |-> NoValue, fid |-> NoFid, resp |-> <<>>]
TidIn(r, st) == IF r.tid = RelatedTid THEN st.tid ELSE r.tid
FidIn(r, st) == IF r.fid = RelatedFid THEN st.fid ELSE r.fid

SrvTreeConnect(r, st) ==
    LET t == CHOOSE x \in TreeIds : x \notin DOMAIN st.trees
    IN  [st EXCEPT !.trees = @ @@ (t :> r.share), !.tid = t,
                   !.resp = Append(@, Response(r, t, TRUE, NoFid))]

\* A CREATE fails when ok is FALSE (no such file, sharing violation, ...)
SrvCreate(r, st, ok) ==
    LET t    == TidIn(r, st)
        free == FileIds \ st.used
        f    == CHOOSE x \in free : TRUE
    IN  IF ok /\ t \in DOMAIN st.trees /\ free # {}
        THEN [st EXCEPT
                !.open   = @ @@ (f :> [share |-> st.trees[t], name |-> r.name,
                                       write |-> GrantsWrite(r.mask),
                                       delete |-> r.delOnClose]),
                !.used   = @ \cup {f},
                !.served = @ \cup {[cmd |-> "CREATE", share |-> st.trees[t],
                                    name |-> r.name, mid |-> r.mid]},
                !.tid = t, !.fid = f,
                !.resp = Append(@, Response(r, t, TRUE, f))]
        ELSE [st EXCEPT !.tid = t, !.fid = NoFid,
                        !.resp = Append(@, Response(r, t, FALSE, NoFid))]

\* SET_INFO, CLOSE and QUERY_DIRECTORY on an open handle
SrvHandleOp(r, st, ok) ==
    LET t    == TidIn(r, st)
        f    == FidIn(r, st)
        h    == st.open[f]
        done == f \in DOMAIN st.open /\ (r.cmd # "SET_INFO" \/ ok \/ ~SetInfoMayFail)
        st1  == [st EXCEPT !.resp = Append(@, Response(r, t, done, f))]
    IN  IF ~done THEN st1
        ELSE CASE r.cmd = "SET_INFO" -> [st1 EXCEPT !.open[f].delete = r.disp]
               [] r.cmd = "CLOSE" ->
                    [st1 EXCEPT !.open = Drop(@, f),
                                !.closed = @ \cup {[share |-> h.share, name |-> h.name,
                                                    write |-> h.write, delete |-> h.delete,
                                                    mid |-> r.mid]}]
               [] r.cmd = "QUERY_DIRECTORY" ->
                    [st1 EXCEPT !.served = @ \cup {[cmd |-> r.cmd, share |-> h.share,
                                                     name |-> h.name, mid |-> r.mid]}]

ServeRequest(r, st, ok) ==
    CASE r.cmd = "TREE_CONNECT" -> SrvTreeConnect(r, st)
      [] r.cmd = "CREATE"       -> SrvCreate(r, st, ok)
      [] OTHER                  -> SrvHandleOp(r, st, ok)

RECURSIVE ServeChain(_, _, _)
ServeChain(pkt, st, oks) ==
    IF pkt = <<>> THEN st
    ELSE ServeChain(Tail(pkt), ServeRequest(Head(pkt), st, Head(oks)), Tail(oks))

ServerStep ==
    /\ ~connClosed /\ toServer # <<>>
    /\ \E oks \in [1..Len(Head(toServer)) -> BOOLEAN] :
          LET st == ServeChain(Head(toServer), SrvState, oks)
          IN  /\ srvTrees' = st.trees /\ srvOpen' = st.open /\ usedFids' = st.used
              /\ srvClosed' = st.closed /\ srvServed' = st.served
              /\ fromServer' = Append(fromServer, st.resp)
    /\ toServer' = Tail(toServer)
    /\ UNCHANGED <<client, toProxy, proxy, inbound, timerArmed, connClosed,
                   started, finished>>

(***************************************************************************)
(* The client: any sequence of requests on the trees and handles it has    *)
(* learnt, pipelined without waiting for responses.                        *)
(***************************************************************************)
Send(chain) ==
    /\ ~connClosed /\ nextMid + Len(chain) - 1 <= MaxMid
    /\ toProxy' = Append(toProxy, chain)
    /\ nextMid' = nextMid + Len(chain)

ClientTreeConnect ==
    /\ \E s \in Shares \ triedShares :
          Send(<<TreeConnectReq(nextMid, s)>>) /\ triedShares' = triedShares \cup {s}
    /\ UNCHANGED <<clientTrees, clientOpen, toServer, fromServer, proxy, inbound,
                   timerArmed, connClosed, server, started, finished>>

ClientCreate ==
    /\ \E t \in clientTrees, n \in Names, a \in AccessMasks, doc \in BOOLEAN,
          rc \in RelatedChains :
          Send(<<CreateReq(nextMid, t, n, a, doc)>>
               \o [i \in 1..Len(rc) |-> RelatedReq(rc[i], nextMid + i)])
    /\ UNCHANGED <<clientTrees, clientOpen, triedShares, toServer, fromServer, proxy,
                   inbound, timerArmed, connClosed, server, started, finished>>

ClientSetInfo ==
    /\ \E f \in DOMAIN clientOpen, d \in BOOLEAN :
          Send(<<SetInfoReq(nextMid, clientOpen[f], f, d)>>)
    /\ UNCHANGED <<clientTrees, clientOpen, triedShares, toServer, fromServer, proxy,
                   inbound, timerArmed, connClosed, server, started, finished>>

ClientQueryDirectory ==
    /\ \E f \in DOMAIN clientOpen :
          Send(<<HandleReq("QUERY_DIRECTORY", nextMid, clientOpen[f], f)>>)
    /\ UNCHANGED <<clientTrees, clientOpen, triedShares, toServer, fromServer, proxy,
                   inbound, timerArmed, connClosed, server, started, finished>>

ClientClose ==
    /\ \E f \in DOMAIN clientOpen :
          /\ Send(<<HandleReq("CLOSE", nextMid, clientOpen[f], f)>>)
          /\ clientOpen' = Drop(clientOpen, f)
    /\ UNCHANGED <<clientTrees, triedShares, toServer, fromServer, proxy,
                   inbound, timerArmed, connClosed, server, started, finished>>

(***************************************************************************)
(* Graceful shutdown (ProxyServerProtocol.shutdown, called for every       *)
(* client by the management SHUTDOWN command).                             *)
(***************************************************************************)
Shutdown ==
    /\ ~connClosed /\ ~shutdown_requested
    /\ shutdown_requested' = TRUE /\ shutdown_deferred' = TRUE /\ timerArmed' = TRUE
    /\ UNCHANGED <<client, chans, tree_connect_requests, connected_trees,
                   file_open_requests, open_files,
                   session_latest_create_request_filename,
                   session_latest_tree_connect_path, inbound, connClosed, server,
                   started, finished>>

\* reactor.callLater(1, self.tryShutdown) fires
ShutdownTimer ==
    /\ ~connClosed /\ timerArmed
    /\ timerArmed' = FALSE
    /\ tryShutdown(open_files)
    /\ UNCHANGED <<client, chans, tree_connect_requests, connected_trees,
                   file_open_requests, open_files,
                   session_latest_create_request_filename,
                   session_latest_tree_connect_path, shutdown_requested, inbound,
                   server, started, finished>>

Init ==
    /\ clientTrees = {} /\ clientOpen = EmptyFn /\ triedShares = {} /\ nextMid = 1
    /\ toProxy = <<>> /\ toServer = <<>> /\ fromServer = <<>>
    /\ tree_connect_requests = EmptyFn /\ connected_trees = EmptyFn
    /\ file_open_requests = EmptyFn /\ open_files = EmptyFn
    /\ session_latest_create_request_filename = NoValue
    /\ session_latest_tree_connect_path = NoValue
    /\ shutdown_requested = FALSE /\ shutdown_deferred = FALSE
    /\ inPkt = <<>> /\ inIdx = 1 /\ todo = <<>> /\ cont = NoCont
    /\ timerArmed = FALSE /\ connClosed = FALSE
    /\ srvTrees = EmptyFn /\ srvOpen = EmptyFn /\ usedFids = {}
    /\ srvClosed = {} /\ srvServed = {}
    /\ started = {} /\ finished = {}

ClientNext ==
    \/ ClientTreeConnect \/ ClientCreate \/ ClientSetInfo
    \/ ClientQueryDirectory \/ ClientClose

ProxyNext ==
    \/ ReceivePacket
    \/ UpdateState_TreeConnect \/ UpdateState_Create \/ UpdateState_QueryDirectory
    \/ UpdateState_SetInfo \/ UpdateState_Close
    \/ ActionDone \/ register_open_request \/ listdir_done
    \/ remove_handle_from_open_files \/ ForwardPacket
    \/ ProcessServerPacket \/ ShutdownTimer

Next == ClientNext \/ ProxyNext \/ ServerStep \/ Shutdown

\* The reactor runs every ready callback, cache actions complete (the HTTP
\* layer gives up after a bounded number of retries) and the server
\* answers; the client and the operator are not obliged to do anything.
Fairness == WF_vars(ProxyNext) /\ WF_vars(ServerStep)

Spec == Init /\ [][Next]_vars /\ Fairness


(***************************************************************************)
(* Properties                                                              *)
(***************************************************************************)
Entry == [filename : Names \cup {MissingName}, do_write : BOOLEAN, do_delete : BOOLEAN]
Action == [kind : ActionKinds, share : Shares \cup {UNKNOWN_SHARE}, name : Names,
           mid : 1..MaxMid]

TypeOK ==
    /\ clientTrees \subseteq TreeIds /\ triedShares \subseteq Shares
    /\ DOMAIN clientOpen \subseteq FileIds /\ nextMid \in 1..MaxMid + 1
    /\ DOMAIN tree_connect_requests \subseteq 1..MaxMid
    /\ Range(tree_connect_requests) \subseteq Shares
    /\ DOMAIN connected_trees \subseteq TreeIds /\ Range(connected_trees) \subseteq Shares
    /\ DOMAIN file_open_requests \subseteq 1..MaxMid
    /\ Range(file_open_requests) \subseteq Entry
    /\ DOMAIN open_files \subseteq FileIds /\ Range(open_files) \subseteq Entry
    /\ session_latest_create_request_filename \in Names \cup {NoValue}
    /\ session_latest_tree_connect_path \in Shares \cup {NoValue}
    /\ {shutdown_requested, shutdown_deferred, timerArmed, connClosed} \subseteq BOOLEAN
    /\ inIdx \in 1..MaxMid + 1
    /\ Range(todo) \subseteq Action /\ started \subseteq Action /\ finished \subseteq started
    /\ cont.kind \in {"none", "register", "listdir", "close"}
    /\ DOMAIN srvOpen \subseteq usedFids /\ usedFids \subseteq FileIds

\* The kind of cache action that must have completed before the server
\* serves a request of this command
Materialize(cmd) == IF cmd = "CREATE" THEN "SYNC" ELSE "LISTDIR"

\* Every file the SMB server opens, and every directory it lists, on an
\* intercepted share was first synced (CREATE) or listed (QUERY_DIRECTORY)
\* by an action of the same request that had completed: the proxy holds
\* the packet until the handler's deferred has fired.
ServedAfterMaterialized ==
    \A r \in srvServed :
        share_is_intercepted(r.share) /\ r.name # Srvsvc =>
            Act(Materialize(r.cmd), r.share, r.name, r.mid) \in finished

\* When the server closes a handle that has write access on an intercepted
\* share, the CLOSE that closed it had the file written back (SYNCBACK).
WriteBackBeforeClose ==
    \A c \in srvClosed :
        c.write /\ share_is_intercepted(c.share) /\ c.name # Srvsvc /\ ENABLE_WRITE_THROUGH =>
            Act("SYNCBACK", c.share, c.name, c.mid) \in finished

\* When the server deletes a file on close (delete-on-close or a delete
\* disposition), the CLOSE had the file deleted on the remote side too.
DeleteBeforeServerDelete ==
    \A c \in srvClosed :
        c.delete /\ share_is_intercepted(c.share) /\ c.name # Srvsvc /\ ENABLE_WRITE_THROUGH =>
            Act("DELETE", c.share, c.name, c.mid) \in finished

\* A CLOSE after which the server keeps the file never deleted it on the
\* remote side: the do_delete flag the proxy tracks from SET_INFO requests
\* agrees with the disposition the server applied.
NoSpuriousDelete ==
    \A c \in srvClosed : ~c.delete => \A s \in Shares \cup {UNKNOWN_SHARE} :
        Act("DELETE", s, c.name, c.mid) \notin started

\* Every handle the client holds on an intercepted share is in open_files
\* under its own name and write flag: each CREATE response was matched to
\* the request with the same message id.
HandleTracked ==
    \A f \in DOMAIN clientOpen :
        share_is_intercepted(srvOpen[f].share) =>
            /\ f \in DOMAIN open_files
            /\ open_files[f].filename = srvOpen[f].name
            /\ open_files[f].do_write = srvOpen[f].write

\* A graceful shutdown never closes the connection while a write-back or a
\* remote delete of a non-root file is in progress: tryShutdown waits for
\* the handle to leave open_files, which happens after those actions.
NoCloseDuringWriteBack ==
    connClosed =>
        \A a \in started \ finished : a.kind \in {"SYNCBACK", "DELETE"} => a.name = Root

\* Once a shutdown has been requested and, from some point on, the server
\* holds no handle of a non-root file on an intercepted share, the
\* connection is eventually closed.
NoTrackedHandleOpen ==
    \A f \in DOMAIN srvOpen : srvOpen[f].name = Root \/ ~share_is_intercepted(srvOpen[f].share)

ShutdownCompletes ==
    <>[](shutdown_requested /\ NoTrackedHandleOpen) => <>connClosed

=============================================================================
