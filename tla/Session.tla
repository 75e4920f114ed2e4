------------------------------ MODULE Session ------------------------------
(***************************************************************************)
(* One daemon and the peers that connect to its Unix socket, composed with *)
(* the Registry:                                                           *)
(*  - the server's accept loop and one handle_client task per connection   *)
(*    (crates/daemon/src/server.rs);                                       *)
(*  - application connections made by the preload library                  *)
(*    (crates/preload/src/lib.rs): inotify_init1 connects and registers,   *)
(*    inotify_add_watch / inotify_rm_watch send a request and read one     *)
(*    frame back, close drops the connection, and the application's own    *)
(*    read() takes frames off the same socket;                             *)
(*  - probe connections of the CLI (is_daemon_running), which connect and  *)
(*    drop the stream at once;                                             *)
(*  - the dispatcher's event frames, written on the same per-client writer *)
(*    as the responses (fan-out itself is detailed in Dispatcher).         *)
(* Each direction of a connection is a FIFO of whole frames: writers hold  *)
(* the per-client writer mutex for a whole write_all, so frames never      *)
(* interleave byte-wise.                                                   *)
(***************************************************************************)
EXTENDS Registry

CONSTANTS
  AppConns,    \* connections made by the preload library, one application thread each
  ProbeConns,  \* connect-and-drop connections of the CLI
  CliConns,    \* request connections of CLI commands (send_daemon_request)
  CliCmds,     \* the commands they run: a subset of status, stop, list, add
  Existing,    \* the Paths that exist on disk (handle_request checks path.exists())
  MaxCalls,    \* bound on the requests one application connection sends
  MaxEvents    \* bound on the event frames the dispatcher writes in a behaviour

Conns == AppConns \cup ProbeConns \cup CliConns

ASSUME /\ AppConns \cap ProbeConns = {} /\ CliConns \cap (AppConns \cup ProbeConns) = {}
       /\ CliCmds \subseteq {"status", "stop", "list", "add"}
       /\ Existing \subseteq Paths
       /\ MaxCalls \in Nat /\ MaxEvents \in Nat

VARIABLES
  listening,    \* the server has bound the socket
  initialized,  \* the preload library's ctor has run (INITIALIZED)
  managed,      \* MANAGED_FDS, with a connection standing for its fd
  conn,         \* Conns -> "none" | "open" | "closed": the client end of the socket
  up,           \* Conns -> Seq(request): frames written by the client, unread by the daemon
  down,         \* Conns -> Seq(frame): frames written by the daemon, unread by the client
  lib,          \* AppConns -> the preload library's state for that connection
  cli,          \* CliConns -> the CLI command on that connection
  hd,           \* Conns -> the handle_client task of that connection
  nEvents       \* event frames written so far

sessVars == <<listening, initialized, managed, conn, up, down, lib, cli, hd, nEvents>>
vars == <<regVars, sessVars>>

NoPath == <<"?">>   \* ghost path of a frame that answers no AddWatch

\* Response frames (message.rs Response) and event frames (an encoded
\* InotifyEvent).  path is a ghost: the path of the AddWatch a WatchAdded
\* answers; it is not on the wire.
Resp(t) == [type |-> t, wd |-> 0, path |-> NoPath]
WatchAdded(wd, p) == [type |-> "WatchAdded", wd |-> wd, path |-> p]
EventFrame(wd) == [type |-> "Event", wd |-> wd, path |-> NoPath]

Request(t, p, m, wd) == [type |-> t, path |-> p, mask |-> m, wd |-> wd]

\* What a library call returns: a descriptor (with the ghost path of the
\* frame it came from), 0, or -1 with errno.
Ret(k, v, p) == [kind |-> k, val |-> v, path |-> p]
Errno(e) == Ret("err", e, NoPath)

LibInit0 == [pc |-> "start", call |-> "none", path |-> NoPath,
             calls |-> 0, ret |-> Ret("none", 0, NoPath)]
CliInit0 == [pc |-> "start", cmd |-> "none", req |-> Request("Ping", NoPath, {}, 0),
             resp |-> Resp("none"), out |-> "none"]
HdInit0 == [pc |-> "none", cid |-> 0, resp |-> Resp("Pong")]

Init ==
  /\ RegInit
  /\ listening = FALSE
  /\ initialized = FALSE
  /\ managed = {}
  /\ conn = [k \in Conns |-> "none"]
  /\ up = [k \in Conns |-> <<>>]
  /\ down = [k \in Conns |-> <<>>]
  /\ lib = [k \in AppConns |-> LibInit0]
  /\ cli = [k \in CliConns |-> CliInit0]
  /\ hd = [k \in Conns |-> HdInit0]
  /\ nEvents = 0

-----------------------------------------------------------------------------
(* Daemon side.                                                            *)

\* Server::run binds the socket (after unlinking a stale one).
ServerBind ==
  /\ ~listening
  /\ listening' = TRUE
  /\ UNCHANGED <<regVars, initialized, managed, conn, up, down, lib, hd, cli, nEvents>>

\* The accept loop takes a connection the kernel completed and spawns
\* handle_client for it, whether or not the peer has closed since.
Accept(k) ==
  /\ listening
  /\ conn[k] # "none"
  /\ hd[k].pc = "none"
  /\ hd' = [hd EXCEPT ![k].pc = "spawned"]
  /\ UNCHANGED <<regVars, listening, initialized, managed, conn, up, down, lib, cli, nEvents>>

\* handle_client registers the client in the registry (server.rs: the
\* first statement of the task).
HandlerRegister(k) ==
  /\ hd[k].pc = "spawned"
  /\ register_client
  /\ hd' = [hd EXCEPT ![k].pc = "greet", ![k].cid = NewClientId]
  /\ UNCHANGED <<listening, initialized, managed, conn, up, down, lib, cli, nEvents>>

\* handle_client sends the unsolicited ClientRegistered.  If the peer has
\* already gone the write fails and the `?` returns from the task at once,
\* skipping the unregister_client at its end.
HandlerGreet(k) ==
  /\ hd[k].pc = "greet"
  /\ IF conn[k] = "closed"
     THEN /\ hd' = [hd EXCEPT ![k].pc = "done"]
          /\ UNCHANGED down
     ELSE /\ down' = [down EXCEPT ![k] = Append(@, Resp("ClientRegistered"))]
          /\ hd' = [hd EXCEPT ![k].pc = "loop"]
  /\ UNCHANGED <<regVars, listening, initialized, managed, conn, up, lib, cli, nEvents>>

\* handle_request, run on the request the read loop took: RegisterClient is
\* answered again, AddWatch of a missing path is an Error, otherwise
\* add_watch (always recursive) answers WatchAdded, and remove_watch
\* answers WatchRemoved or an Error for an unknown descriptor.
Answer(k, r) == hd' = [hd EXCEPT ![k].pc = "respond", ![k].resp = r]

handle_request(c, req) ==
  CASE req.type = "RegisterClient" ->
         UNCHANGED regVars /\ Answer(c.k, Resp("ClientRegistered"))
    [] req.type = "AddWatch" /\ req.path \notin Existing ->
         UNCHANGED regVars /\ Answer(c.k, Resp("Error"))
    [] req.type = "AddWatch" ->
         /\ add_watch(c.id, req.path, req.mask, TRUE)
         /\ Answer(c.k, WatchAdded(AddWatchResult(req.path), req.path))
    [] req.type = "RemoveWatch" ->
         /\ remove_watch(c.id, req.wd)
         /\ Answer(c.k, IF RemoveWatchFound(req.wd) THEN Resp("WatchRemoved") ELSE Resp("Error"))
    [] req.type = "Ping" ->
         UNCHANGED regVars /\ Answer(c.k, Resp("Pong"))

\* The read loop takes one whole request frame and handles it; the answer
\* is written by a later step, so event frames can be written in between.
HandlerRecv(k) ==
  /\ hd[k].pc = "loop"
  /\ up[k] # <<>>
  /\ up' = [up EXCEPT ![k] = Tail(@)]
  /\ handle_request([k |-> k, id |-> hd[k].cid], Head(up[k]))
  /\ UNCHANGED <<listening, initialized, managed, conn, down, lib, cli, nEvents>>

\* Mutant: the task ends after the loop without unregistering its client.
HandlerExit_no_unregister(k) ==
  /\ hd[k].pc = "exit"
  /\ UNCHANGED regVars
  /\ hd' = [hd EXCEPT ![k].pc = "done"]
  /\ UNCHANGED <<listening, initialized, managed, conn, up, down, lib, cli, nEvents>>

\* send_response: a failed write breaks out of the loop (to unregister).
HandlerRespond(k) ==
  /\ hd[k].pc = "respond"
  /\ IF conn[k] = "closed"
     THEN /\ hd' = [hd EXCEPT ![k].pc = "exit"]
          /\ UNCHANGED down
     ELSE /\ down' = [down EXCEPT ![k] = Append(@, hd[k].resp)]
          /\ hd' = [hd EXCEPT ![k].pc = "loop"]
  /\ UNCHANGED <<regVars, listening, initialized, managed, conn, up, lib, cli, nEvents>>

\* Mutant: end of stream is taken for "no data yet" and the loop reads again.
HandlerEOF_ignores_eof(k) ==
  /\ hd[k].pc = "loop"
  /\ up[k] = <<>>
  /\ conn[k] = "closed"
  /\ UNCHANGED <<regVars, listening, initialized, managed, conn, up, down, lib, hd, cli, nEvents>>

\* read_exact on the length prefix fails at end of stream: break.
HandlerEOF(k) ==
  /\ hd[k].pc = "loop"
  /\ up[k] = <<>>
  /\ conn[k] = "closed"
  /\ hd' = [hd EXCEPT ![k].pc = "exit"]
  /\ UNCHANGED <<regVars, listening, initialized, managed, conn, up, down, lib, cli, nEvents>>

\* After the loop: unregister_client, then the task ends.
HandlerExit(k) ==
  /\ hd[k].pc = "exit"
  /\ unregister_client(hd[k].cid)
  /\ hd' = [hd EXCEPT ![k].pc = "done"]
  /\ UNCHANGED <<listening, initialized, managed, conn, up, down, lib, cli, nEvents>>

\* An event the dispatcher fans out for watch wd: one frame is written to
\* every subscriber get_clients_for_watch returns whose peer is still
\* there (a failed write is only logged).
ConnOf(c) == {k \in Conns : hd[k].cid = c}

DispatchEvent ==
  /\ nEvents < MaxEvents
  /\ \E wd \in DOMAIN watches :
       LET targets == {k \in Conns : hd[k].cid \in Range(get_clients_for_watch(wd))
                                     /\ conn[k] = "open"}
       IN down' = [k \in Conns |-> IF k \in targets THEN Append(down[k], EventFrame(wd))
                                                     ELSE down[k]]
  /\ nEvents' = nEvents + 1
  /\ UNCHANGED <<regVars, listening, initialized, managed, conn, up, lib, cli, hd>>

-----------------------------------------------------------------------------
(* Client side: the preload library in one application thread.            *)

LibState(k, pc) == lib' = [lib EXCEPT ![k].pc = pc]

\* The ctor: resolve the real symbols, create the managed set, set INITIALIZED.
init ==
  /\ ~initialized
  /\ initialized' = TRUE
  /\ UNCHANGED <<regVars, listening, managed, conn, up, down, lib, hd, cli, nEvents>>

\* inotify_init / inotify_init1 enter inotify_init_impl: before the ctor has
\* run they go to the real inotify_init1, otherwise to connect_to_daemon.
inotify_init_impl(k) ==
  /\ lib[k].pc = "start"
  /\ LibState(k, IF initialized THEN "connecting" ELSE "kernel")
  /\ UNCHANGED <<regVars, listening, initialized, managed, conn, up, down, hd, cli, nEvents>>

\* connect_to_daemon succeeds once the socket is bound, and send_request
\* writes RegisterClient on the new stream.
LibConnect(k) ==
  /\ lib[k].pc = "connecting"
  /\ listening
  /\ conn' = [conn EXCEPT ![k] = "open"]
  /\ up' = [up EXCEPT ![k] = Append(@, Request("RegisterClient", NoPath, {}, 0))]
  /\ lib' = [lib EXCEPT ![k].pc = "awaitReg", ![k].calls = @ + 1]
  /\ UNCHANGED <<regVars, listening, initialized, managed, down, hd, cli, nEvents>>

\* connect_to_daemon gives up after its last attempt finds no socket, and
\* inotify_init_impl falls back to the real inotify_init1.
LibGiveUp(k) ==
  /\ lib[k].pc = "connecting"
  /\ ~listening
  /\ LibState(k, "kernel")
  /\ UNCHANGED <<regVars, listening, initialized, managed, conn, up, down, hd, cli, nEvents>>

\* send_request reads one frame as the registration answer.  On
\* ClientRegistered the flags are applied, the fd joins MANAGED_FDS and the
\* stream is leaked to the application; any other answer is -1/EIO and the
\* stream is dropped, closing the connection.
LibRecvReg(k) ==
  /\ lib[k].pc = "awaitReg"
  /\ down[k] # <<>>
  /\ down' = [down EXCEPT ![k] = Tail(@)]
  /\ IF Head(down[k]).type = "ClientRegistered"
     THEN /\ managed' = managed \cup {k}
          /\ LibState(k, "idle")
          /\ UNCHANGED conn
     ELSE /\ conn' = [conn EXCEPT ![k] = "closed"]
          /\ LibState(k, "failed")
          /\ UNCHANGED managed
  /\ UNCHANGED <<regVars, listening, initialized, up, hd, cli, nEvents>>

\* The read of the registration answer fails (30 s read timeout, or end of
\* stream): send_request returns None, inotify_init_impl returns -1/EIO and
\* drops the stream.
LibRecvRegFail(k) ==
  /\ lib[k].pc = "awaitReg"
  /\ down[k] = <<>>
  /\ conn' = [conn EXCEPT ![k] = "closed"]
  /\ LibState(k, "failed")
  /\ UNCHANGED <<regVars, listening, initialized, managed, up, down, hd, cli, nEvents>>

\* inotify_add_watch on a managed fd: send_request writes AddWatch.
inotify_add_watch(k) ==
  /\ lib[k].pc = "idle"
  /\ k \in managed
  /\ lib[k].calls < MaxCalls
  /\ \E p \in Paths, m \in SUBSET Events :
       /\ up' = [up EXCEPT ![k] = Append(@, Request("AddWatch", p, m, 0))]
       /\ lib' = [lib EXCEPT ![k].pc = "await", ![k].call = "add", ![k].path = p,
                             ![k].calls = @ + 1]
  /\ UNCHANGED <<regVars, listening, initialized, managed, conn, down, hd, cli, nEvents>>

\* inotify_rm_watch on a managed fd: send_request writes RemoveWatch.
inotify_rm_watch(k) ==
  /\ lib[k].pc = "idle"
  /\ k \in managed
  /\ lib[k].calls < MaxCalls
  /\ \E wd \in WatchDescriptor :
       /\ up' = [up EXCEPT ![k] = Append(@, Request("RemoveWatch", NoPath, {}, wd))]
       /\ lib' = [lib EXCEPT ![k].pc = "await", ![k].call = "rm", ![k].path = NoPath,
                             ![k].calls = @ + 1]
  /\ UNCHANGED <<regVars, listening, initialized, managed, conn, down, hd, cli, nEvents>>

\* Response::from_bytes (bincode) applied to a frame.  A response frame
\* decodes to itself.  An event frame's payload is an InotifyEvent whose
\* first four bytes, the wd, bincode reads as the little-endian variant
\* index of Response: 0 ClientRegistered, 1 WatchAdded (whose wd field is
\* then the event's mask), 2 WatchRemoved, 4 Pong; 3 (Error) takes the
\* cookie and len fields as a string length, which for an event with a
\* name is beyond the payload, and larger values are no variant at all.
BincodeAsResponse(f) ==
  IF f.type # "Event" THEN f
  ELSE CASE f.wd = 0 -> Resp("ClientRegistered")
         [] f.wd = 1 -> WatchAdded("mask", NoPath)
         [] f.wd = 2 -> Resp("WatchRemoved")
         [] f.wd = 4 -> Resp("Pong")
         [] OTHER    -> Resp("Undecodable")

\* The value an interposed call returns for the response it decoded.
CallResult(call, r) ==
  CASE call = "add" /\ r.type = "WatchAdded"   -> Ret("wd", r.wd, r.path)
    [] call = "rm"  /\ r.type = "WatchRemoved" -> Ret("ok", 0, NoPath)
    [] r.type = "Error"                         -> Errno("EINVAL")
    [] OTHER                                    -> Errno("EIO")

\* send_request reads the next whole frame off the socket as the answer.
LibRecvResp(k) ==
  /\ lib[k].pc = "await"
  /\ down[k] # <<>>
  /\ down' = [down EXCEPT ![k] = Tail(@)]
  /\ lib' = [lib EXCEPT ![k].pc = "idle",
                        ![k].ret = CallResult(lib[k].call, BincodeAsResponse(Head(down[k])))]
  /\ UNCHANGED <<regVars, listening, initialized, managed, conn, up, hd, cli, nEvents>>

\* The read finds nothing: WouldBlock at once if inotify_init1 set
\* O_NONBLOCK on the socket, the 30 s read timeout otherwise, or end of
\* stream; the call returns -1/EIO and the stream stays open.
LibRecvRespFail(k) ==
  /\ lib[k].pc = "await"
  /\ down[k] = <<>>
  /\ lib' = [lib EXCEPT ![k].pc = "idle", ![k].ret = Errno("EIO")]
  /\ UNCHANGED <<regVars, listening, initialized, managed, conn, up, down, hd, cli, nEvents>>

\* The application's own read() on the fd, which the library does not
\* interpose: it takes the next frame off the socket.
AppRead(k) ==
  /\ lib[k].pc = "idle"
  /\ down[k] # <<>>
  /\ down' = [down EXCEPT ![k] = Tail(@)]
  /\ UNCHANGED <<regVars, listening, initialized, managed, conn, up, lib, hd, cli, nEvents>>

\* close on a managed fd: unregister it, then the real close ends the
\* connection (no message; the daemon sees end of stream).
close(k) ==
  /\ lib[k].pc = "idle"
  /\ managed' = managed \ {k}
  /\ conn' = [conn EXCEPT ![k] = "closed"]
  /\ LibState(k, "closed")
  /\ UNCHANGED <<regVars, listening, initialized, up, down, hd, cli, nEvents>>

-----------------------------------------------------------------------------
(* Client side: is_daemon_running in the CLI connects and drops.           *)

is_daemon_running_connect(k) ==
  /\ conn[k] = "none"
  /\ listening
  /\ conn' = [conn EXCEPT ![k] = "open"]
  /\ UNCHANGED <<regVars, listening, initialized, managed, up, down, lib, hd, cli, nEvents>>

is_daemon_running_drop(k) ==
  /\ conn[k] = "open"
  /\ conn' = [conn EXCEPT ![k] = "closed"]
  /\ UNCHANGED <<regVars, listening, initialized, managed, up, down, lib, hd, cli, nEvents>>

-----------------------------------------------------------------------------
(* Client side: a CLI command's send_daemon_request (server.rs) and the    *)
(* main.rs cmd_* function that judges its answer.  The command's own       *)
(* is_daemon_running probe before it is a probe connection.                *)

send_daemon_request_connect(k) ==
  /\ cli[k].pc = "start"
  /\ listening
  /\ conn' = [conn EXCEPT ![k] = "open"]
  /\ \E cmd \in CliCmds : cli' = [cli EXCEPT ![k].pc = "greeting", ![k].cmd = cmd]
  /\ UNCHANGED <<regVars, listening, initialized, managed, up, down, lib, hd, nEvents>>

\* status, stop and list send Ping; add sends AddWatch of the canonicalized
\* path (canonicalize fails first for a missing one) with IN_ALL_EVENTS.
CmdRequest(cmd, p) ==
  IF cmd = "add" THEN Request("AddWatch", p, Events, 0) ELSE Request("Ping", NoPath, {}, 0)

\* Mutant: the request is written without first reading the greeting.
CliSendRequest_skips_greeting(k) ==
  /\ cli[k].pc = "greeting"
  /\ \E p \in Existing :
       /\ up' = [up EXCEPT ![k] = Append(@, CmdRequest(cli[k].cmd, p))]
       /\ cli' = [cli EXCEPT ![k].pc = "await", ![k].req = CmdRequest(cli[k].cmd, p)]
  /\ UNCHANGED <<regVars, listening, initialized, managed, conn, down, lib, hd, nEvents>>

\* Read the ClientRegistered greeting (read_exact, from_bytes), then
\* write_all the framed request.
CliSendRequest(k) ==
  /\ cli[k].pc = "greeting"
  /\ down[k] # <<>>
  /\ down' = [down EXCEPT ![k] = Tail(@)]
  /\ \E p \in Existing :
       /\ up' = [up EXCEPT ![k] = Append(@, CmdRequest(cli[k].cmd, p))]
       /\ cli' = [cli EXCEPT ![k].pc = "await", ![k].req = CmdRequest(cli[k].cmd, p)]
  /\ UNCHANGED <<regVars, listening, initialized, managed, conn, lib, hd, nEvents>>

\* What the command makes of the decoded answer: a decode error is the
\* Err arm; cmd_stop reports "running" for any answer; status and list
\* want Pong, add wants WatchAdded (Error is a failure); anything else is
\* "Unexpected response".
CmdOutcome(cmd, r) ==
  CASE r.type = "Undecodable"                    -> "failed"
    [] cmd = "stop"                              -> "running"
    [] cmd \in {"status", "list"} /\ r.type = "Pong" -> "running"
    [] cmd = "add" /\ r.type = "WatchAdded"      -> "added"
    [] cmd = "add" /\ r.type = "Error"           -> "failed"
    [] OTHER                                     -> "unexpected"

\* read_exact of the next whole frame, Response::from_bytes, and the
\* stream is dropped when send_daemon_request returns.
CliRecvResponse(k) ==
  /\ cli[k].pc = "await"
  /\ down[k] # <<>>
  /\ down' = [down EXCEPT ![k] = Tail(@)]
  /\ conn' = [conn EXCEPT ![k] = "closed"]
  /\ LET r == BincodeAsResponse(Head(down[k]))
     IN cli' = [cli EXCEPT ![k].pc = "done", ![k].resp = r,
                           ![k].out = CmdOutcome(cli[k].cmd, r)]
  /\ UNCHANGED <<regVars, listening, initialized, managed, up, lib, hd, nEvents>>

-----------------------------------------------------------------------------
Handler(k) ==
  \/ Accept(k) \/ HandlerRegister(k) \/ HandlerGreet(k) \/ HandlerRecv(k)
  \/ HandlerRespond(k) \/ HandlerEOF(k) \/ HandlerExit(k)

Library(k) ==
  \/ inotify_init_impl(k) \/ LibConnect(k) \/ LibGiveUp(k) \/ LibRecvReg(k)
  \/ LibRecvRegFail(k) \/ inotify_add_watch(k) \/ inotify_rm_watch(k)
  \/ LibRecvResp(k) \/ LibRecvRespFail(k) \/ AppRead(k) \/ close(k)

Probe(k) == is_daemon_running_connect(k) \/ is_daemon_running_drop(k)

Cli(k) == send_daemon_request_connect(k) \/ CliSendRequest(k) \/ CliRecvResponse(k)

\* Every peer of the model has finished and every task has ended; the
\* daemon then waits in accept() forever.
Finished ==
  /\ \A k \in AppConns : lib[k].pc \in {"kernel", "failed", "closed"}
  /\ \A k \in ProbeConns : conn[k] = "closed"
  /\ \A k \in CliConns : cli[k].pc = "done"
  /\ \A k \in Conns : hd[k].pc \in {"none", "done"}
  /\ UNCHANGED vars

Next ==
  \/ ServerBind \/ init \/ DispatchEvent
  \/ \E k \in Conns : Handler(k)
  \/ \E k \in AppConns : Library(k)
  \/ \E k \in ProbeConns : Probe(k)
  \/ \E k \in CliConns : Cli(k)
  \/ Finished

\* tokio runs every task that can make progress: the accept loop and each
\* handle_client task.  Peers get no fairness: an application may stop
\* calling at any point.
Fairness == \A k \in Conns : WF_vars(Handler(k))

Spec == Init /\ [][Next]_vars /\ Fairness

-----------------------------------------------------------------------------
TypeOK ==
  /\ RegTypeOK
  /\ conn \in [Conns -> {"none", "open", "closed"}]
  /\ managed \subseteq AppConns
  /\ \A k \in AppConns : lib[k].pc \in {"start", "connecting", "awaitReg", "idle",
                                        "await", "kernel", "failed", "closed"}
  /\ \A k \in Conns : hd[k].pc \in {"none", "spawned", "greet", "loop", "respond",
                                    "exit", "done"}
  /\ nEvents \in 0..MaxEvents

\* A task is live from registration until it has unregistered.
Live(k) == hd[k].pc \in {"greet", "loop", "respond", "exit"}

\* Subscriptions belong to live connections: every subscriber of a watch is
\* the client of a handle_client task that has not yet unregistered it, so
\* that a closed connection's watches are torn down (server.rs loop exit).
SubscribersAreLive ==
  \A wd \in DOMAIN watches : \A c \in Range(watches[wd].clients) :
    \E k \in Conns : hd[k].cid = c /\ Live(k)

\* A connection the peer closed eventually holds no subscription: the
\* daemon notices end of stream, or a failed write, and unregisters the
\* client, and any watch left without subscribers goes away.
ClosedConnectionReleasesWatches ==
  \A k \in Conns :
    conn[k] = "closed" ~>
      (hd[k].cid = 0 \/ \A wd \in DOMAIN watches : hd[k].cid \notin Range(watches[wd].clients))

\* spec.md 4.8: inotify_add_watch returns the descriptor the daemon gave
\* the watch of the path it was called with (or -1).  The descriptor it
\* returns comes from the frame it read: that must be the WatchAdded
\* answering this very AddWatch.
AddWatchReturnsOwnWd ==
  \A k \in AppConns :
    lib[k].pc = "idle" /\ lib[k].call = "add" /\ lib[k].ret.kind = "wd"
      => lib[k].ret.path = lib[k].path

\* spec.md 3 (Client lifecycle): a client is destroyed when the peer closes
\* the stream; a handle_client task that has ended leaves no client behind.
NoLeakedClient ==
  \A k \in Conns : hd[k].pc = "done" => hd[k].cid \notin DOMAIN clients

\* spec.md 4.8 and 7: when inotify_init cannot register with the daemon it
\* falls back to the real implementation; it never fails with EIO itself.
InitFallsBack ==
  \A k \in AppConns : lib[k].pc # "failed"

\* A CLI command that reports success judged the answer to its own request,
\* not the greeting that precedes it (server.rs send_daemon_request reads
\* the greeting frame first): status sees the Pong of its Ping.  The pass
\* configuration runs the Ping commands only (status, stop), whose stream
\* carries no event frames; with add, an event for the new watch can come
\* first, and this formula fails (MCSession_CliGetsOwnAnswer.cfg).
CliGetsOwnAnswer ==
  \A k \in CliConns :
    cli[k].out \in {"running", "added"} =>
      IF cli[k].req.type = "Ping" THEN cli[k].resp.type = "Pong"
      ELSE cli[k].resp.type = "WatchAdded" /\ cli[k].resp.path = cli[k].req.path

\* spec.md 6 (CLI surface) and cli.rs: `add PATH` adds a watch at runtime; once it has
\* reported "Watch added", the path stays watched.
AddedWatchPersists ==
  \A k \in CliConns : cli[k].out = "added" => cli[k].req.path \in DOMAIN path_to_wd

=============================================================================
