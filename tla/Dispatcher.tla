----------------------------- MODULE Dispatcher -----------------------------
(***************************************************************************)
(* The daemon's event path, composed with the Registry:                   *)
(*  - the poll adapter (crates/daemon/src/watcher.rs WatcherManager):      *)
(*    the PollWatcher callback sends one WatcherEvent per changed path on  *)
(*    an unbounded channel, for the paths of the config file's watches     *)
(*    only (start_watcher is the one caller of WatcherManager::add_watch); *)
(*  - the EventDispatcher task: handle_event attributes each event to a    *)
(*    watch, classifies and filters it, assigns the rename cookie, names   *)
(*    it relative to the watch root, and writes one framed record to every *)
(*    subscriber in turn, awaiting each write;                             *)
(*  - the subscribers: each client's socket buffer, bounded by the kernel, *)
(*    and the application reading it; handle_client tasks, on other        *)
(*    runtime threads, register, subscribe, unsubscribe and disconnect.    *)
(* The registry is locked only inside each DaemonState method, so the      *)
(* registry can change between find_watch_for_path and                     *)
(* get_clients_for_watch, and between two writes of one fan-out.           *)
(***************************************************************************)
EXTENDS Registry

CONSTANTS
  ConfigWatches,  \* the config file's [watch] entries: [path, recursive]
  Kinds,          \* the raw event kinds the polling engine reports
  Existing,       \* paths for which handle_request's path.exists() holds
  Readers,        \* client ids whose application keeps reading its socket
  SockCap,        \* frames a client socket buffers before a write blocks
  MaxChanges,     \* bound on the file system changes of a behaviour
  CookieBits,     \* width of COOKIE_COUNTER (an AtomicU32)
  CharCode        \* path component -> its byte

ASSUME /\ ConfigWatches \subseteq [path : Paths, recursive : BOOLEAN]
       /\ Existing \subseteq Paths /\ Readers \subseteq ClientId
       /\ SockCap \in Nat \ {0} /\ MaxChanges \in Nat /\ CookieBits \in Nat \ {0}

VARIABLES
  changed,          \* file system changes the poller has not observed yet
  rawq,             \* the unbounded WatcherEvent channel
  pending_renames,  \* EventDispatcher.pending_renames: path -> cookie
  cookie_counter,   \* COOKIE_COUNTER
  disp,             \* the dispatcher task: where handle_event is
  sock,             \* ClientId -> Seq(record): frames written, not yet read
  delivered,        \* ClientId -> Seq(record): every frame written (history)
  peerClosed,       \* clients whose peer has closed its end
  nChanges,         \* changes made so far
  nSeen             \* raw events the poller has sent so far

dispVars == <<changed, rawq, pending_renames, cookie_counter, disp, sock,
              delivered, peerClosed, nChanges, nSeen>>
vars == <<regVars, dispVars>>

\* The protocol crate's encoders (event.rs, message.rs).
Codec == INSTANCE EventRecord

-----------------------------------------------------------------------------
(* Event masks, as sets of EventMask bit names.                            *)

IN_ALL_EVENTS == {"IN_ACCESS", "IN_MODIFY", "IN_ATTRIB", "IN_CLOSE_WRITE",
                  "IN_CLOSE_NOWRITE", "IN_OPEN", "IN_MOVED_FROM", "IN_MOVED_TO",
                  "IN_CREATE", "IN_DELETE", "IN_DELETE_SELF", "IN_MOVE_SELF"}
IN_MOVE == {"IN_MOVED_FROM", "IN_MOVED_TO"}

\* notify_to_inotify_mask; {} stands for None (Other), returned before
\* IN_ISDIR is OR-ed in.
BaseMask(kind) ==
  CASE kind = "Create"     -> {"IN_CREATE"}
    [] kind = "ModifyData" -> {"IN_MODIFY"}
    [] kind = "ModifyMeta" -> {"IN_ATTRIB"}
    [] kind = "RenameFrom" -> {"IN_MOVED_FROM"}
    [] kind = "RenameTo"   -> {"IN_MOVED_TO"}
    [] kind = "RenameBoth" -> IN_MOVE
    [] kind = "RenameAny"  -> IN_MOVE
    [] kind = "Remove"     -> {"IN_DELETE"}
    [] kind = "Access"     -> {"IN_ACCESS"}
    [] kind = "Any"        -> IN_ALL_EVENTS
    [] OTHER               -> {}
notify_to_inotify_mask(kind, is_dir) ==
  IF BaseMask(kind) # {} /\ is_dir THEN BaseMask(kind) \cup {"IN_ISDIR"} ELSE BaseMask(kind)

-----------------------------------------------------------------------------
(* A change is [path, kind, rid]: rid > 0 ties the two halves of a rename  *)
(* (from the old path, to the new one) that the engine reports in order.   *)
(* A raw event adds seq, the order in which the poller observed it, and  *)
(* is_dir, path.is_dir() as the callback runs: the file system is not     *)
(* modelled, so it may be either.                                         *)

NoRecord == [wd |-> 0, mask |-> {}, cookie |-> 0, name |-> <<>>, len |-> 0,
             seq |-> 0, rid |-> 0, path |-> <<>>]
DispInit0 == [pc |-> "idle", rec |-> NoRecord, targets |-> <<>>]

Init ==
  /\ RegInit
  /\ changed = {}
  /\ rawq = <<>>
  /\ pending_renames = <<>>
  /\ cookie_counter = 1
  /\ disp = DispInit0
  /\ sock = [c \in ClientId |-> <<>>]
  /\ delivered = [c \in ClientId |-> <<>>]
  /\ peerClosed = {}
  /\ nChanges = 0
  /\ nSeen = 0

\* A path the PollWatcher watches: a config path itself, or a path below
\* a recursive one.
Polled(p) == \E w \in ConfigWatches :
               w.path = p \/ (w.recursive /\ IsStrictPrefix(w.path, p))

-----------------------------------------------------------------------------
(* The file system and the poll adapter.                                  *)

FsChange ==
  /\ nChanges < MaxChanges
  /\ \E p \in Paths, k \in Kinds \ {"RenameFrom", "RenameTo"} :
       changed' = changed \cup {<<[path |-> p, kind |-> k, rid |-> 0]>>}
  /\ nChanges' = nChanges + 1
  /\ UNCHANGED <<regVars, rawq, pending_renames, cookie_counter, disp, sock,
                 delivered, peerClosed, nSeen>>

FsRename ==
  /\ nChanges < MaxChanges
  /\ {"RenameFrom", "RenameTo"} \subseteq Kinds
  /\ \E from, to \in Paths :
       /\ from # to
       /\ changed' = changed \cup {<<[path |-> from, kind |-> "RenameFrom", rid |-> nChanges + 1],
                                     [path |-> to, kind |-> "RenameTo", rid |-> nChanges + 1]>>}
  /\ nChanges' = nChanges + 1
  /\ UNCHANGED <<regVars, rawq, pending_renames, cookie_counter, disp, sock,
                 delivered, peerClosed, nSeen>>

\* The PollWatcher callback, for one observed change: one WatcherEvent per
\* path of the notify event, for the paths the PollWatcher watches, each
\* with is_dir read from the file system as the callback runs.
Observed(ch) == SelectSeq(ch, LAMBDA e : Polled(e.path))

poll_callback ==
  \E ch \in changed :
    /\ Observed(ch) # <<>>
    /\ changed' = changed \ {ch}
    /\ \E is_dir \in [1..Len(Observed(ch)) -> BOOLEAN] :
         rawq' = rawq \o [i \in 1..Len(Observed(ch)) |->
                            Observed(ch)[i] @@ [seq |-> nSeen + i, is_dir |-> is_dir[i]]]
    /\ nSeen' = nSeen + Len(Observed(ch))
    /\ UNCHANGED <<regVars, pending_renames, cookie_counter, disp, sock, delivered,
                   peerClosed, nChanges>>

-----------------------------------------------------------------------------
(* EventDispatcher::handle_event.                                          *)

next_cookie == cookie_counter
NextCookie == (cookie_counter + 1) % (2^CookieBits)   \* fetch_add wraps

\* The rename cookie step: a MOVED_FROM stashes a fresh cookie under the
\* event's path; a MOVED_TO takes the one stashed under its own path, or a
\* fresh one.  Result: [cookie, pending, counter].
Cookie(mask, path) ==
  IF "IN_MOVED_FROM" \in mask
  THEN [cookie |-> next_cookie, pending |-> (path :> next_cookie) @@ pending_renames,
        counter |-> NextCookie]
  ELSE IF "IN_MOVED_TO" \in mask
  THEN IF path \in DOMAIN pending_renames
       THEN [cookie |-> pending_renames[path], pending |-> DropKey(pending_renames, path),
             counter |-> cookie_counter]
       ELSE [cookie |-> next_cookie, pending |-> pending_renames, counter |-> NextCookie]
  ELSE [cookie |-> 0, pending |-> pending_renames, counter |-> cookie_counter]

\* strip_prefix of the event path by the watch path, and the len field
\* to_bytes_with_name writes for it: the name, its NUL, padded to 4 bytes.
RelativeName(path, root) == SubSeq(path, Len(root) + 1, Len(path))
RecordLen(name) == Codec!PaddedLen(Len(Codec!NameBytes(name)))

\* The record's bytes: InotifyEvent::new(wd, mask.bits(), cookie), then
\* to_bytes_with_name of the name's UTF-8 bytes, then FramedMessage::frame.
Framed(rec) ==
  Codec!frame(Codec!to_bytes_with_name(Codec!InotifyEvent_new(rec.wd, Codec!bits(rec.mask),
                                                              rec.cookie),
                                       Codec!NameBytes(rec.name)))

\* handle_event up to the fan-out: take the next event off the channel,
\* attribute it with find_watch_for_path, classify and filter it (each an
\* early return), take its cookie and encode the record.
DispatchAttribute ==
  /\ disp.pc = "idle"
  /\ rawq # <<>>
  /\ rawq' = Tail(rawq)
  /\ LET ev == Head(rawq)
         watch == find_watch_for_path(ev.path)
         mask == notify_to_inotify_mask(ev.kind, ev.is_dir)
         ck == Cookie(mask, ev.path)
     IN IF watch.wd = 0 \/ mask = {} \/ watch.mask \cap mask = {}
        THEN UNCHANGED <<disp, pending_renames, cookie_counter>>
        ELSE /\ pending_renames' = ck.pending
             /\ cookie_counter' = ck.counter
             /\ disp' = [pc |-> "attributed", targets |-> <<>>,
                         rec |-> [wd |-> watch.wd, mask |-> mask, cookie |-> ck.cookie,
                                  name |-> RelativeName(ev.path, watch.path),
                                  len |-> RecordLen(RelativeName(ev.path, watch.path)),
                                  seq |-> ev.seq, rid |-> ev.rid, path |-> ev.path]]
  /\ UNCHANGED <<regVars, changed, sock, delivered, peerClosed, nChanges, nSeen>>

\* get_clients_for_watch on the descriptor of the snapshot taken above.
DispatchTargets ==
  /\ disp.pc = "attributed"
  /\ disp' = [disp EXCEPT !.pc = "send", !.targets = get_clients_for_watch(disp.rec.wd)]
  /\ UNCHANGED <<regVars, changed, rawq, pending_renames, cookie_counter, sock,
                 delivered, peerClosed, nChanges, nSeen>>

\* Mutant: a failed write is retried, for ever, instead of logged and skipped.
DispatchSend_retries(c) ==
  /\ disp.pc = "send"
  /\ disp.targets # <<>>
  /\ c = Head(disp.targets)
  /\ IF c \in peerClosed
     THEN UNCHANGED vars
     ELSE /\ Len(sock[c]) < SockCap
          /\ sock' = [sock EXCEPT ![c] = Append(@, disp.rec)]
          /\ delivered' = [delivered EXCEPT ![c] = Append(@, disp.rec)]
          /\ disp' = [disp EXCEPT !.targets = Tail(@)]
          /\ UNCHANGED <<regVars, changed, rawq, pending_renames, cookie_counter, peerClosed,
                         nChanges, nSeen>>

\* One iteration of the fan-out loop: client.send_event(&framed).await for
\* the next subscriber.  The write completes once the socket has room
\* (until then the dispatcher waits here); a write to a closed peer fails
\* at once and is only logged.
DispatchSend(c) ==
  /\ disp.pc = "send"
  /\ disp.targets # <<>>
  /\ c = Head(disp.targets)
  /\ IF c \in peerClosed
     THEN UNCHANGED <<sock, delivered>>
     ELSE /\ Len(sock[c]) < SockCap
          /\ sock' = [sock EXCEPT ![c] = Append(@, disp.rec)]
          /\ delivered' = [delivered EXCEPT ![c] = Append(@, disp.rec)]
  /\ disp' = [disp EXCEPT !.targets = Tail(@)]
  /\ UNCHANGED <<regVars, changed, rawq, pending_renames, cookie_counter, peerClosed,
                 nChanges, nSeen>>

\* The fan-out loop ends; run() awaits the next event.
DispatchDone ==
  /\ disp.pc = "send"
  /\ disp.targets = <<>>
  /\ disp' = DispInit0
  /\ UNCHANGED <<regVars, changed, rawq, pending_renames, cookie_counter, sock,
                 delivered, peerClosed, nChanges, nSeen>>

-----------------------------------------------------------------------------
(* Subscribers: handle_client tasks calling the registry, and the         *)
(* application reading its socket.                                        *)

Connect ==
  /\ register_client
  /\ UNCHANGED dispVars

\* AddWatch of an existing path (handle_request), always recursive.
Subscribe(c) ==
  /\ c \in DOMAIN clients
  /\ Len(clients[c]) < MaxListLen
  /\ \E p \in Existing, m \in SUBSET Events : add_watch(c, p, m, TRUE)
  /\ UNCHANGED dispVars

Unsubscribe_(c) ==
  /\ c \in DOMAIN clients
  /\ \E wd \in WatchDescriptor : remove_watch(c, wd)
  /\ UNCHANGED dispVars

\* The application closes the connection; its handle_client task sees end
\* of stream and unregisters the client.  Unread frames are discarded.
Disconnect(c) ==
  /\ c \in DOMAIN clients
  /\ peerClosed' = peerClosed \cup {c}
  /\ sock' = [sock EXCEPT ![c] = <<>>]
  /\ unregister_client(c)
  /\ UNCHANGED <<changed, rawq, pending_renames, cookie_counter, disp, delivered,
                 nChanges, nSeen>>

AppRead(c) ==
  /\ sock[c] # <<>>
  /\ sock' = [sock EXCEPT ![c] = Tail(@)]
  /\ UNCHANGED <<regVars, changed, rawq, pending_renames, cookie_counter, disp,
                 delivered, peerClosed, nChanges, nSeen>>

-----------------------------------------------------------------------------
Dispatch ==
  \/ DispatchAttribute \/ DispatchTargets \/ DispatchDone
  \/ \E c \in ClientId : DispatchSend(c)

\* The environment of the model is spent (every change made, every client
\* id used and gone) and the daemon has nothing left to do; it waits for
\* events for ever.
Finished ==
  /\ nChanges = MaxChanges /\ next_client_id > MaxClientId /\ DOMAIN clients = {}
  /\ \A ch \in changed : Observed(ch) = <<>>
  /\ rawq = <<>> /\ disp.pc = "idle"
  /\ UNCHANGED vars

Next ==
  \/ Finished
  \/ FsChange \/ FsRename \/ poll_callback \/ Dispatch
  \/ Connect
  \/ \E c \in ClientId : Subscribe(c) \/ Unsubscribe_(c) \/ Disconnect(c) \/ AppRead(c)

\* The dispatcher task and the PollWatcher thread run whenever they can
\* (tokio schedules a ready task; the poller wakes every interval).  Of the
\* applications only the Readers keep reading.
Fairness ==
  /\ WF_vars(Dispatch)
  /\ WF_vars(poll_callback)
  /\ \A c \in Readers : WF_vars(AppRead(c))

Spec == Init /\ [][Next]_vars /\ Fairness

-----------------------------------------------------------------------------
Record == [wd : 0..MaxWd, mask : SUBSET (IN_ALL_EVENTS \cup {"IN_ISDIR"}), cookie : Nat, name : Seq(STRING),
           len : Nat, seq : Nat, rid : Nat, path : Paths \cup {<<>>}]

TypeOK ==
  /\ RegTypeOK
  /\ rawq \in Seq([path : Paths, kind : Kinds, rid : Nat, seq : Nat, is_dir : BOOLEAN])
  /\ DOMAIN pending_renames \subseteq Paths
  /\ cookie_counter \in 0..(2^CookieBits - 1)
  /\ disp.pc \in {"idle", "attributed", "send"} /\ disp.rec \in Record
  /\ disp.targets \in Seq(ClientId)
  /\ sock \in [ClientId -> Seq(Record)] /\ delivered \in [ClientId -> Seq(Record)]
  /\ \A c \in ClientId : Len(sock[c]) <= SockCap
  /\ peerClosed \subseteq ClientId

\* spec.md 8 (Dispatcher semantics): no client is handed the same observed
\* event twice, whichever order subscribers join, leave and share a watch
\* while the dispatcher is between its snapshot and its writes.
DeliveredAtMostOnce ==
  \A c \in ClientId : IsInjective([i \in DOMAIN delivered[c] |-> delivered[c][i].seq])

\* An observed event the dispatcher has taken or still has queued.
InFlight(n) == (\E i \in DOMAIN rawq : rawq[i].seq = n) \/ (disp.pc # "idle" /\ disp.rec.seq = n)

\* When every application keeps reading, each event the poller observed is
\* eventually handled to the end of its fan-out: the dispatcher's awaits
\* on socket writes, on closed peers included, never hang.
RawEventsDrain ==
  \A n \in 1..(2 * MaxChanges) : InFlight(n) ~> ~InFlight(n)

\* spec.md 4.6 step 5 and 4.1: an event on the watch root itself is emitted
\* with len = 0 and no name (handle_event's strip_prefix of the root path).
RootEventHasNoName ==
  \A c \in ClientId : \A i \in DOMAIN delivered[c] :
    delivered[c][i].name = <<>> => delivered[c][i].len = 0

\* spec.md 8 and scenario 3: the MOVED_FROM and MOVED_TO records of one
\* rename carry the same non-zero cookie (handle_event's pending_renames).
RenameCookiesPair ==
  \A c \in ClientId : \A i, j \in DOMAIN delivered[c] :
    LET a == delivered[c][i]  b == delivered[c][j] IN
      (a.rid # 0 /\ a.rid = b.rid) => (a.cookie = b.cookie /\ a.cookie # 0)

\* The clients a change at path concerns: the subscribers of a live watch
\* on the path, or on a recursive ancestor of it, whose mask selects the
\* change's bits.
CoveringSubscribers(path, mask) ==
  UNION {Range(watches[w].clients) :
           w \in {w2 \in DOMAIN watches :
                    /\ \/ watches[w2].path = path
                       \/ watches[w2].recursive /\ IsStrictPrefix(watches[w2].path, path)
                    /\ watches[w2].mask \cap mask # {}}}

\* spec.md 8 (Dispatcher semantics) and scenario 1: a change below a
\* recursive watch is attributed to that watch and fans out to its
\* subscribers.  When handle_event takes an event off the channel, every
\* client whose watch covers the path and selects the event is a
\* subscriber of the watch find_watch_for_path attributes it to, whatever
\* other clients watch nested paths.
RecursiveWatchSeesSubtree ==
  [][disp.pc = "idle" /\ rawq # <<>> /\ rawq' = Tail(rawq) =>
       LET ev == Head(rawq) IN
         CoveringSubscribers(ev.path, notify_to_inotify_mask(ev.kind, ev.is_dir))
           \subseteq IF disp'.pc = "attributed" THEN Range(watches[disp'.rec.wd].clients) ELSE {}]_vars

\* A pending write to client c.
Owed(c) == disp.pc = "send" /\ c \in Range(disp.targets)

\* spec.md 5 (Backpressure): a client that keeps reading gets every event
\* fanned out to it, however slow another subscriber of the watch is: the
\* dispatcher must not block one client's fan-out on another's write.
NoHeadOfLineBlocking ==
  \A c \in Readers : Owed(c) ~> ~Owed(c)

\* A change at p that some client's watch covers.
WatchedChange(p) ==
  \E ch \in changed : \E i \in DOMAIN ch :
    ch[i].path = p /\ \E wd \in DOMAIN watches :
      watches[wd].path = p \/ (watches[wd].recursive /\ IsStrictPrefix(watches[wd].path, p))

\* spec.md 4.4 and 4.5: a watch an application adds is polled, so a change
\* under it is eventually observed (handle_request's AddWatch only updates
\* the registry).
WatchedChangesObserved ==
  \A p \in Paths : WatchedChange(p) ~> ~WatchedChange(p)

\* The record a reader of the event stream should find for a frame.
Expected(rec) == [wd |-> rec.wd, mask |-> Codec!bits(rec.mask), cookie |-> rec.cookie,
                  name |-> Codec!NameBytes(rec.name)]

\* spec.md 8 (Codec round-trips, Framing): every frame waiting in a
\* client's socket, as handle_event encoded and framed it, carries its
\* payload's length, and the payload's header and NUL-terminated trailer
\* decode to the wd, mask, cookie and name of the record the dispatcher
\* attributed, at the size event_size_with_name gives.
FramesCarryRecords ==
  \A c \in ClientId : \A i \in DOMAIN sock[c] :
    LET f == Framed(sock[c][i])
        p == SubSeq(f, 5, Len(f))
        h == Codec!from_bytes(p)
    IN  /\ Codec!read_length(f) = Len(p)
        /\ Len(p) = Codec!event_size_with_name(Len(Codec!NameBytes(sock[c][i].name)))
        /\ [wd |-> h.wd, mask |-> h.mask, cookie |-> h.cookie,
            name |-> Codec!CString(SubSeq(p, Codec!HEADER_SIZE + 1, Len(p)))]
             = Expected(sock[c][i])
        /\ h.len = sock[c][i].len

\* spec.md 1 (core item 3): the application's read() on the descriptor
\* yields binary inotify records indistinguishable from the kernel's.  The
\* library interposes no read(), so the application reads the bytes
\* handle_event wrote (FramedMessage::frame of the record) and walks them
\* as inotify(7) records; each frame it reads must give back its record.
ReadYieldsRecords ==
  [][\A c \in ClientId :
       AppRead(c) => Codec!InotifyRecords(Framed(Head(sock[c]))) = <<Expected(Head(sock[c]))>>]_vars

=============================================================================
