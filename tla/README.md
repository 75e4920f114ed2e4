# TLA+ models of FakeNotify

FakeNotify gives applications inotify on file systems where the kernel cannot deliver it. A daemon polls the paths, and an `LD_PRELOAD` library redirects the application's inotify calls to that daemon over a Unix socket. This directory holds TLA+ models of the daemon's registry, its socket server, its event dispatcher and the preload library, with TLC configurations that check them.

## 1. The system

| Part | Source | State | Operations |
|---|---|---|---|
| Registry | `crates/daemon/src/state.rs` (`DaemonState`, `Client`) | `clients` (id → Client with its `watches` Vec), `watches` (wd → WatchInfo{path, mask, recursive, clients}), `path_to_wd`, `next_client_id` (AtomicU64), `next_wd` (AtomicI32) | `register_client`, `unregister_client`, `add_watch`, `remove_watch`, `find_watch_for_path`, `get_clients_for_watch` |
| Socket server | `crates/daemon/src/server.rs` | the listener; one `handle_client` task per connection | bind, accept, register + greeting, request loop, `handle_request`, `send_response`, unregister on exit |
| Event dispatcher and poll adapter | `crates/daemon/src/watcher.rs` | the PollWatcher's watched paths (config only), an unbounded channel, `pending_renames`, `COOKIE_COUNTER` | PollWatcher callback; `handle_event`: attribute → classify → filter → cookie → name → encode → fan out with one awaited write per subscriber |
| Protocol | `crates/protocol/src/{message,event,socket}.rs` | none | bincode messages, 4-byte length framing, inotify record encoding, socket path |
| Preload library | `crates/preload/src/lib.rs` | `INITIALIZED`, `MANAGED_FDS`, the leaked socket of each managed fd | ctor `init`; `inotify_init[1]`, `inotify_add_watch`, `inotify_rm_watch`, `close` |
| CLI / main | `crates/daemon/src/{main,cli,config}.rs` | the shutdown broadcast channel; the signal task's handlers and streams; the socket file at the path | `cmd_start` (probe, signal task, watcher, `Server::run`); `cmd_stop`/`status`/`add`/`list` (`is_daemon_running`, then `send_daemon_request`); socket path from `--socket`, config and environment |

**How the parts interact.**
- An application's `inotify_init1` connects to the daemon and sends `RegisterClient`.
- The daemon's task for that connection registers a client. It writes an unsolicited `ClientRegistered` greeting, then answers every request on the same stream.
- The dispatcher writes event frames on that same stream, through the same per-client writer mutex. Frames never interleave byte-wise, but responses and events share one FIFO.
- The application's own `read()` takes whatever frame comes next.
- Registry methods hold parking_lot locks only inside one method and never across an await, so each method is one atomic step. The runtime is multi-threaded, so the steps of different tasks interleave freely.

**Hard behaviours.**
- Interleaving of handler tasks on the registry.
- A connection closed at any point of the handler.
- Responses and event frames sharing one stream.
- A read timeout or `WouldBlock` leaving an answer queued.
- The dispatcher's registry snapshot going stale before fan-out.
- One slow reader blocking the single dispatcher task.
- Counters that wrap (u32 cookie, i32 wd).

PROJECT.json lists each hazard at its source line.

## 2. Modules

| Module | Models | Composes |
|---|---|---|
| `RegistryAbstract` | What the registry promises: per path its subscribers, a mask that is the union of the masks it was added with, and a descriptor that is stable while the path is watched and fresh when it is watched again. | none |
| `Registry` | `DaemonState`. One operator per method, with the same names. The `unregister_client` loop is a `FoldLeft` of `Unsubscribe`. The early returns are IF/ELSE. HashMap insert is `(k :> v) @@ f`. `RegNext` drives the methods the way `handle_request` calls them: `add_watch` is always recursive, and any wd can be removed. | refines `RegistryAbstract` |
| `Session` | The server's accept loop and `handle_client` tasks; the preload library in one application thread per connection; CLI probe connections; event frames on the shared stream. Each direction of a socket is a sequence of whole frames (`up`, `down`). `conn` is the client end: none, open or closed. `hd[k]` is the task's program counter. `lib[k]` is the library's program counter, its current call and what it returned. | extends `Registry` |
| `Dispatcher` | The PollWatcher callback (only paths of the config's watches are polled), the unbounded channel, and `handle_event` in three steps: attribute/encode, `get_clients_for_watch`, then one `send_event` per subscriber. Each client has a socket buffer of `SockCap` frames, and a write waits for room. Clients register, subscribe, unsubscribe and disconnect through the registry operators. | extends `Registry` |
| `EventRecord` | The protocol crate's byte encodings (event.rs, message.rs): the `EventMask` bits, `InotifyEvent::new`, `header_to_bytes`, `to_bytes_with_name`, `from_bytes`, `event_size_with_name`, and `FramedMessage::frame`/`read_length`, each over sequences of bytes in little-endian order. It also holds the reader side that is not repository code: `CString` and the recursive `InotifyRecords`, which walks a buffer the way an inotify(7) reader does. | instanced by `Dispatcher` as `Codec` |
| `Lifecycle` | `cmd_start` and `Server::run` of several daemon processes on one socket path, the signal task, and kill(2) from outside. `pc[d]` is where the main task is; `sigtask[d]`, `nreg[d]` and `pending[d]` are the signal task, the handlers it has installed and the signals its streams hold; `shutdown[d]` is the broadcast receiver; `sockfile` is the daemon whose listener the file at the path belongs to. | none |
| `SocketPath` | `get_socket_path[_with_xdg_fallback]` (socket.rs), clap's `--socket`/`FAKENOTIFY_SOCKET`, `Cli::socket_path`, the socket part of `Config::load` and `with_socket`, and the library's `get_socket_path`. Each endpoint resolves its path once from inputs drawn in `Init`. | none |
| `ManagedFds` | `MANAGED_FDS` against the process's fd table: threads that connect and register, fall back to the kernel's `inotify_init1`, open other files, close through the library (unregister, then the real close), and optionally close behind its back. The kernel gives the lowest free number. | none |
| `MCSession`, `MCDispatcher`, `MCLifecycle`, `MCSocketPath`, `MCManagedFds` | Model values and small sets for TLC (`MCRegistry` for `Registry`). | |

### Modelling choices

- **Paths** are sequences of components: `<<"a","b">>` is `/a/b`. `Front` is `Path::parent` and `IsStrictPrefix` is "below".
- **Event masks** are sets of bit names. `notify_to_inotify_mask` is the code's table; `IN_ISDIR` is OR-ed in when the raw event's `is_dir` is set. `is_dir` is `path.is_dir()` as the poll callback runs; the file system is not modelled, so the callback may choose either value for each path.
- **Record names.** Each path component is one byte, given by `CharCode`, and `/` is byte 47. The `len` field is the one `to_bytes_with_name` writes. `Framed(rec)` is the exact byte sequence `handle_event` sends for a record.
- **Integers.** TLC integers are 32-bit signed, so `IN_ONESHOT` (bit 31) is left out of `EventMask` and descriptors stay positive.
- **Frames.** A response frame carries its type. A `WatchAdded` also carries a ghost path: the path of the `AddWatch` it answers, which is not on the wire.
- **Event frames read as responses.** `Response::from_bytes` is modelled by what bincode 1 (fixint) does with an event payload: its first four bytes, the wd, are read as the variant index (`BincodeAsResponse`).
- **Library reads.** A library call's read of its answer is split into a step that gets a frame and a step that gets none. Getting none covers the 30 s timeout, `WouldBlock` after `IN_NONBLOCK`, and end of stream.
- **CLI probes.** `is_daemon_running` connects and drops at once.
- **CLI requests.** A CLI command is a third kind of connection (`cli[k]`): it reads the greeting, writes Ping (status, stop, list) or AddWatch (add), reads the next frame, and `CmdOutcome` is the verdict its `cmd_*` prints.
- **Signals.** tokio's `signal()` installs a process-wide handler that stays for the life of the process. A signal with no handler yet takes its default action and ends the process. A signal whose streams have all been dropped is swallowed.
- **Socket file.** The path is one directory entry. It survives a killed process, and `RunCleanup` removes whatever file is there.
- **Cookie counter.** `COOKIE_COUNTER` wraps modulo `2^CookieBits`. The configurations use 16 bits, because TLC integers are 32-bit signed. No bound comes near the wrap.

## 3. Runs

PROJECT.json lists these twelve runs, and every one is checked with its mutants.

| Run | Config | Expect | What it shows |
|---|---|---|---|
| `registry` | `MCRegistry.cfg` | pass | Three clients, two nested paths, three descriptors. Every interleaving of the four methods keeps `SubscriptionSymmetry` (client lists ↔ subscriber lists) and `PathIndexExact` (the index names exactly the live watches, and none is empty). The registry also refines `RegistryAbstract` (`RegistryRefinement`): masks only grow while watched, and descriptors are never reused (169k states). |
| `session` | `MCSession.cfg` | pass | One application connection, one CLI probe and one CLI `status`/`stop` request. `SubscribersAreLive`: every subscriber is the client of a task that has not unregistered. `CliGetsOwnAnswer`: the CLI reports the daemon running only on its own Pong, not on the greeting. The run sends Ping commands only; with `add` the same formula is violated (`session_cli_event_answer` below). `ClosedConnectionReleasesWatches`: a closed connection eventually holds no subscription (312k states). |
| `dispatcher` | `MCDispatcher.cfg` | pass | Two clients, a watch root and a path below it, one change (create, rename or other). `DeliveredAtMostOnce` holds. `FramesCarryRecords`: every frame waiting in a socket has the right length prefix, and its header and NUL-terminated name decode to the record's wd, mask bits, cookie and name. `RawEventsDrain` holds when every client reads (400k states). |
| `lifecycle` | `MCLifecycle.cfg` | pass | Two daemons on one path. SIGTERM, SIGINT or SIGKILL may be sent at any point of start-up or service. `StopSignalStops`: a process sent SIGTERM or SIGINT eventually exits (23k states). |
| `session_add_watch_desync` | `MCSession_AddWatchReturnsOwnWd.cfg` | violation | `inotify_add_watch` returns a wd that does not answer its own `AddWatch`. |
| `dispatcher_head_of_line` | `MCDispatcher_HOL.cfg` | violation | Client 1 stops reading. The dispatcher waits on its full socket for ever, and client 2, which reads, never gets its event. |
| `dispatcher_unpolled_watch` | `MCDispatcher_Unpolled.cfg` | violation | A change at a path watched over the socket but outside the config is never observed. |
| `dispatcher_rename_cookie` | `MCDispatcher_Rename.cfg` | violation | The two halves of a rename get different cookies. |
| `lifecycle_sighup` | `MCLifecycle_Hup.cfg` | violation | SIGHUP, then SIGTERM: the signal task has returned, SIGTERM is swallowed, and the daemon never stops. |
| `lifecycle_start_race` | `MCLifecycle_Race.cfg` | violation | Two `start`s both pass the probe. The second unlinks the first's socket and binds, so the first serves an unreachable socket. |
| `managed_fds_close_range` | `MCManagedFds_CloseRange.cfg` | violation | After `close_range`, the next socket gets a number still in `MANAGED_FDS` that was registered for another socket. |
| `dispatcher_read_framing` | `MCDispatcher_Read.cfg` | violation | The application reads a framed record. An inotify(7) reader takes the 4-byte length prefix for the wd, and every field after it is shifted by four bytes (`ReadYieldsRecords`). |

### Additional configurations

These configurations are kept beside the runs and reproduce further findings and checks with the same modules. They are not among the project's runs, so no mutant is attached to them. Run them with `tlc -config <cfg> <module>`.

| Name | Config | Expect | What it shows |
|---|---|---|---|
| `session_probe_leak` | `MCSession_NoLeakedClient.cfg` | violation | A probe that drops before the greeting leaves a registered client behind. |
| `session_init_fallback` | `MCSession_InitFallsBack.cfg` | violation | `inotify_init1` returns EIO instead of falling back when the registration answer is not read. |
| `dispatcher_root_name` | `MCDispatcher_Root.cfg` | violation | An event on the watch root gets name "" with len 4. |
| `dispatcher_nested_watch` | `MCDispatcher_Nested.cfg` | violation | Client 2 watches `/a` recursively and client 1 watches `/a/b`. A change at `/a/b` reaches only client 1. |
| `session_cli_event_answer` | `MCSession_CliGetsOwnAnswer.cfg` | violation | `add` reads an event frame for its new watch as the answer to its AddWatch. |
| `session_cli_add_dropped` | `MCSession_AddedWatchPersists.cfg` | violation | The watch `add` reports added is gone once the CLI's connection closes. |
| `socket_path_config` | `MCSocketPath_Config.cfg` | violation | A config file's `daemon.socket` is ignored: the daemon binds the default path. |
| `socket_path` | `MCSocketPath.cfg` | pass | Every combination of environment, `--socket` and config value. `AgreeOnSocket`: a daemon, a CLI command and an application that see the same `FAKENOTIFY_SOCKET` and `XDG_RUNTIME_DIR` use one path (66k states). |
| `managed_fds` | `MCManagedFds.cfg` | pass | Two threads, three fd numbers, four objects opened. `ManagedAreOwnSockets`: a number in `MANAGED_FDS` is free or names the socket it was registered for (14k states). |

### Mutants

Every property of a passing run is broken by a plausible bug in the code it is about, listed in PROJECT.json `mutants`:
- the client id read after the increment;
- `remove_watch` that leaves the wd in the client's list;
- an emptied watch whose path key stays in the index;
- a mask replaced instead of OR-ed;
- a task that ends without unregistering;
- a read loop that takes end of stream for "no data";
- `add_watch` without the `contains` check;
- a failed event write retried for ever;
- a signal task that moves to `select!` one handler late, and a shutdown receiver subscribed only once the server runs;
- a CLI that writes its request without reading the greeting;
- `header_to_bytes` writing the mask and cookie in each other's place.

`SocketPath` and `ManagedFds` also define mutants for their additional pass configurations, and each one breaks its property there:
- the XDG fallback without the socket's file name, and a library that skips the XDG fallback;
- close that leaves the number in `MANAGED_FDS`, and a fallback that registers the kernel's inotify fd.

### Findings

Most findings below come from the violation runs. Seven come from the additional configurations instead: the leaked client, the missing fallback, root names, nested watches, the two CLI `add` findings, and the ignored config socket.

- **Registration off by one.** The library reads one frame after `RegisterClient`, but the daemon writes two: the greeting, and the answer to `RegisterClient`. From then on every library call reads the answer to the previous request. The first `inotify_add_watch` fails with EIO, and later ones return another path's wd. An event frame can also be read as an answer: an event on wd 1 decodes as `WatchAdded{wd = mask}`.
- **Leaked client.** `send_response(...).await?` on the greeting returns from `handle_client` without `unregister_client`. Every CLI command probes the daemon with a connect-and-drop, so each can leak a client.
- **No fallback after a failed registration.** `inotify_init_impl` returns EIO when registration fails after connecting. The spec says it falls back to the kernel.
- **Root events named "".** A record for the watch root carries the name "" with len 4, where the spec says len 0.
- **Rename cookies never pair.** They are stashed under the old path and looked up under the new one.
- **Nested watches hide events.** An event is attributed to one watch only, the nearest, so an outer recursive watch stops seeing the subtree of a nested watch.
- **Head-of-line blocking.** Fan-out awaits each subscriber in turn, so a stalled subscriber stops every other subscriber and every later event. The spec asks for a bounded queue with `IN_Q_OVERFLOW`.
- **Socket watches are never polled.** `AddWatch` never reaches the poller, so only config paths produce events.
- **SIGHUP disables shutdown.** The signal task returns on SIGHUP, so later SIGTERM and SIGINT are swallowed. The spec says SIGHUP is ignored.
- **Concurrent starts.** The `is_daemon_running` probe and `Server::run`'s unlink and bind are separate steps. Two starts can both run; the first is left unreachable, and its cleanup later deletes the second's socket file.
- **CLI `add` reads events.** An event for the new watch can arrive before the `WatchAdded`, and `send_daemon_request` takes it for the answer.
- **CLI `add` watches die with the command.** The watch belongs to the CLI's connection, which closes as the command returns.
- **Records arrive framed.** `handle_event` sends `FramedMessage::frame(record)` on the socket that the application holds as its inotify fd. The library interposes no `read()`. So the application reads a 4-byte length and then the record, not the kernel's format that spec.md section 1 promises.
- **Config `daemon.socket` is ignored.** `main` always overrides it with `Cli::socket_path`, which falls back to the XDG default.
- **Stale `MANAGED_FDS`.** A close the library does not see leaves the number registered, and a later fd with that number is taken for a daemon socket.
- **`stop` does not stop.** `cmd_stop` only pings and prints a hint (acknowledged in its comments). No run checks this.

## 4. Bounds and why they suffice

- **Registry.** Three client ids, three descriptors and two nested paths let two clients share a watch while a third removes or disconnects. The descriptor bound is reached, so the "fresh descriptor" clause is exercised. `MaxListLen = 2` bounds a client's Vec: it grows on every duplicate add.
- **Session.**
  - Two calls per connection in the `session` run (`RegisterClient` and one request) and three in the violation configurations. Three are enough to reach the shifted answers.
  - Three client ids in the `session` run: the application, the probe and the CLI request each register one.
  - One event frame.
  - One existing and one missing path, so both `WatchAdded` and `Error` answers occur.
  - One probe, and in the `session` run one CLI request.
  - `MaxWd = 3` is at least the number of AddWatches, so the handler never meets the wd bound.
- **Dispatcher.** A single change, made before or after any subscription, reaches every branch of `handle_event`. A rename change yields two raw events. `SockCap = 1` makes a write wait after one unread frame. Event names here are the root (empty) and one component, both padded to 4 bytes; the codec itself is exact for any length. The head-of-line run uses two changes, so the second write meets the full buffer.

- **Lifecycle.** Two daemons are enough for the start race. `MaxKills` is 3 in the pass run, 2 in the SIGHUP run (SIGHUP, then SIGTERM) and 1 in the race run. Three kills cover a signal before, during and after handler installation. `SigOrder` is the code's three handlers.
- **SocketPath.** One value per variable, plus unset, gives every branch of every resolution function; `Init` enumerates all combinations.
- **ManagedFds.** Three numbers and four objects: a number is freed and handed to a new object of another kind.

## 5. Fairness

- **Daemon.** Weak fairness on every `handle_client` task (`Session`), on the dispatcher task, and on the PollWatcher callback (`Dispatcher`). Tokio runs every ready task, and the poller wakes every interval.
- **Applications.** No fairness for the applications: an application may stop calling or reading at any time.
- **`RawEventsDrain`.** This property assumes every client reads (`Readers` is all clients); it shows the dispatcher itself never hangs.
- **Head-of-line run.** Only client 2 is assumed to read.
- **Lifecycle.** Weak fairness on each process's main task and signal task: tokio polls both while they are ready. `Kill` gets none; signals come from outside.

## 6. What is not modelled, and the plan

**Not modelled:**
- bincode encodings of `Request`/`Response`: `Session` keeps frames as typed values (event records are encoded byte for byte in `EventRecord`);
- the file system itself: `is_dir` and `path.exists()` are free choices (`Existing` is fixed), so a directory removed before the poll, which `path.is_dir()` reports as not a directory, is not told apart;
- argument and config parsing beyond the socket path (log level, watches, `max_clients`);
- `--daemonize`: it re-executes the binary and writes a pid file, with nothing to interleave;
- `cmd_remove`, which only prints;
- wrap of `next_wd` at its real width: it needs 2^31 watches, far beyond any bound TLC can explore (`COOKIE_COUNTER` is drawn only for renames, which notify's PollWatcher never reports, so its wrap is not a hazard of this code);
- several threads of an application calling through one managed fd, with their requests and responses interleaved on one stream.

**Planned next:**
1. **Several application threads on one fd** in `Session`, with concurrent `send_request` on one socket. This is worth a run only once registration reads both frames: until then `AddWatchReturnsOwnWd` already fails with one thread.
2. **Handler shutdown.** Connect the broadcast in `Lifecycle` to the `handle_client` tasks of `Session`.
3. **A dispatcher refinement:** an abstract "each subscriber sees the events observed after it subscribed, in order", with `Dispatcher` shown to implement it where the findings above allow.
