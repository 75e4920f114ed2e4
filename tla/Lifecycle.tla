----------------------------- MODULE Lifecycle -----------------------------
(***************************************************************************)
(* Start and stop of daemon processes that share one socket path          *)
(* (crates/daemon/src/main.rs cmd_start, crates/daemon/src/server.rs       *)
(* Server::run):                                                           *)
(*  - cmd_start probes the path with is_daemon_running and bails if a      *)
(*    daemon answers; it then spawns the signal task, starts the watcher   *)
(*    and runs the server, which unlinks an existing socket file, binds,   *)
(*    and accepts until its shutdown receiver yields a value, then unlinks *)
(*    the socket file and returns, ending the process;                     *)
(*  - the signal task installs tokio handlers for SIGTERM, SIGINT and      *)
(*    SIGHUP in that order and waits for the first of them: SIGTERM and    *)
(*    SIGINT send on the broadcast shutdown channel, SIGHUP returns;       *)
(*  - kill(2) from outside: a signal with no handler installed takes its   *)
(*    default action and ends the process; a tokio handler, once           *)
(*    installed, stays installed for the life of the process, and a signal *)
(*    that arrives when no stream of that kind is alive is swallowed.      *)
(* The socket path is one directory entry: sockfile names the daemon whose *)
(* listener it was bound by, or NoDaemon.  The file outlives a killed      *)
(* process.                                                                *)
(***************************************************************************)
EXTENDS Naturals, FiniteSets, Sequences

CONSTANTS
  Daemons,    \* `fakenotifyd start` processes run against the same socket path
  Signals,    \* signals kill(2) may send: a subset of TERM, INT, HUP, KILL
  NoDaemon,   \* sockfile when no file exists at the socket path
  MaxKills    \* bound on the signals sent in a behaviour

ASSUME /\ NoDaemon \notin Daemons
       /\ Signals \subseteq {"TERM", "INT", "HUP", "KILL"}
       /\ MaxKills \in Nat

\* The order of the three signal(...) calls of the signal task.
SigOrder == <<"TERM", "INT", "HUP">>

VARIABLES
  pc,        \* Daemons -> where cmd_start / Server::run is
  sigtask,   \* Daemons -> the signal task: none, reg, select, returned, sent
  nreg,      \* Daemons -> how many of SigOrder the signal task has installed
  pending,   \* Daemons -> signals its live streams hold, not yet taken
  shutdown,  \* Daemons -> the server's shutdown receiver holds a value
  sockfile,  \* the daemon whose listener the socket file belongs to
  asked,     \* Daemons -> signals delivered to the process (history)
  nKills     \* signals sent so far

vars == <<pc, sigtask, nreg, pending, shutdown, sockfile, asked, nKills>>

Alive(d) == pc[d] # "exited"
\* The listener exists from bind until Server::run returns.
Listening(d) == pc[d] \in {"listening", "cleanup"}
\* is_daemon_running: connect() succeeds iff the file's listener is open.
Reachable == sockfile # NoDaemon /\ Listening(sockfile)
Installed(d) == {SigOrder[i] : i \in 1..nreg[d]}

\* main parses the command line and runs cmd_start for `start`.
Init ==
  /\ pc = [d \in Daemons |-> "probe"]
  /\ sigtask = [d \in Daemons |-> "none"]
  /\ nreg = [d \in Daemons |-> 0]
  /\ pending = [d \in Daemons |-> {}]
  /\ shutdown = [d \in Daemons |-> FALSE]
  /\ sockfile = NoDaemon
  /\ asked = [d \in Daemons |-> {}]
  /\ nKills = 0

-----------------------------------------------------------------------------
(* cmd_start and Server::run.                                              *)

Goto(d, l) == pc' = [pc EXCEPT ![d] = l]

\* "Check if already running": bail if a daemon answers; otherwise create
\* the state and the shutdown channel (its receiver exists from here on)
\* and spawn the signal task.
StartProbe(d) ==
  /\ pc[d] = "probe"
  /\ IF Reachable
     THEN Goto(d, "exited") /\ UNCHANGED sigtask
     ELSE Goto(d, "watcher") /\ sigtask' = [sigtask EXCEPT ![d] = "reg"]
  /\ UNCHANGED <<nreg, pending, shutdown, sockfile, asked, nKills>>

\* start_watcher: PollWatcher::new may fail, and `?` ends cmd_start.
StartWatcher(d) ==
  /\ pc[d] = "watcher"
  /\ \/ Goto(d, "prepare")
     \/ Goto(d, "exited")
  /\ UNCHANGED <<sigtask, nreg, pending, shutdown, sockfile, asked, nKills>>

\* Server::run: "Remove existing socket file if present".
RunPrepare(d) ==
  /\ pc[d] = "prepare"
  /\ Goto(d, IF sockfile # NoDaemon THEN "unlink" ELSE "bind")
  /\ UNCHANGED <<sigtask, nreg, pending, shutdown, sockfile, asked, nKills>>

\* remove_file(...)?: fails with ENOENT if the file went meanwhile.
RunUnlink(d) ==
  /\ pc[d] = "unlink"
  /\ IF sockfile # NoDaemon
     THEN Goto(d, "bind") /\ sockfile' = NoDaemon
     ELSE Goto(d, "exited") /\ UNCHANGED sockfile
  /\ UNCHANGED <<sigtask, nreg, pending, shutdown, asked, nKills>>

\* UnixListener::bind(...)?: fails with EADDRINUSE if a file is there.
RunBind(d) ==
  /\ pc[d] = "bind"
  /\ IF sockfile = NoDaemon
     THEN Goto(d, "listening") /\ sockfile' = d
     ELSE Goto(d, "exited") /\ UNCHANGED sockfile
  /\ UNCHANGED <<sigtask, nreg, pending, shutdown, asked, nKills>>

\* The accept loop's select! takes the shutdown value and breaks.
ServerShutdown(d) ==
  /\ pc[d] = "listening"
  /\ shutdown[d]
  /\ Goto(d, "cleanup")
  /\ shutdown' = [shutdown EXCEPT ![d] = FALSE]
  /\ UNCHANGED <<sigtask, nreg, pending, sockfile, asked, nKills>>

\* "Clean up socket file": whatever file is at the path is removed; then
\* run returns, cmd_start returns and the process exits.
RunCleanup(d) ==
  /\ pc[d] = "cleanup"
  /\ sockfile' = NoDaemon
  /\ Goto(d, "exited")
  /\ UNCHANGED <<sigtask, nreg, pending, shutdown, asked, nKills>>

-----------------------------------------------------------------------------
(* The signal task.                                                        *)

\* Mutant: the task moves on to select! one registration too late.
SignalRegister_late_select(d) ==
  /\ Alive(d)
  /\ sigtask[d] = "reg"
  /\ nreg' = [nreg EXCEPT ![d] = @ + 1]
  /\ IF nreg[d] = Len(SigOrder)
     THEN sigtask' = [sigtask EXCEPT ![d] = "select"]
     ELSE UNCHANGED sigtask
  /\ UNCHANGED <<pc, pending, shutdown, sockfile, asked, nKills>>

\* signal(SignalKind::...) installs the handler and creates its stream.
SignalRegister(d) ==
  /\ Alive(d)
  /\ sigtask[d] = "reg"
  /\ nreg' = [nreg EXCEPT ![d] = @ + 1]
  /\ IF nreg[d] + 1 = Len(SigOrder)
     THEN sigtask' = [sigtask EXCEPT ![d] = "select"]
     ELSE UNCHANGED sigtask
  /\ UNCHANGED <<pc, pending, shutdown, sockfile, asked, nKills>>

\* Mutant: the shutdown value is kept only once the server runs, as if
\* the receiver were subscribed in Server::run.
SignalSelect_late_subscribe(d) ==
  /\ Alive(d)
  /\ sigtask[d] = "select"
  /\ \E s \in pending[d] :
       IF s = "HUP"
       THEN sigtask' = [sigtask EXCEPT ![d] = "returned"] /\ UNCHANGED shutdown
       ELSE /\ sigtask' = [sigtask EXCEPT ![d] = "sent"]
            /\ shutdown' = [shutdown EXCEPT ![d] = Listening(d)]
  /\ pending' = [pending EXCEPT ![d] = {}]
  /\ UNCHANGED <<pc, nreg, sockfile, asked, nKills>>

\* select! takes one received signal (any ready branch): SIGHUP returns
\* from the task, dropping the three streams; SIGTERM and SIGINT send on
\* the shutdown channel, whose receiver buffers the value.
SignalSelect(d) ==
  /\ Alive(d)
  /\ sigtask[d] = "select"
  /\ \E s \in pending[d] :
       IF s = "HUP"
       THEN sigtask' = [sigtask EXCEPT ![d] = "returned"] /\ UNCHANGED shutdown
       ELSE /\ sigtask' = [sigtask EXCEPT ![d] = "sent"]
            /\ shutdown' = [shutdown EXCEPT ![d] = TRUE]
  /\ pending' = [pending EXCEPT ![d] = {}]
  /\ UNCHANGED <<pc, nreg, sockfile, asked, nKills>>

-----------------------------------------------------------------------------
(* kill(2) from outside.                                                   *)

\* Without a handler the default action ends the process (the socket file
\* stays); with one, a live stream of that kind receives the signal, and
\* once the task has ended the handler swallows it.
Kill(d) ==
  /\ Alive(d)
  /\ nKills < MaxKills
  /\ \E s \in Signals :
       /\ asked' = [asked EXCEPT ![d] = @ \cup {s}]
       /\ CASE s \notin Installed(d) ->
                 Goto(d, "exited") /\ UNCHANGED pending
            [] sigtask[d] \in {"reg", "select"} ->
                 pending' = [pending EXCEPT ![d] = @ \cup {s}] /\ UNCHANGED pc
            [] OTHER ->
                 UNCHANGED <<pc, pending>>
  /\ nKills' = nKills + 1
  /\ UNCHANGED <<sigtask, nreg, shutdown, sockfile>>

-----------------------------------------------------------------------------
Main(d) ==
  \/ StartProbe(d) \/ StartWatcher(d) \/ RunPrepare(d) \/ RunUnlink(d)
  \/ RunBind(d) \/ ServerShutdown(d) \/ RunCleanup(d)

SignalTask(d) == SignalRegister(d) \/ SignalSelect(d)

\* Every process has exited or serves with nothing left to do: it waits
\* in accept() and its signal task waits for a signal.
Serving ==
  /\ \A d \in Daemons : ~Alive(d) \/ (pc[d] = "listening" /\ ~shutdown[d]
                                       /\ sigtask[d] # "reg" /\ pending[d] = {})
  /\ UNCHANGED vars

Next ==
  \/ \E d \in Daemons : Main(d) \/ SignalTask(d) \/ Kill(d)
  \/ Serving

\* tokio polls every task that is ready: the main task of each process and
\* its signal task.  kill(2) gets no fairness.
Fairness == \A d \in Daemons : WF_vars(Main(d)) /\ WF_vars(SignalTask(d))

Spec == Init /\ [][Next]_vars /\ Fairness

-----------------------------------------------------------------------------
TypeOK ==
  /\ pc \in [Daemons -> {"probe", "watcher", "prepare", "unlink", "bind",
                         "listening", "cleanup", "exited"}]
  /\ sigtask \in [Daemons -> {"none", "reg", "select", "returned", "sent"}]
  /\ nreg \in [Daemons -> 0..Len(SigOrder)]
  /\ pending \in [Daemons -> SUBSET Signals]
  /\ shutdown \in [Daemons -> BOOLEAN]
  /\ sockfile \in Daemons \cup {NoDaemon}
  /\ asked \in [Daemons -> SUBSET Signals]
  /\ nKills \in 0..MaxKills

\* spec.md 4.7: SIGTERM and SIGINT trigger shutdown.  Once either has been
\* delivered to a daemon process, the process eventually ends, whether the
\* signal came before its handlers were installed, while it was still
\* starting, or while it served (main.rs signal task, server.rs accept loop).
StopSignalStops ==
  \A d \in Daemons : (asked[d] \cap {"TERM", "INT"} # {}) ~> ~Alive(d)

\* main.rs "Check if already running": a daemon that serves is the one its
\* clients reach, i.e. the socket file at the path is its own.
ListenerReachable ==
  \A d \in Daemons : pc[d] = "listening" => sockfile = d

=============================================================================
