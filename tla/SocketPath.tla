----------------------------- MODULE SocketPath -----------------------------
(***************************************************************************)
(* Where each endpoint looks for the daemon's socket:                      *)
(*  - the daemon's `start` (crates/daemon/src/main.rs, cli.rs, config.rs): *)
(*    the --socket argument (clap falls back to FAKENOTIFY_SOCKET), else   *)
(*    the merged configuration, whose daemon.socket the command line       *)
(*    overrides with Cli::socket_path;                                     *)
(*  - the other CLI commands, which resolve it the same way;               *)
(*  - the preload library (crates/preload/src/lib.rs get_socket_path), at  *)
(*    inotify_init time in the application's own environment.             *)
(* A path is a sequence of components; a process's inputs are its          *)
(* environment, its --socket argument and its config file's daemon.socket. *)
(***************************************************************************)
EXTENDS Sequences

CONSTANTS
  Unset,      \* an environment variable, argument or config key that is absent
  SockVals,   \* values given for FAKENOTIFY_SOCKET, --socket or daemon.socket
  RuntimeDirs \* values of XDG_RUNTIME_DIR

Opt(S) == S \cup {Unset}

Env == [FAKENOTIFY_SOCKET : Opt(SockVals),
        XDG_RUNTIME_DIR : Opt(RuntimeDirs),
        FAKENOTIFYD_DAEMON_SOCKET : Opt(SockVals)]

\* The inputs of one fakenotifyd invocation.
Args == [env : Env, socket : Opt(SockVals), file : Opt(SockVals)]

NotYet == <<>>   \* the process has not resolved its path yet

VARIABLES
  dArgs,   \* the inputs of `fakenotifyd start`
  cArgs,   \* the inputs of a later `fakenotifyd status|stop|add|list`
  aEnv,    \* the application's environment
  bound,   \* the path the daemon binds
  cliPath, \* the path the CLI command connects to
  appPath  \* the path the preload library connects to

vars == <<dArgs, cArgs, aEnv, bound, cliPath, appPath>>

-----------------------------------------------------------------------------
(* crates/protocol/src/socket.rs                                           *)

DEFAULT_SOCKET_PATH == <<"run", "fakenotify", "fakenotify.sock">>

get_socket_path(e) ==
  IF e.FAKENOTIFY_SOCKET # Unset THEN <<e.FAKENOTIFY_SOCKET>> ELSE DEFAULT_SOCKET_PATH

\* Mutant: the runtime directory itself, without the socket's file name.
get_socket_path_with_xdg_fallback_no_join(e) ==
  CASE e.FAKENOTIFY_SOCKET # Unset -> <<e.FAKENOTIFY_SOCKET>>
    [] e.XDG_RUNTIME_DIR # Unset   -> <<e.XDG_RUNTIME_DIR>>
    [] OTHER                       -> DEFAULT_SOCKET_PATH

get_socket_path_with_xdg_fallback(e) ==
  CASE e.FAKENOTIFY_SOCKET # Unset -> <<e.FAKENOTIFY_SOCKET>>
    [] e.XDG_RUNTIME_DIR # Unset   -> <<e.XDG_RUNTIME_DIR, "fakenotify.sock">>
    [] OTHER                       -> DEFAULT_SOCKET_PATH

-----------------------------------------------------------------------------
(* The daemon binary.                                                      *)

\* The subcommand's `socket` field: #[arg(short, long, env =
\* "FAKENOTIFY_SOCKET")], so the argument, else the variable, else None.
SocketArg(a) ==
  CASE a.socket # Unset                -> <<a.socket>>
    [] a.env.FAKENOTIFY_SOCKET # Unset -> <<a.env.FAKENOTIFY_SOCKET>>
    [] OTHER                           -> NotYet

\* Cli::socket_path: the field, else the XDG fallback.
socket_path(a) ==
  IF SocketArg(a) # NotYet THEN SocketArg(a) ELSE get_socket_path_with_xdg_fallback(a.env)

\* Config::load, daemon.socket only: the default (the XDG fallback), merged
\* with the config file, merged with FAKENOTIFYD_ variables split at "_".
load(a) ==
  CASE a.env.FAKENOTIFYD_DAEMON_SOCKET # Unset -> <<a.env.FAKENOTIFYD_DAEMON_SOCKET>>
    [] a.file # Unset                        -> <<a.file>>
    [] OTHER                                 -> get_socket_path_with_xdg_fallback(a.env)

\* Config::with_socket: Some(s) replaces daemon.socket.
with_socket(cfg, s) == IF s # NotYet THEN s ELSE cfg

\* main: Config::load(...).with_socket(Some(cli.socket_path())), then the
\* command's socket_override.unwrap_or(config.daemon.socket).
CommandSocket(a) ==
  IF SocketArg(a) # NotYet THEN SocketArg(a) ELSE with_socket(load(a), socket_path(a))

-----------------------------------------------------------------------------
(* The preload library.                                                    *)

\* Mutant: the library takes the socket.rs helper without the XDG fallback.
lib_get_socket_path_no_xdg(e) == get_socket_path(e)

lib_get_socket_path(e) == get_socket_path_with_xdg_fallback(e)

-----------------------------------------------------------------------------
Init ==
  /\ dArgs \in Args
  /\ cArgs \in Args
  /\ aEnv \in Env
  /\ bound = NotYet /\ cliPath = NotYet /\ appPath = NotYet

\* cmd_start resolves the path it binds.
cmd_start ==
  /\ bound = NotYet
  /\ bound' = CommandSocket(dArgs)
  /\ UNCHANGED <<dArgs, cArgs, aEnv, cliPath, appPath>>

\* cmd_status, cmd_stop, cmd_add and cmd_list resolve the path they probe.
cmd_client ==
  /\ cliPath = NotYet
  /\ cliPath' = CommandSocket(cArgs)
  /\ UNCHANGED <<dArgs, cArgs, aEnv, bound, appPath>>

\* connect_to_daemon resolves the path at inotify_init time.
connect_to_daemon ==
  /\ appPath = NotYet
  /\ appPath' = lib_get_socket_path(aEnv)
  /\ UNCHANGED <<dArgs, cArgs, aEnv, bound, cliPath>>

\* Every endpoint has resolved its path.
Resolved ==
  /\ bound # NotYet /\ cliPath # NotYet /\ appPath # NotYet
  /\ UNCHANGED vars

Next == cmd_start \/ cmd_client \/ connect_to_daemon \/ Resolved

Spec == Init /\ [][Next]_vars

-----------------------------------------------------------------------------
SockPath == {<<v>> : v \in SockVals} \cup {<<d, "fakenotify.sock">> : d \in RuntimeDirs}
            \cup {DEFAULT_SOCKET_PATH}

TypeOK ==
  /\ dArgs \in Args /\ cArgs \in Args /\ aEnv \in Env
  /\ bound \in SockPath \cup {NotYet}
  /\ cliPath \in SockPath \cup {NotYet}
  /\ appPath \in SockPath \cup {NotYet}

\* The two variables every endpoint consults agree.
SameLookup(e1, e2) ==
  e1.FAKENOTIFY_SOCKET = e2.FAKENOTIFY_SOCKET /\ e1.XDG_RUNTIME_DIR = e2.XDG_RUNTIME_DIR

\* spec.md 6 (Socket location): both endpoints agree on the resolution
\* order.  A daemon started without --socket, an application and a CLI
\* command (also without --socket) that see the same FAKENOTIFY_SOCKET and
\* XDG_RUNTIME_DIR all use one path, whatever config file or FAKENOTIFYD_
\* variables the daemon and the command each have.
AgreeOnSocket ==
  /\ (bound # NotYet /\ appPath # NotYet /\ dArgs.socket = Unset
        /\ SameLookup(dArgs.env, aEnv)) => bound = appPath
  /\ (bound # NotYet /\ cliPath # NotYet /\ dArgs.socket = Unset /\ cArgs.socket = Unset
        /\ SameLookup(dArgs.env, cArgs.env)) => bound = cliPath

\* spec.md 6 (CLI surface) lists daemon.socket among the config file's
\* fields, and config.rs merges defaults, file, environment and command
\* line in that order: with no --socket and no FAKENOTIFY_SOCKET, the
\* daemon binds the configured daemon.socket.
ConfigSocketHonoured ==
  bound # NotYet /\ SocketArg(dArgs) = NotYet => bound = load(dArgs)

=============================================================================
