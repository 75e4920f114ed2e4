----------------------------- MODULE ManagedFds -----------------------------
(***************************************************************************)
(* The preload library's MANAGED_FDS set against the process's fd table    *)
(* (crates/preload/src/lib.rs).  The set holds fd numbers only: an fd is   *)
(* taken for a daemon socket by inotify_add_watch, inotify_rm_watch and    *)
(* close whenever its number is in the set.  Application threads call the  *)
(* interposed functions concurrently; the kernel gives every new fd the    *)
(* lowest free number.  Each MANAGED_FDS access holds the RwLock for that  *)
(* access only, and every kernel call is atomic.                           *)
(***************************************************************************)
EXTENDS Naturals, FiniteSetsExt

CONSTANTS
  Threads,   \* application threads
  Fds,       \* the fd numbers the process may use
  MaxObjs    \* bound on the files, sockets and inotify instances opened

ASSUME /\ Fds \subseteq Nat /\ Fds # {} /\ MaxObjs \in Nat

Free == [kind |-> "free", id |-> 0]
\* What an fd refers to: a daemon socket, a kernel inotify instance, a file.
Obj(kind, id) == [kind |-> kind, id |-> id]

VARIABLES
  fdt,      \* Fds -> the object the fd refers to, or Free
  managed,  \* MANAGED_FDS
  regObj,   \* Fds -> the socket an fd was registered for (ghost)
  th,       \* Threads -> [pc, fd]: the interposed call a thread is in
  nObjs     \* objects opened so far

vars == <<fdt, managed, regObj, th, nObjs>>

FreeFds == {fd \in Fds : fdt[fd] = Free}
\* The kernel allocates the lowest free descriptor.
Lowest == Min(FreeFds)
\* Descriptors the application knows: open, and not half-way through an
\* inotify_init or a close of another thread.
Known == {fd \in Fds : fdt[fd] # Free /\ \A t \in Threads : th[t].pc = "idle" \/ th[t].fd # fd}

Idle(t) == th' = [th EXCEPT ![t] = [pc |-> "idle", fd |-> 0]]

\* An open(2) of the kernel: a new object at the lowest free number.
Allocate(kind) ==
  /\ FreeFds # {} /\ nObjs < MaxObjs
  /\ fdt' = [fdt EXCEPT ![Lowest] = Obj(kind, nObjs + 1)]
  /\ nObjs' = nObjs + 1

Init ==
  /\ fdt = [fd \in Fds |-> Free]
  /\ managed = {}
  /\ regObj = [fd \in Fds |-> Free]
  /\ th = [t \in Threads |-> [pc |-> "idle", fd |-> 0]]
  /\ nObjs = 0

-----------------------------------------------------------------------------
(* inotify_init_impl                                                       *)

\* connect_to_daemon: the socket gets an fd before registration.
connect_to_daemon(t) ==
  /\ th[t].pc = "idle"
  /\ Allocate("sock")
  /\ th' = [th EXCEPT ![t] = [pc |-> "registering", fd |-> Lowest]]
  /\ UNCHANGED <<managed, regObj>>

\* ClientRegistered: register_fd(stream.as_raw_fd()), leak the stream and
\* return the fd.
register_fd(t) ==
  /\ th[t].pc = "registering"
  /\ managed' = managed \cup {th[t].fd}
  /\ regObj' = [regObj EXCEPT ![th[t].fd] = fdt[th[t].fd]]
  /\ Idle(t)
  /\ UNCHANGED <<fdt, nObjs>>

\* Registration fails: -1/EIO, and dropping the stream closes the fd.
registration_failed(t) ==
  /\ th[t].pc = "registering"
  /\ fdt' = [fdt EXCEPT ![th[t].fd] = Free]
  /\ Idle(t)
  /\ UNCHANGED <<managed, regObj, nObjs>>

\* Mutant: the fallback's kernel fd is registered as well.
call_real_inotify_init1_registers(t) ==
  /\ th[t].pc = "idle"
  /\ Allocate("inotify")
  /\ managed' = managed \cup {Lowest}
  /\ regObj' = [regObj EXCEPT ![Lowest] = Obj("inotify", nObjs + 1)]
  /\ UNCHANGED th

\* Before the ctor has run, or with no daemon: the real inotify_init1.
call_real_inotify_init1(t) ==
  /\ th[t].pc = "idle"
  /\ Allocate("inotify")
  /\ UNCHANGED <<managed, regObj, th>>

-----------------------------------------------------------------------------
(* The rest of the application.                                            *)

\* Any other open(2), socket(2), pipe(2) ... of the application.
open_file(t) ==
  /\ th[t].pc = "idle"
  /\ Allocate("file")
  /\ UNCHANGED <<managed, regObj, th>>

\* Mutant: close leaves the number in MANAGED_FDS.
close_keeps_fd(t, fd) ==
  /\ th[t].pc = "idle"
  /\ fd \in Known
  /\ th' = [th EXCEPT ![t] = [pc |-> "closing", fd |-> fd]]
  /\ UNCHANGED <<fdt, managed, regObj, nObjs>>

\* close: if is_managed_fd, unregister_fd (one lock each) ...
close_unregister(t, fd) ==
  /\ th[t].pc = "idle"
  /\ fd \in Known
  /\ managed' = managed \ {fd}
  /\ th' = [th EXCEPT ![t] = [pc |-> "closing", fd |-> fd]]
  /\ UNCHANGED <<fdt, regObj, nObjs>>

\* ... then the real close frees the number.
close_real(t) ==
  /\ th[t].pc = "closing"
  /\ fdt' = [fdt EXCEPT ![th[t].fd] = Free]
  /\ Idle(t)
  /\ UNCHANGED <<managed, regObj, nObjs>>

\* A close the library does not see: close_range(2), closefrom(3), or
\* the raw close syscall, over every descriptor the application knows.
close_range(t) ==
  /\ th[t].pc = "idle"
  /\ Known # {}
  /\ fdt' = [fd \in Fds |-> IF fd \in Known THEN Free ELSE fdt[fd]]
  /\ UNCHANGED <<managed, regObj, th, nObjs>>

-----------------------------------------------------------------------------
Thread(t) ==
  \/ connect_to_daemon(t) \/ register_fd(t) \/ registration_failed(t)
  \/ call_real_inotify_init1(t) \/ open_file(t)
  \/ \E fd \in Fds : close_unregister(t, fd)
  \/ close_real(t)

\* Every object has been opened and every call has returned.
Done ==
  /\ nObjs = MaxObjs
  /\ \A t \in Threads : th[t].pc = "idle"
  /\ UNCHANGED vars

Next == (\E t \in Threads : Thread(t)) \/ Done

Spec == Init /\ [][Next]_vars

\* An application that also closes descriptors behind the library's back.
NextClosingRange == Next \/ \E t \in Threads : close_range(t)

SpecClosingRange == Init /\ [][NextClosingRange]_vars

-----------------------------------------------------------------------------
TypeOK ==
  /\ \A fd \in Fds : fdt[fd] = Free \/ fdt[fd] \in [kind : {"sock", "inotify", "file"},
                                                    id : 1..MaxObjs]
  /\ managed \subseteq Fds
  /\ regObj \in [Fds -> {Free} \cup [kind : {"sock"}, id : 1..MaxObjs]]
  /\ \A t \in Threads : th[t].pc \in {"idle", "registering", "closing"}
  /\ nObjs \in 0..MaxObjs

\* Every number in MANAGED_FDS is free or still names the daemon socket it
\* was registered for, never a descriptor opened since: inotify_add_watch
\* and inotify_rm_watch on a managed fd write to that daemon, and a kernel
\* inotify fd or a file that later gets a freed number is never taken for one
\* (is_managed_fd, close, and fd reuse across threads).
ManagedAreOwnSockets ==
  \A fd \in managed : fdt[fd] \in {Free, regObj[fd]}

=============================================================================
