------------------------------ MODULE Registry ------------------------------
(***************************************************************************)
(* The daemon's shared registry, DaemonState in                           *)
(* crates/daemon/src/state.rs: the clients table (each Client with its     *)
(* Vec of watch descriptors), the watches table keyed by descriptor, the   *)
(* path_to_wd deduplication index and the two monotonic id counters.       *)
(*                                                                         *)
(* Every DaemonState method takes its parking_lot locks for its whole body *)
(* and never awaits while holding them, so each method is one atomic step. *)
(* The methods are written as operators over the current state so that    *)
(* the modules composing the registry (Session, Dispatcher) can call them  *)
(* inside their own handler steps.                                         *)
(***************************************************************************)
EXTENDS Naturals, Sequences, FiniteSets, SequencesExt, Functions

CONSTANTS
  Paths,        \* canonical absolute paths, as sequences of components; <<>> is "/"
  Events,       \* the EventMask bits a request may carry, abstracted to names
  MaxClientId,  \* bound on next_client_id (an AtomicU64 in the code)
  MaxWd,        \* bound on next_wd (an AtomicI32 in the code)
  MaxListLen    \* bound on a Client.watches Vec, which add_watch grows on every call

ASSUME /\ Paths \subseteq Seq(STRING)
       /\ MaxClientId \in Nat \ {0}
       /\ MaxWd \in Nat \ {0}

VARIABLES
  clients,        \* ClientId -> Seq(WatchDescriptor): the clients map and each Client.watches
  watches,        \* WatchDescriptor -> WatchInfo
  path_to_wd,     \* PathBuf -> WatchDescriptor
  next_client_id, \* next value fetch_add returns for a client id
  next_wd         \* next value fetch_add returns for a watch descriptor

regVars == <<clients, watches, path_to_wd, next_client_id, next_wd>>

ClientId == 1..MaxClientId
WatchDescriptor == 1..MaxWd

WatchInfo == [wd : WatchDescriptor, path : Paths, mask : SUBSET Events,
              recursive : BOOLEAN, clients : Seq(ClientId)]

\* find_watch_for_path returns None; no descriptor is ever 0.
NoWatch == [wd |-> 0, path |-> <<>>, mask |-> {}, recursive |-> FALSE, clients |-> <<>>]

DropKey(f, k) == Restrict(f, DOMAIN f \ {k})

RegInit ==
  /\ clients = <<>>
  /\ watches = <<>>
  /\ path_to_wd = <<>>
  /\ next_client_id = 1
  /\ next_wd = 1

-----------------------------------------------------------------------------
(* DaemonState methods.                                                    *)

\* Mutant: the id read after the increment (add-then-fetch) instead of before.
register_client_late_id ==
  /\ next_client_id <= MaxClientId
  /\ clients' = (next_client_id + 1 :> <<>>) @@ clients
  /\ next_client_id' = next_client_id + 1
  /\ UNCHANGED <<watches, path_to_wd, next_wd>>

\* register_client: fetch_add a fresh id and insert the client with no watches.
register_client ==
  /\ next_client_id <= MaxClientId
  /\ clients' = (next_client_id :> <<>>) @@ clients
  /\ next_client_id' = next_client_id + 1
  /\ UNCHANGED <<watches, path_to_wd, next_wd>>

\* The id register_client hands out, read in the state before it runs.
NewClientId == next_client_id

\* Mutant: the emptied watch is removed but its path_to_wd key is left.
Unsubscribe_keeps_index(st, c, wd) ==
  IF wd \notin DOMAIN st.watches THEN st
  ELSE LET rest == SelectSeq(st.watches[wd].clients, LAMBDA x : x # c)
       IN IF rest = <<>>
          THEN [st EXCEPT !.watches = DropKey(st.watches, wd)]
          ELSE [st EXCEPT !.watches[wd].clients = rest]

\* One pass of the unregister_client loop body: retain every subscriber but
\* c, and when none is left remove the watch and the path_to_wd key of its
\* path.  st is the pair of tables the loop holds write locks on.
Unsubscribe(st, c, wd) ==
  IF wd \notin DOMAIN st.watches THEN st
  ELSE LET rest == SelectSeq(st.watches[wd].clients, LAMBDA x : x # c)
       IN IF rest = <<>>
          THEN [watches    |-> DropKey(st.watches, wd),
                path_to_wd |-> DropKey(st.path_to_wd, st.watches[wd].path)]
          ELSE [st EXCEPT !.watches[wd].clients = rest]

\* unregister_client: snapshot the client's watch list, run the loop over it
\* in order, then remove the client.  An unknown id returns early.
unregister_client(c) ==
  /\ IF c \in DOMAIN clients
     THEN LET st == FoldLeft(LAMBDA acc, wd : Unsubscribe(acc, c, wd),
                             [watches |-> watches, path_to_wd |-> path_to_wd],
                             clients[c])
          IN /\ watches' = st.watches
             /\ path_to_wd' = st.path_to_wd
             /\ clients' = DropKey(clients, c)
     ELSE UNCHANGED <<watches, path_to_wd, clients>>
  /\ UNCHANGED <<next_client_id, next_wd>>

\* Whether add_watch for path p joins an existing watch: the path is indexed
\* and the indexed descriptor still has a WatchInfo.
Deduplicates(p) == p \in DOMAIN path_to_wd /\ path_to_wd[p] \in DOMAIN watches

\* The descriptor add_watch returns for p, read in the state before it runs.
AddWatchResult(p) == IF Deduplicates(p) THEN path_to_wd[p] ELSE next_wd

\* Client::add_watch on the client's list, a no-op for an unknown client.
RecordWatch(c, wd) ==
  IF c \in DOMAIN clients THEN [clients EXCEPT ![c] = Append(@, wd)] ELSE clients

\* Mutant: a joining client's mask replaces the watch's mask.
add_watch_replaces_mask(c, p, m, rec) ==
  /\ IF Deduplicates(p)
     THEN LET wd == path_to_wd[p] IN
          /\ watches' = [watches EXCEPT
                           ![wd].clients = IF c \in Range(@) THEN @ ELSE Append(@, c),
                           ![wd].mask = m]
          /\ clients' = RecordWatch(c, wd)
          /\ UNCHANGED <<path_to_wd, next_wd>>
     ELSE /\ next_wd <= MaxWd
          /\ watches' = (next_wd :> [wd |-> next_wd, path |-> p, mask |-> m,
                                      recursive |-> rec, clients |-> <<c>>]) @@ watches
          /\ path_to_wd' = (p :> next_wd) @@ path_to_wd
          /\ clients' = RecordWatch(c, next_wd)
          /\ next_wd' = next_wd + 1
  /\ UNCHANGED next_client_id

\* Mutant: a joining client is pushed without the contains check.
add_watch_no_contains(c, p, m, rec) ==
  /\ IF Deduplicates(p)
     THEN LET wd == path_to_wd[p] IN
          /\ watches' = [watches EXCEPT ![wd].clients = Append(@, c), ![wd].mask = @ \cup m]
          /\ clients' = RecordWatch(c, wd)
          /\ UNCHANGED <<path_to_wd, next_wd>>
     ELSE /\ next_wd <= MaxWd
          /\ watches' = (next_wd :> [wd |-> next_wd, path |-> p, mask |-> m,
                                      recursive |-> rec, clients |-> <<c>>]) @@ watches
          /\ path_to_wd' = (p :> next_wd) @@ path_to_wd
          /\ clients' = RecordWatch(c, next_wd)
          /\ next_wd' = next_wd + 1
  /\ UNCHANGED next_client_id

\* add_watch: join the existing watch of the path (subscribe once, OR the
\* mask in, keep its recursive flag) or create a watch under a fresh
\* descriptor; in both cases push the descriptor on the client's list.
add_watch(c, p, m, rec) ==
  /\ IF Deduplicates(p)
     THEN LET wd == path_to_wd[p] IN
          /\ watches' = [watches EXCEPT
                           ![wd].clients = IF c \in Range(@) THEN @ ELSE Append(@, c),
                           ![wd].mask = @ \cup m]
          /\ clients' = RecordWatch(c, wd)
          /\ UNCHANGED <<path_to_wd, next_wd>>
     ELSE /\ next_wd <= MaxWd
          /\ watches' = (next_wd :> [wd |-> next_wd, path |-> p, mask |-> m,
                                      recursive |-> rec, clients |-> <<c>>]) @@ watches
          /\ path_to_wd' = (p :> next_wd) @@ path_to_wd
          /\ clients' = RecordWatch(c, next_wd)
          /\ next_wd' = next_wd + 1
  /\ UNCHANGED next_client_id

\* Whether remove_watch(c, wd) finds the watch and so returns true.
RemoveWatchFound(wd) == wd \in DOMAIN watches

\* Mutant: the descriptor stays in the client's own list.
remove_watch_keeps_client_list(c, wd) ==
  /\ IF RemoveWatchFound(wd)
     THEN LET st == Unsubscribe([watches |-> watches, path_to_wd |-> path_to_wd], c, wd)
          IN /\ watches' = st.watches
             /\ path_to_wd' = st.path_to_wd
             /\ UNCHANGED clients
     ELSE UNCHANGED <<watches, path_to_wd, clients>>
  /\ UNCHANGED <<next_client_id, next_wd>>

\* remove_watch: drop c from the watch's subscribers and the descriptor from
\* c's list, deleting the watch when no subscriber is left.  An unknown
\* descriptor changes nothing (and returns false).
remove_watch(c, wd) ==
  /\ IF RemoveWatchFound(wd)
     THEN LET st == Unsubscribe([watches |-> watches, path_to_wd |-> path_to_wd], c, wd)
          IN /\ watches' = st.watches
             /\ path_to_wd' = st.path_to_wd
             /\ clients' = IF c \in DOMAIN clients
                           THEN [clients EXCEPT ![c] = SelectSeq(@, LAMBDA w : w # wd)]
                           ELSE clients
     ELSE UNCHANGED <<watches, path_to_wd, clients>>
  /\ UNCHANGED <<next_client_id, next_wd>>

\* Nearest ancestor of p (strictly above it) whose indexed watch is recursive.
RECURSIVE RecursiveAncestor(_)
RecursiveAncestor(p) ==
  IF p = <<>> THEN NoWatch
  ELSE LET q == Front(p) IN
       IF q \in DOMAIN path_to_wd /\ path_to_wd[q] \in DOMAIN watches
          /\ watches[path_to_wd[q]].recursive
       THEN watches[path_to_wd[q]]
       ELSE RecursiveAncestor(q)

\* find_watch_for_path: a clone of the exact-match watch (None if its
\* descriptor has no WatchInfo), else of the nearest recursive ancestor.
find_watch_for_path(p) ==
  IF p \in DOMAIN path_to_wd
  THEN IF path_to_wd[p] \in DOMAIN watches THEN watches[path_to_wd[p]] ELSE NoWatch
  ELSE RecursiveAncestor(p)

\* get_clients_for_watch: the subscribers of wd that are still in clients.
get_clients_for_watch(wd) ==
  IF wd \in DOMAIN watches
  THEN SelectSeq(watches[wd].clients, LAMBDA c : c \in DOMAIN clients)
  ELSE <<>>

-----------------------------------------------------------------------------
RegTypeOK ==
  /\ DOMAIN clients \subseteq ClientId
  /\ \A c \in DOMAIN clients : clients[c] \in Seq(WatchDescriptor)
  /\ DOMAIN watches \subseteq WatchDescriptor
  /\ \A wd \in DOMAIN watches : watches[wd] \in WatchInfo
  /\ DOMAIN path_to_wd \subseteq Paths
  /\ \A p \in DOMAIN path_to_wd : path_to_wd[p] \in WatchDescriptor
  /\ next_client_id \in 1..MaxClientId + 1
  /\ next_wd \in 1..MaxWd + 1

-----------------------------------------------------------------------------
(* The registry driven by its callers in crates/daemon/src/server.rs: a   *)
(* connection registers a client, its request loop adds watches (always   *)
(* recursive, as handle_request passes true) and removes watches by any    *)
(* descriptor it names, and its exit unregisters it.  Each client's task   *)
(* makes these calls one at a time; tasks of different clients interleave *)
(* at method granularity.  The Session module adds the connection itself. *)

RegNext ==
  \/ register_client
  \/ \E c \in DOMAIN clients :
       \/ /\ Len(clients[c]) < MaxListLen
          /\ \E p \in Paths, m \in SUBSET Events : add_watch(c, p, m, TRUE)
       \/ \E wd \in WatchDescriptor : remove_watch(c, wd)
       \/ unregister_client(c)

\* The model stops once every client id of the bound has come and gone.
IdsExhausted ==
  /\ next_client_id > MaxClientId
  /\ DOMAIN clients = {}
  /\ UNCHANGED regVars

RegNextOrStop == RegNext \/ IdsExhausted

RegSpec == RegInit /\ [][RegNextOrStop]_regVars

-----------------------------------------------------------------------------
(* Properties.                                                             *)

\* spec.md 3 and 8: a client is a subscriber of a watch exactly when the
\* watch's descriptor is in that client's list, and a client's list names
\* only live watches; add_watch deduplication, remove_watch and
\* unregister_client by several clients in any order must keep the two
\* sides of the client/watch relation in step.
SubscriptionSymmetry ==
  /\ \A wd \in DOMAIN watches, c \in ClientId :
       c \in Range(watches[wd].clients) <=> (c \in DOMAIN clients /\ wd \in Range(clients[c]))
  /\ \A c \in DOMAIN clients : Range(clients[c]) \subseteq DOMAIN watches

\* spec.md 3 and 8: path_to_wd indexes exactly the live watches, each under
\* its own path, and no live watch is left without a subscriber, after
\* watches are shared, removed and torn down by disconnects.
PathIndexExact ==
  /\ DOMAIN path_to_wd = {watches[wd].path : wd \in DOMAIN watches}
  /\ \A wd \in DOMAIN watches :
       /\ path_to_wd[watches[wd].path] = wd
       /\ watches[wd].clients # <<>>

\* The registry implements RegistryAbstract: subscriptions per path, a mask
\* that is the union of the masks a watched path was added with, and a
\* descriptor that is stable while the path is watched and fresh when it
\* is watched again (wd values are never reused, state.rs next_wd).
Indexed(p) == p \in DOMAIN path_to_wd /\ path_to_wd[p] \in DOMAIN watches

Abstract == INSTANCE RegistryAbstract WITH
  ClientIds   <- ClientId,
  Descriptors <- WatchDescriptor,
  connected   <- DOMAIN clients,
  subscribers <- [p \in Paths |-> IF Indexed(p) THEN Range(watches[path_to_wd[p]].clients) ELSE {}],
  mask        <- [p \in Paths |-> IF Indexed(p) THEN watches[path_to_wd[p]].mask ELSE {}],
  wdOf        <- [p \in Paths |-> IF Indexed(p) THEN path_to_wd[p] ELSE 0],
  issued      <- 1..(next_wd - 1)

RegistryRefinement == Abstract!Spec

=============================================================================
