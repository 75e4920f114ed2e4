-------------------------- MODULE RegistryAbstract --------------------------
(***************************************************************************)
(* What the daemon registry promises its callers (spec.md sections 3 and   *)
(* 4.3), without its tables: the set of connected clients, for every path  *)
(* the set of clients subscribed to it, the event mask of a watched path   *)
(* (the union of the masks it was added with, never narrowed while it is  *)
(* watched), and the descriptor a watched path is known by: fixed while    *)
(* the path stays watched, and never one handed out before when the path   *)
(* becomes watched again.                                                  *)
(***************************************************************************)
EXTENDS Naturals, FiniteSets

CONSTANTS Paths, Events, ClientIds, Descriptors

VARIABLES
  connected,    \* clients whose connection is registered
  subscribers,  \* Paths -> SUBSET ClientIds
  mask,         \* Paths -> SUBSET Events; {} for an unwatched path
  wdOf,         \* Paths -> Descriptors \cup {0}; 0 for an unwatched path
  issued        \* every descriptor ever handed out

absVars == <<connected, subscribers, mask, wdOf, issued>>

Watched(p) == subscribers[p] # {}

Init ==
  /\ connected = {}
  /\ subscribers = [p \in Paths |-> {}]
  /\ mask = [p \in Paths |-> {}]
  /\ wdOf = [p \in Paths |-> 0]
  /\ issued = {}

Connect(c) ==
  /\ c \in ClientIds \ connected
  /\ connected' = connected \cup {c}
  /\ UNCHANGED <<subscribers, mask, wdOf, issued>>

\* A path first watched gets a descriptor never issued before.
Subscribe(c, p, m) ==
  /\ c \in connected
  /\ subscribers' = [subscribers EXCEPT ![p] = @ \cup {c}]
  /\ mask' = [mask EXCEPT ![p] = @ \cup m]
  /\ IF Watched(p)
     THEN UNCHANGED <<wdOf, issued>>
     ELSE \E d \in Descriptors \ issued :
            /\ wdOf' = [wdOf EXCEPT ![p] = d]
            /\ issued' = issued \cup {d}
  /\ UNCHANGED connected

\* The state of the paths after the clients in gone leave them: a path left
\* without subscribers loses its mask and its descriptor.
Leave(gone) ==
  LET rest == [p \in Paths |-> subscribers[p] \ gone[p]] IN
  /\ subscribers' = rest
  /\ mask' = [p \in Paths |-> IF rest[p] = {} THEN {} ELSE mask[p]]
  /\ wdOf' = [p \in Paths |-> IF rest[p] = {} THEN 0 ELSE wdOf[p]]

Unsubscribe(c, p) ==
  /\ c \in subscribers[p]
  /\ Leave([q \in Paths |-> IF q = p THEN {c} ELSE {}])
  /\ UNCHANGED <<connected, issued>>

Disconnect(c) ==
  /\ c \in connected
  /\ connected' = connected \ {c}
  /\ Leave([q \in Paths |-> {c}])
  /\ UNCHANGED issued

Next ==
  \/ \E c \in ClientIds : Connect(c) \/ Disconnect(c)
  \/ \E c \in ClientIds, p \in Paths :
       \/ \E m \in SUBSET Events : Subscribe(c, p, m)
       \/ Unsubscribe(c, p)

Spec == Init /\ [][Next]_absVars

=============================================================================
