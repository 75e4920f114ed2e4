----------------------------- MODULE MCSession -----------------------------
(* Session instantiated for TLC: one application connection, one CLI     *)
(* probe and one CLI request connection; two nested paths of which one    *)
(* exists, so that both WatchAdded and Error answers occur; one event bit. *)
EXTENDS Session

CONSTANTS app1, probe1, cli1

MCPaths == {<<"a">>, <<"a", "b">>}
MCExisting == {<<"a">>}
MCEvents == {"IN_CREATE"}
MCPingCmds == {"status", "stop"}
MCAddCmds == {"add"}
=============================================================================
