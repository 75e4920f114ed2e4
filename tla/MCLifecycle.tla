---------------------------- MODULE MCLifecycle ----------------------------
(* Lifecycle instantiated for TLC: two `start` processes on one socket     *)
(* path, and kill(2) with the signals each configuration names.            *)
EXTENDS Lifecycle

CONSTANTS d1, d2, none

MCStopSignals == {"TERM", "INT", "KILL"}
MCAllSignals == {"TERM", "INT", "HUP", "KILL"}
=============================================================================
