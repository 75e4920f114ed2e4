---------------------------- MODULE MCSocketPath ----------------------------
(* SocketPath instantiated for TLC: one socket value and one runtime       *)
(* directory.  Every property compares paths that come from different      *)
(* sources (a variable, the XDG directory, the default), which one value   *)
(* of each already tells apart.                                            *)
EXTENDS SocketPath

CONSTANTS unset

MCSockVals == {"s1"}
MCRuntimeDirs == {"x1"}
=============================================================================
