---------------------------- MODULE MCManagedFds ----------------------------
(* ManagedFds instantiated for TLC: two application threads, three         *)
(* descriptor numbers, so that a freed number is reused while another is   *)
(* still open.                                                             *)
EXTENDS ManagedFds

CONSTANTS t1, t2

MCFds == {3, 4, 5}
=============================================================================
