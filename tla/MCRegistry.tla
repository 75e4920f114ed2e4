----------------------------- MODULE MCRegistry -----------------------------
(* Registry instantiated for TLC: two nested paths, so that a watch on the *)
(* parent and one on the child coexist, two event bits, so that masks are  *)
(* merged, three client ids, so that two clients share a watch while a     *)
(* third comes later, and three descriptors, so that a path is watched,    *)
(* dropped and watched again under a fresh one.                            *)
EXTENDS Registry

MCPaths == {<<"a">>, <<"a", "b">>}
MCEvents == {"IN_CREATE", "IN_DELETE"}
=============================================================================
