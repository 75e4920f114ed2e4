---------------------------- MODULE MCDispatcher ----------------------------
(* Dispatcher instantiated for TLC.  A watch root and one path below it;   *)
(* for the rename run, two sibling names below the root.                    *)
EXTENDS Dispatcher

a == <<"a">>
ab == <<"a", "b">>
ac == <<"a", "c">>

MCPaths == {a, ab}
MCRenamePaths == {a, ab, ac}
MCConfigWatches == {[path |-> a, recursive |-> TRUE]}
MCEvents == {"IN_CREATE", "IN_MOVED_TO"}
MCKinds == {"Create", "RenameFrom", "RenameTo", "Other"}
MCAllClients == 1..MaxClientId

\* Smaller alphabets for the runs that check one disagreement each.
d == <<"d">>
MCUnpolledPaths == {a, d}
MCCreate == {"Create"}
MCCreateBit == {"IN_CREATE"}
MCRenameKinds == {"RenameFrom", "RenameTo"}
MCRenameBits == {"IN_MOVED_FROM", "IN_MOVED_TO"}
MCSecondReads == {2}
MCOnePath == {a}
\* Each component's byte: its ASCII letter.
MCCharCode == ("a" :> 97) @@ ("b" :> 98) @@ ("c" :> 99) @@ ("d" :> 100)
=============================================================================
