---------------------------- MODULE MCFileStream ----------------------------
(***************************************************************************)
(* A file x in a directory d, another beside the directory, and a free     *)
(* name in the directory that is written without it, the current one.      *)
(***************************************************************************)
EXTENDS FileStream

CONSTANTS inode1, inode2, inode3

d == <<"d">>
e == <<"e">>
dx == <<"d", "x">>
dy == <<"d", "y">>
here == <<".">>
y == <<".", "y">>

MCPaths == {d, e, dx, dy, here, y}
MCFiles == {inode1, inode2, inode3}
MCTrees == {[p \in MCPaths |->
              CASE p = d -> Dir [] p = dx -> inode1 [] p = e -> inode2
                [] p = here -> [to |-> d] [] OTHER -> None]}
MCSharp == [p \in MCPaths |-> p]
MCObjectPaths == {dx, e, y}
MCBare == {y}
MCWords == [p \in MCPaths |-> <<p>>]
MCDestinations == {[path |-> y, slash |-> FALSE]}
MCEnvPaths == {d}
MCEnvNodes == {Dir}
=============================================================================
