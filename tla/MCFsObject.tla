----------------------------- MODULE MCFsObject -----------------------------
(***************************************************************************)
(* A directory d that holds a file x and is the current one, a link l to   *)
(* it, to the file, or to a directory "d x;", which a shell takes for d    *)
(* and for the x in d, and for the end of the command.  e is a free name,  *)
(* the one create takes for l; one name below e/d, so that a directory can *)
(* be moved and copied with what it holds.                                 *)
(***************************************************************************)
EXTENDS FsObject

CONSTANTS data, new

d == <<"d">>
e == <<"l#">>
l == <<"l">>
dx == <<"d", "x">>
ex == <<"l#", "x">>
ed == <<"l#", "d">>
edx == <<"l#", "d", "x">>
semi == <<"d x;">>
here == <<".">>
x == <<".", "x">>

MCPaths == {d, e, l, dx, ex, ed, edx, semi, here, x}
MCFiles == {data, new}
MCBare == {x}
MCSigns == {semi}
MCWords == [p \in MCPaths |-> IF p = semi THEN <<d, x>> ELSE <<p>>]

Tree(n) == [p \in MCPaths |->
              CASE p = d -> Dir [] p = dx -> data [] p = l -> n [] p = here -> [to |-> d]
                [] p = n.to /\ p = semi -> Dir [] OTHER -> None]
MCTrees == {Tree([to |-> dx]), Tree([to |-> d]), Tree([to |-> semi])}

MCSharp == [p \in MCPaths |-> IF p = l THEN e ELSE p]
MCObjectPaths == {dx, l, x}
MCDestinations == {[path |-> e, slash |-> TRUE], [path |-> e, slash |-> FALSE],
                   [path |-> ex, slash |-> FALSE]}
MCEnvPaths == {d, dx}
MCEnvNodes == {Dir}
=============================================================================
