----------------------------- MODULE MCMakePath -----------------------------
(***************************************************************************)
(* Two processes want all three directories, a third only the first two,   *)
(* for its log file: its path ends inside theirs.  The path of a fourth     *)
(* one's log file is too long.                                             *)
(***************************************************************************)
EXTENDS MakePath

CONSTANTS a, b, c, d

MCProc == {a, b, c, d}
MCLogProc == {c, d}
MCOverlong == {d}
MCTarget == [p \in MCProc |-> IF p = c THEN 2 ELSE 3]
=============================================================================
