----------------------------- MODULE MCListing -----------------------------
(* Values of Listing's constants for TLC: three directories, one of which  *)
(* has a path that names two others to the shell, and among the names      *)
(* one that loses a blank and is then another one.                         *)
EXTENDS Listing

CONSTANTS root, dir, odd, x, xBlank, link, dot

MCTrim == [n \in Names |-> IF n = xBlank THEN x ELSE n]
MCLists == [d \in Dirs |-> IF d = odd THEN {root, dir} ELSE {d}]
MCDisks == {[d \in Dirs |-> IF d = root THEN {x} ELSE IF d = dir THEN inside ELSE Absent] :
               inside \in {Absent, {x, link}, {xBlank, dot}}}
=============================================================================
