------------------------------ MODULE MCLibrary ------------------------------
(***************************************************************************)
(* Three numbers, two unique_fd and a FILE: a table that is often full.    *)
(***************************************************************************)
EXTENDS Library

CONSTANTS left, right, object1, object2

MCFd == 0 .. 2
MCHandle == {left, right}
MCObject == {object1, object2}
MCContent == <<"a", "b">>
=============================================================================
