------------------------------- MODULE MCPaths -------------------------------
(***************************************************************************)
(* All texts of up to four names over one or two ordinary ones.            *)
(***************************************************************************)
EXTENDS Paths

MCName == {"a", "b"}
=============================================================================
