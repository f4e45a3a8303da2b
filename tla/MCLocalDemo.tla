----------------------------- MODULE MCLocalDemo -----------------------------
(***************************************************************************)
(* Two servers that want the same name and two clients: one is served, the *)
(* other waits in the queue.                                               *)
(***************************************************************************)
EXTENDS LocalDemo

CONSTANTS server1, server2, client1, client2

MCServers == {server1, server2}
MCClients == {client1, client2}
=============================================================================
