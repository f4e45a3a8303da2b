---------------------------- MODULE LocalSockets ----------------------------
(***************************************************************************)
(* socket_local_server and socket_local_client over the kernel's local     *)
(* stream sockets: one name, who is bound to it, the queue of each         *)
(* listening socket, and for every client its connection, a queue of       *)
(* messages in each direction and the ends that are open.                  *)
(***************************************************************************)
EXTENDS Integers, Sequences, FiniteSets

CONSTANTS Servers, Clients, None,
          Namespace,      \* of the name all of them use
          LISTEN_BACKLOG

ASSUME NamespaceAssumption == Namespace \in {"ABSTRACT", "RESERVED", "FILESYSTEM"}
ASSUME ProcessAssumption == None \notin Servers

VARIABLES holder,   \* the server whose socket a connect by name finds
          listens,  \* the servers that listen
          backlog,  \* the clients each listening socket has queued
          peer,     \* the server of a client's connection
          up, down, \* what was written and not read: to and from the server
          ends      \* the ends of a client's connection that are open

kernel == <<holder, listens, backlog, peer, up, down, ends>>

\* socket_make_sockaddr_un in bytes: sun_path has SunPath of them after Offset.
SunPath == 108
Offset == 2
Prefix(ns) == IF ns = "RESERVED" THEN 12 ELSE 0
ZeroByte == 1
MakesAddress(length, ns) ==
    IF ns = "ABSTRACT" THEN length + ZeroByte <= SunPath ELSE length + Prefix(ns) <= SunPath - ZeroByte
AddressLength(length, ns) == Prefix(ns) + length + Offset + 1

KernelInit ==
    /\ holder = None
    /\ listens = {}
    /\ backlog = [s \in Servers |-> <<>>]
    /\ peer = [c \in Clients |-> None]
    /\ up = [c \in Clients |-> <<>>]
    /\ down = [c \in Clients |-> <<>>]
    /\ ends = [c \in Clients |-> {}]

\* A file's name is unlinked before the bind, so that bind finds it free.
Unlinks_Always == TRUE
Unlinks == Namespace \in {"RESERVED", "FILESYSTEM"}
Binds == Unlinks \/ holder = None
socket_local_server_bind(s) ==
    /\ holder' = IF Binds THEN s ELSE holder
    /\ UNCHANGED <<listens, backlog, peer, up, down, ends>>
listen(s) ==
    /\ listens' = listens \cup {s}
    /\ UNCHANGED <<holder, backlog, peer, up, down, ends>>

\* A connect is refused without a listening socket under the name, and waits
\* when its queue is full.
Refused == holder = None \/ holder \notin listens
socket_local_client(c) ==
    /\ ~Refused /\ Len(backlog[holder]) <= LISTEN_BACKLOG
    /\ backlog' = [backlog EXCEPT ![holder] = Append(@, c)]
    /\ peer' = [peer EXCEPT ![c] = holder]
    /\ ends' = [ends EXCEPT ![c] = {"client", "server"}]
    /\ UNCHANGED <<holder, listens, up, down>>

accept(s) == /\ backlog[s] # <<>>
             /\ backlog' = [backlog EXCEPT ![s] = Tail(@)]
             /\ UNCHANGED <<holder, listens, peer, up, down, ends>>

\* A process has ended or closed its sockets: those still queued get the end
\* of the stream too.
ServerCloses(s) ==
    /\ holder' = IF holder = s THEN None ELSE holder
    /\ listens' = listens \ {s}
    /\ backlog' = [backlog EXCEPT ![s] = <<>>]
    /\ ends' = [c \in Clients |-> IF peer[c] = s THEN ends[c] \ {"server"} ELSE ends[c]]
    /\ UNCHANGED <<peer, up, down>>
ClientCloses(c) ==
    /\ ends' = [ends EXCEPT ![c] = @ \ {"client"}]
    /\ UNCHANGED <<holder, listens, backlog, peer, up, down>>
-----------------------------------------------------------------------------
\* An address is refused exactly when it does not fit into sockaddr_un with its
\* prefix and its zero byte, and its length never exceeds the structure.
AddressFits ==
    \A length \in 0 .. SunPath + 2, ns \in {"ABSTRACT", "RESERVED", "FILESYSTEM"} :
        MakesAddress(length, ns) <=> AddressLength(length, ns) <= Offset + SunPath
=============================================================================
