------------------------------ MODULE LocalDemo ------------------------------
(***************************************************************************)
(* The programs local-server and local-client, several of each started at  *)
(* any time.  A word is what the user types, a message what write sends;   *)
(* only a first character '~' matters, it is the word Tilde.               *)
(***************************************************************************)
EXTENDS LocalSockets

CONSTANT MaxWords  \* bound: words a user types before the ~

VARIABLES server,  \* where each server is, and the client it accepted
          client,  \* where each client is, its buffer, and whether std::cin is at its end
          typed,   \* how many words each user has typed
          hurt     \* history: a client was killed, or its input ended

programs == <<server, client, typed, hurt>>
demoVars == <<kernel, programs>>

Empty == "empty"
Word == "word"
Tilde == "tilde"
Reply == "reply"
Ended == {"exit", "killed"}

DemoInit ==
    /\ KernelInit
    /\ server = [s \in Servers |-> [at |-> "start", cfd |-> None]]
    /\ client = [c \in Clients |-> [at |-> "start", buffer |-> Empty, eof |-> FALSE]]
    /\ typed = [c \in Clients |-> 0]
    /\ hurt = FALSE

ServerAt(s, at) == server' = [server EXCEPT ![s].at = at] /\ UNCHANGED <<client, typed, hurt>>
ClientAt(c, at) == client' = [client EXCEPT ![c].at = at] /\ UNCHANGED <<server, typed, hurt>>
ServerEnds(s, at) == ServerAt(s, at) /\ ServerCloses(s)
ClientEnds(c, at) == ClientAt(c, at) /\ ClientCloses(c)
-----------------------------------------------------------------------------
\* When socket, bind or listen fails socket_local_server closes what it has and
\* returns -1; then, as when accept itself fails, the program exits.
Bind(s) ==
    /\ server[s].at = "start"
    /\ socket_local_server_bind(s)
    /\ ServerAt(s, IF Binds THEN "listen" ELSE "exit")
NoSocket(s) == server[s].at = "start" /\ ServerAt(s, "exit") /\ UNCHANGED kernel
NoClient(s) == server[s].at \in {"listen", "accept"} /\ ServerEnds(s, "exit")
Listen(s) == server[s].at = "listen" /\ listen(s) /\ ServerAt(s, "accept")
Accept(s) ==
    /\ server[s].at = "accept"
    /\ accept(s)
    /\ server' = [server EXCEPT ![s] = [at |-> "read", cfd |-> Head(backlog[s])]]
    /\ UNCHANGED <<client, typed, hurt>>
\* read takes all that was written: at most 99 bytes, and a longer word does not
\* fit into the client's buffer either.  At the end of the stream it returns 0
\* and the loop goes round: the server stays as it is.
ServerRead_Skips(s) ==
    LET c == server[s].cfd IN
    /\ server[s].at = "read" /\ up[c] # <<>>
    /\ IF Head(up[c]) = Tilde THEN ServerEnds(s, "exit")
       ELSE /\ up' = [up EXCEPT ![c] = <<>>]
            /\ \E at \in {"read", "write"} : ServerAt(s, at)
            /\ UNCHANGED <<holder, listens, backlog, peer, down, ends>>
ServerRead(s) ==
    LET c == server[s].cfd IN
    /\ server[s].at = "read" /\ up[c] # <<>>
    /\ IF Head(up[c]) = Tilde THEN ServerEnds(s, "exit")
       ELSE /\ up' = [up EXCEPT ![c] = <<>>]
            /\ ServerAt(s, "write")
            /\ UNCHANGED <<holder, listens, backlog, peer, down, ends>>
ServerWrite(s) ==
    LET c == server[s].cfd IN
    /\ server[s].at = "write"
    /\ IF "client" \notin ends[c] THEN ServerEnds(s, "killed")
       ELSE /\ down' = [down EXCEPT ![c] = Append(@, Reply)]
            /\ ServerAt(s, "read")
            /\ UNCHANGED <<holder, listens, backlog, peer, up, ends>>

\* socket may fail, also where a server listens.
Connect(c) ==
    /\ client[c].at = "start"
    /\ \/ ClientAt(c, "exit") /\ UNCHANGED kernel
       \/ socket_local_client(c) /\ ClientAt(c, "type")
\* std::cin >> buffer, which leaves the buffer alone when the input has ended
Type(c) ==
    /\ client[c].at = "type" /\ ~client[c].eof
    /\ \E w \in {Word, Tilde} :
          /\ w = Word => typed[c] < MaxWords
          /\ client' = [client EXCEPT ![c].at = "write", ![c].buffer = w]
    /\ typed' = [typed EXCEPT ![c] = IF @ < MaxWords THEN @ + 1 ELSE @]
    /\ UNCHANGED <<kernel, server, hurt>>
InputEnded(c) ==
    /\ client[c].at = "type"
    /\ client' = [client EXCEPT ![c].at = "write", ![c].eof = TRUE]
    /\ hurt' = TRUE
    /\ UNCHANGED <<kernel, server, typed>>
\* A write of no bytes sends nothing; one to a closed socket is SIGPIPE.
ClientWrite(c) ==
    /\ client[c].at = "write"
    /\ CASE client[c].buffer = Empty -> ClientAt(c, "read") /\ UNCHANGED kernel
         [] client[c].buffer # Empty /\ "server" \notin ends[c] -> ClientEnds(c, "killed")
         [] OTHER -> /\ up' = [up EXCEPT ![c] = Append(@, client[c].buffer)]
                     /\ ClientAt(c, "read")
                     /\ UNCHANGED <<holder, listens, backlog, peer, down, ends>>
\* A reply is never the ~.  Without one the buffer keeps the word.
ClientRead(c) ==
    /\ client[c].at = "read"
    /\ \/ /\ down[c] # <<>>
          /\ down' = [down EXCEPT ![c] = <<>>]
          /\ client' = [client EXCEPT ![c].at = "type", ![c].buffer = Reply]
          /\ UNCHANGED <<holder, listens, backlog, peer, up, ends, server, typed, hurt>>
       \/ /\ down[c] = <<>> /\ "server" \notin ends[c]
          /\ IF client[c].buffer = Tilde THEN ClientEnds(c, "exit")
             ELSE ClientAt(c, "type") /\ UNCHANGED kernel

Kill(c) ==
    /\ client[c].at \in {"type", "write", "read"}
    /\ client' = [client EXCEPT ![c].at = "killed"]
    /\ hurt' = TRUE
    /\ ClientCloses(c)
    /\ UNCHANGED <<server, typed>>

ServerStep(s) == Bind(s) \/ NoSocket(s) \/ NoClient(s) \/ Listen(s) \/ Accept(s)
                 \/ ServerRead(s) \/ ServerWrite(s)
ClientStep(c) == Connect(c) \/ Type(c) \/ ClientWrite(c) \/ ClientRead(c)
DemoNext == \/ \E s \in Servers : ServerStep(s)
            \/ \E c \in Clients : ClientStep(c) \/ InputEnded(c) \/ Kill(c)

\* Every process runs, and every user types on.
Fairness == /\ \A s \in Servers : WF_demoVars(ServerStep(s))
            /\ \A c \in Clients : WF_demoVars(ClientStep(c))
DemoSpec == DemoInit /\ [][DemoNext]_demoVars /\ Fairness
-----------------------------------------------------------------------------
\* A server that listens keeps the name until it ends, so that there is one.
OneServer == \A s \in Servers : server[s].at \notin {"start"} \cup Ended => holder = s

\* Between a client and its server is at most one message, and none while the
\* user types: a read never meets two messages and no reply is to an earlier
\* word.  A client that waits has a message on the way, in the server's hands
\* or in its own, unless its input ended before the first word.
OnTheWay(c) ==
    Len(up[c]) + Len(down[c])
    + Cardinality({s \in Servers : server[s] = [at |-> "write", cfd |-> c]})
InStep ==
    \A c \in Clients :
        /\ client[c].at \in {"type", "write"} /\ "server" \in ends[c] => OnTheWay(c) = 0
        /\ client[c].at = "read" /\ "server" \in ends[c] =>
              OnTheWay(c) = IF client[c].buffer = Empty THEN 0 ELSE 1

\* Only the death of a client kills the server that accepted it.
ServerSurvives == \A s \in Servers : server[s].at = "killed" => hurt

\* The name, the turns and the addresses of the demo.
Orderly == OneServer /\ InStep /\ ServerSurvives /\ AddressFits

\* When no client is killed and no input ends, every client that got a
\* connection ends and so does every server that accepted one, also the client
\* that waited in the queue of a server that has gone.
AllStop ==
    []~hurt => /\ \A c \in Clients : client[c].at = "type" ~> client[c].at \in Ended
               /\ \A s \in Servers : server[s].at = "read" ~> server[s].at \in Ended
=============================================================================
