--------------------------- MODULE LocalDemoProofs ---------------------------
(***************************************************************************)
(* LocalDemo for any number of servers and clients under an abstract name. *)
(* In the other namespaces a server takes the name of the one that has it  *)
(* (Unlinks), and OneServer does not hold.                                 *)
(***************************************************************************)
EXTENDS LocalDemo, FiniteSetTheorems, TLAPS

Said == {Empty, Word, Tilde, Reply}

ServerRecord == [at : {"start", "listen", "accept", "read", "write", "exit", "killed"},
                 cfd : Clients \cup {None}]
ClientRecord == [at : {"start", "type", "write", "read", "exit", "killed"},
                 buffer : Said, eof : BOOLEAN]
ProgramTypes == server \in [Servers -> ServerRecord] /\ client \in [Clients -> ClientRecord]
NameTypes == holder \in Servers \cup {None} /\ listens \subseteq Servers
             /\ peer \in [Clients -> Servers \cup {None}]
             /\ ends \in [Clients -> SUBSET {"client", "server"}]
QueueTypes == /\ backlog \in [Servers -> Seq(Clients)]
              /\ up \in [Clients -> Seq(Said)] /\ down \in [Clients -> Seq(Said)]
Types == ProgramTypes /\ NameTypes /\ QueueTypes

\* Connections: who may be at the server's end of one, and whose are open.
Listening == \A s \in listens : server[s].at \in {"accept", "read", "write"}
Accepted == \A s \in Servers : server[s].at \in {"read", "write"} =>
               /\ server[s].cfd \in Clients
               /\ peer[server[s].cfd] = s /\ "server" \in ends[server[s].cfd]
Queued == \A s \in Servers : \A i \in DOMAIN backlog[s] :
             peer[backlog[s][i]] = s /\ "server" \in ends[backlog[s][i]]
Opened == \A c \in Clients :
             /\ client[c].at = "start" => ends[c] = {} /\ up[c] = <<>> /\ down[c] = <<>>
             /\ client[c].at \in {"type", "write", "read"} => "client" \in ends[c]
             /\ "server" \in ends[c] => peer[c] \in listens
Survivors == \A c \in Clients : "server" \in ends[c] => "client" \in ends[c] \/ hurt
Links == Listening /\ Accepted /\ Queued /\ Opened /\ Survivors

\* Where the one message of a client and its server is, if there is one.
Writing(c) == \E s \in Servers : server[s].at = "write" /\ server[s].cfd = c
Nowhere(c) == up[c] = <<>> /\ down[c] = <<>> /\ ~Writing(c)
Somewhere(c) == \/ Len(up[c]) = 1 /\ down[c] = <<>> /\ ~Writing(c)
                \/ up[c] = <<>> /\ Len(down[c]) = 1 /\ ~Writing(c)
                \/ up[c] = <<>> /\ down[c] = <<>> /\ Writing(c)
Turns ==
    \A c \in Clients : "server" \in ends[c] =>
        /\ client[c].at \in {"type", "write"} => Nowhere(c)
        /\ client[c].at = "read" => IF client[c].buffer = Empty THEN Nowhere(c) ELSE Somewhere(c)

IInv == Types /\ OneServer /\ Links /\ ServerSurvives /\ Turns
-----------------------------------------------------------------------------
LEMMA Initially == DemoInit => IInv
<1> SUFFICES ASSUME DemoInit PROVE IInv
  OBVIOUS
<1> USE DEF DemoInit, KernelInit
<1>1. ProgramTypes
  BY DEF ProgramTypes, ServerRecord, ClientRecord, Said
<1>5. NameTypes /\ QueueTypes
  BY DEF NameTypes, QueueTypes
<1>2. OneServer /\ ServerSurvives
  BY DEF OneServer, ServerSurvives
<1>3. Links
  BY DEF Links, Listening, Accepted, Queued, Opened, Survivors
<1>4. Turns
  BY DEF Turns
<1> QED BY <1>1, <1>2, <1>3, <1>4, <1>5 DEF IInv, Types

-----------------------------------------------------------------------------
(* The steps, one by one, as what they do to a server or a client and to the *)
(* kernel.                                                                 *)
ServerTo(s, at, c) ==
    server' = [server EXCEPT ![s] = [at |-> at, cfd |-> c]] /\ UNCHANGED <<client, hurt>>
ClientTo(c, at, b) == UNCHANGED server
    /\ \E e \in BOOLEAN : client' = [client EXCEPT ![c] = [at |-> at, buffer |-> b, eof |-> e]]

GetsName(s) == /\ server[s].at = "start" /\ holder = None /\ ServerTo(s, "listen", server[s].cfd)
               /\ holder' = s /\ UNCHANGED <<listens, backlog, peer, up, down, ends>>
NoName(s) == /\ server[s].at = "start" /\ ServerTo(s, "exit", server[s].cfd) /\ UNCHANGED kernel
Listens(s) == /\ server[s].at = "listen" /\ ServerTo(s, "accept", server[s].cfd)
              /\ listens' = listens \cup {s} /\ UNCHANGED <<holder, backlog, peer, up, down, ends>>
Accepts(s) == /\ server[s].at = "accept" /\ backlog[s] # <<>> /\ ServerTo(s, "read", Head(backlog[s]))
              /\ backlog' = [backlog EXCEPT ![s] = Tail(@)]
              /\ UNCHANGED <<holder, listens, peer, up, down, ends>>
Reads(s) == /\ server[s].at = "read" /\ up[server[s].cfd] # <<>> /\ ServerTo(s, "write", server[s].cfd)
            /\ up' = [up EXCEPT ![server[s].cfd] = <<>>]
            /\ UNCHANGED <<holder, listens, backlog, peer, down, ends>>
Writes(s) == /\ server[s].at = "write" /\ ServerTo(s, "read", server[s].cfd)
             /\ down' = [down EXCEPT ![server[s].cfd] = Append(@, Reply)]
             /\ UNCHANGED <<holder, listens, backlog, peer, up, ends>>
Ends(s) == /\ \/ server[s].at \in {"listen", "accept", "read"} /\ ServerTo(s, "exit", server[s].cfd)
              \/ /\ server[s].at = "write" /\ ServerTo(s, "killed", server[s].cfd)
                 /\ "client" \notin ends[server[s].cfd]
           /\ ServerCloses(s)

Gone(c) == /\ client[c].at = "start" /\ ClientTo(c, "exit", client[c].buffer)
           /\ UNCHANGED <<kernel, hurt>>
Connects(c) == /\ client[c].at = "start" /\ ClientTo(c, "type", client[c].buffer) /\ UNCHANGED hurt
               /\ socket_local_client(c)
Enters(c) == /\ client[c].at = "type" /\ UNCHANGED kernel /\ hurt' \in {hurt, TRUE}
             /\ \E b \in Said : ClientTo(c, "write", b)
SendsNothing(c) == /\ client[c].at = "write" /\ client[c].buffer = Empty
                   /\ ClientTo(c, "read", Empty) /\ UNCHANGED <<kernel, hurt>>
Sends(c) == /\ client[c].at = "write" /\ client[c].buffer # Empty
            /\ ClientTo(c, "read", client[c].buffer) /\ UNCHANGED hurt
            /\ up' = [up EXCEPT ![c] = Append(@, client[c].buffer)]
            /\ UNCHANGED <<holder, listens, backlog, peer, down, ends>>
Hears(c) == /\ client[c].at = "read" /\ down[c] # <<>> /\ ClientTo(c, "type", Reply) /\ UNCHANGED hurt
            /\ down' = [down EXCEPT ![c] = <<>>]
            /\ UNCHANGED <<holder, listens, backlog, peer, up, ends>>
HearsEnd(c) == /\ client[c].at = "read" /\ "server" \notin ends[c]
               /\ ClientTo(c, "type", client[c].buffer) /\ UNCHANGED <<kernel, hurt>>
Leaves(c) == /\ "server" \notin ends[c] \/ hurt' = TRUE
             /\ hurt' \in {hurt, TRUE}
             /\ \E at \in Ended : ClientTo(c, at, client[c].buffer)
             /\ ClientCloses(c)

ServerDoes(s) == GetsName(s) \/ NoName(s) \/ Listens(s) \/ Accepts(s) \/ Reads(s) \/ Writes(s) \/ Ends(s)
ClientDoes(c) == Gone(c) \/ Connects(c) \/ Enters(c) \/ SendsNothing(c) \/ Sends(c) \/ Hears(c)
                 \/ HearsEnd(c) \/ Leaves(c)

LEMMA ServerAtIs ==
    ASSUME ProgramTypes, NEW s \in Servers, NEW at, ServerAt(s, at)
    PROVE  ServerTo(s, at, server[s].cfd)
<1>1. server[s] \in ServerRecord
  BY DEF ProgramTypes
<1>2. [server[s] EXCEPT !.at = at] = [at |-> at, cfd |-> server[s].cfd]
  BY <1>1 DEF ServerRecord
<1> QED BY <1>2 DEF ServerAt, ServerTo

LEMMA ClientAtIs ==
    ASSUME ProgramTypes, NEW c \in Clients, NEW at, ClientAt(c, at)
    PROVE  ClientTo(c, at, client[c].buffer) /\ UNCHANGED hurt
<1>1. client[c] \in ClientRecord
  BY DEF ProgramTypes
<1>2. [client[c] EXCEPT !.at = at] = [at |-> at, buffer |-> client[c].buffer, eof |-> client[c].eof]
  BY <1>1 DEF ClientRecord
<1>3. client[c].eof \in BOOLEAN
  BY <1>1 DEF ClientRecord
<1> QED BY <1>2, <1>3 DEF ClientAt, ClientTo

LEMMA ServerStepDoes ==
    ASSUME Namespace = "ABSTRACT", ProgramTypes, NEW s \in Servers, ServerStep(s)
    PROVE  ServerDoes(s)
<1> USE DEF ServerDoes
<1>1. CASE Bind(s)
  <2>1. CASE holder = None
    BY <1>1, <2>1, ServerAtIs DEF Bind, Binds, socket_local_server_bind, GetsName
  <2>2. CASE holder # None
    BY <1>1, <2>2, ServerAtIs DEF Bind, Binds, Unlinks, socket_local_server_bind, NoName, kernel
  <2> QED BY <2>1, <2>2
<1>2. CASE Listen(s)
  BY <1>2, ServerAtIs DEF Listen, listen, Listens
<1>3. CASE Accept(s)
  <2>1. ServerTo(s, "read", Head(backlog[s]))
    BY <1>3 DEF Accept, ServerTo
  <2> QED BY <1>3, <2>1 DEF Accept, accept, Accepts
<1>4. CASE ServerRead(s)
  BY <1>4, ServerAtIs DEF ServerRead, ServerEnds, Reads, Ends
<1>5. CASE ServerWrite(s)
  BY <1>5, ServerAtIs DEF ServerWrite, ServerEnds, Writes, Ends
<1>6. CASE NoSocket(s)
  BY <1>6, ServerAtIs DEF NoSocket, NoName
<1>7. CASE NoClient(s)
  BY <1>7, ServerAtIs DEF NoClient, ServerEnds, Ends
<1> QED BY <1>1, <1>2, <1>3, <1>4, <1>5, <1>6, <1>7 DEF ServerStep

LEMMA NewBuffer ==
    ASSUME NEW r \in ClientRecord, NEW at, NEW b
    PROVE  [[r EXCEPT !.at = at] EXCEPT !.buffer = b] = [at |-> at, buffer |-> b, eof |-> r.eof]
<1> DEFINE q == [at |-> at, buffer |-> r.buffer, eof |-> r.eof]
<1>1. [r EXCEPT !.at = at] = q
  BY DEF ClientRecord
<1>2. [q EXCEPT !.buffer = b] = [at |-> at, buffer |-> b, eof |-> r.eof]
  OBVIOUS
<1> QED BY <1>1, <1>2

LEMMA NewEof ==
    ASSUME NEW r \in ClientRecord, NEW at, NEW e
    PROVE  [[r EXCEPT !.at = at] EXCEPT !.eof = e] = [at |-> at, buffer |-> r.buffer, eof |-> e]
<1> DEFINE q == [at |-> at, buffer |-> r.buffer, eof |-> r.eof]
<1>1. [r EXCEPT !.at = at] = q
  BY DEF ClientRecord
<1>2. [q EXCEPT !.eof = e] = [at |-> at, buffer |-> r.buffer, eof |-> e]
  OBVIOUS
<1> QED BY <1>1, <1>2

LEMMA ClientStepDoes ==
    ASSUME ProgramTypes, NEW c \in Clients, ClientStep(c) \/ InputEnded(c) \/ Kill(c)
    PROVE  ClientDoes(c)
<1> USE DEF ClientDoes
<1>0. client[c] \in ClientRecord /\ client[c].buffer \in Said /\ client[c].eof \in BOOLEAN
  BY DEF ProgramTypes, ClientRecord
<1>1. CASE Connect(c)
  BY <1>1, ClientAtIs DEF Connect, Gone, Connects
<1>2. CASE Type(c)
  <2> PICK w \in {Word, Tilde} : client' = [client EXCEPT ![c].at = "write", ![c].buffer = w]
    BY <1>2 DEF Type
  <2>1. client' = [client EXCEPT ![c] = [at |-> "write", buffer |-> w, eof |-> client[c].eof]]
    <3>1. [[client[c] EXCEPT !.at = "write"] EXCEPT !.buffer = w]
          = [at |-> "write", buffer |-> w, eof |-> client[c].eof]
      BY <1>0, NewBuffer
    <3> QED BY <3>1 DEF ProgramTypes
  <2>2. ClientTo(c, "write", w)
    BY <1>0, <1>2, <2>1 DEF Type, ClientTo
  <2> QED BY <1>2, <2>2 DEF Type, Enters, Said
<1>3. CASE InputEnded(c)
  <2>1. [[client[c] EXCEPT !.at = "write"] EXCEPT !.eof = TRUE]
        = [at |-> "write", buffer |-> client[c].buffer, eof |-> TRUE] /\ client[c].buffer \in Said
    BY <1>0, NewEof
  <2>2. ClientTo(c, "write", client[c].buffer)
    BY <1>3, <2>1 DEF InputEnded, ClientTo, ProgramTypes
  <2> QED BY <1>3, <2>1, <2>2 DEF InputEnded, Enters
<1>4. CASE ClientWrite(c)
  <2>1. CASE client[c].buffer = Empty
    BY <1>4, <2>1, ClientAtIs DEF ClientWrite, SendsNothing, Ended, ClientEnds, Leaves
  <2>2. CASE client[c].buffer # Empty /\ "server" \notin ends[c]
    BY <1>4, <2>2, ClientAtIs DEF ClientWrite, Ended, ClientEnds, Leaves
  <2>3. CASE client[c].buffer # Empty /\ "server" \in ends[c]
    BY <1>4, <2>3, ClientAtIs DEF ClientWrite, Sends
  <2> QED BY <2>1, <2>2, <2>3
<1>5. CASE ClientRead(c)
  <2>1. CASE down[c] # <<>>
    <3>1. client' = [client EXCEPT ![c].at = "type", ![c].buffer = Reply] /\ UNCHANGED server
      BY <1>5, <2>1 DEF ClientRead
    <3>2. client' = [client EXCEPT ![c] = [at |-> "type", buffer |-> Reply, eof |-> client[c].eof]]
      <4>1. [[client[c] EXCEPT !.at = "type"] EXCEPT !.buffer = Reply]
            = [at |-> "type", buffer |-> Reply, eof |-> client[c].eof]
        BY <1>0, NewBuffer
      <4> QED BY <3>1, <4>1 DEF ProgramTypes
    <3>3. ClientTo(c, "type", Reply)
      BY <1>0, <3>1, <3>2 DEF ClientTo
    <3> QED BY <1>5, <2>1, <3>3 DEF ClientRead, Hears
  <2>2. CASE down[c] = <<>>
    BY <1>5, <2>2, ClientAtIs DEF ClientRead, ClientEnds, Leaves, HearsEnd, Ended
  <2> QED BY <2>1, <2>2
<1>6. CASE Kill(c)
  <2>1. [client[c] EXCEPT !.at = "killed"]
        = [at |-> "killed", buffer |-> client[c].buffer, eof |-> client[c].eof]
        /\ client[c].eof \in BOOLEAN
    BY <1>0 DEF ClientRecord
  <2>2. ClientTo(c, "killed", client[c].buffer)
    BY <1>6, <2>1 DEF Kill, ClientTo, ProgramTypes
  <2> QED BY <1>6, <2>2 DEF Kill, Leaves, Ended
<1> QED BY <1>1, <1>2, <1>3, <1>4, <1>5, <1>6 DEF ClientStep

LEMMA StepDoes ==
    ASSUME Namespace = "ABSTRACT", ProgramTypes, [DemoNext]_demoVars
    PROVE  \/ UNCHANGED <<server, client, hurt, kernel>>
           \/ \E s \in Servers : ServerDoes(s)
           \/ \E c \in Clients : ClientDoes(c)
  BY ServerStepDoes, ClientStepDoes DEF DemoNext, demoVars, programs
-----------------------------------------------------------------------------
LEMMA ProgramStep ==
    ASSUME Namespace = "ABSTRACT", Types, [DemoNext]_demoVars
    PROVE  ProgramTypes'
<1> USE DEF Types
<1>1. ASSUME NEW s \in Servers, NEW at, NEW c, ServerTo(s, at, c), c \in Clients \cup {None},
             at \in {"listen", "accept", "read", "write", "exit", "killed"}
      PROVE  ProgramTypes'
  <2>1. [at |-> at, cfd |-> c] \in ServerRecord
    BY <1>1 DEF ServerRecord
  <2> QED BY <1>1, <2>1 DEF ServerTo, ProgramTypes
<1>2. ASSUME NEW c \in Clients, NEW at, NEW b, ClientTo(c, at, b), b \in Said,
             at \in {"type", "write", "read", "exit", "killed"}
      PROVE  ProgramTypes'
  <2> PICK e \in BOOLEAN : client' = [client EXCEPT ![c] = [at |-> at, buffer |-> b, eof |-> e]]
    BY <1>2 DEF ClientTo
  <2>1. [at |-> at, buffer |-> b, eof |-> e] \in ClientRecord
    BY <1>2 DEF ClientRecord
  <2> QED BY <1>2, <2>1 DEF ClientTo, ProgramTypes
<1>3. ASSUME NEW s \in Servers, ServerDoes(s) PROVE ProgramTypes'
  <2>1. server[s].cfd \in Clients \cup {None}
    BY DEF ProgramTypes, ServerRecord
  <2>2. CASE Accepts(s)
    <3>1. Head(backlog[s]) \in Clients
      BY <2>2 DEF Accepts, QueueTypes
    <3> QED BY <1>1, <2>2, <3>1 DEF Accepts
  <2> QED BY <1>1, <1>3, <2>1, <2>2 DEF ServerDoes, GetsName, NoName, Listens, Reads, Writes, Ends
<1>4. ASSUME NEW c \in Clients, ClientDoes(c) PROVE ProgramTypes'
  <2>1. client[c].buffer \in Said /\ {Empty, Reply} \subseteq Said
    BY DEF ProgramTypes, ClientRecord, Said
  <2> QED BY <1>2, <1>4, <2>1 DEF ClientDoes, Gone, Connects, Enters, SendsNothing, Sends, Hears,
                               HearsEnd, Leaves, Ended
<1>5. CASE UNCHANGED <<server, client>>
  BY <1>5 DEF ProgramTypes
<1> QED BY <1>3, <1>4, <1>5, StepDoes

LEMMA NameStep ==
    ASSUME Namespace = "ABSTRACT", Types, [DemoNext]_demoVars
    PROVE  NameTypes'
<1> USE DEF NameTypes
<1>1. ASSUME NEW s \in Servers, ServerDoes(s) PROVE NameTypes'
  <2>1. CASE Ends(s)
    BY <2>1 DEF Ends, ServerCloses, Types
  <2> QED BY <1>1, <2>1 DEF ServerDoes, GetsName, NoName, Listens, Accepts, Reads, Writes, kernel, Types
<1>2. ASSUME NEW c \in Clients, ClientDoes(c) PROVE NameTypes'
  <2>1. CASE Connects(c)
    BY <2>1 DEF Connects, socket_local_client, Types
  <2>2. CASE Leaves(c)
    BY <2>2 DEF Leaves, ClientCloses, Types
  <2> QED BY <1>2, <2>1, <2>2 DEF ClientDoes, Gone, Enters, SendsNothing, Sends, Hears, HearsEnd,
                                  kernel, Types
<1>3. CASE UNCHANGED kernel
  BY <1>3 DEF kernel, Types
<1> QED BY <1>1, <1>2, <1>3, StepDoes DEF Types

LEMMA QueueStep ==
    ASSUME Namespace = "ABSTRACT", Types, [DemoNext]_demoVars
    PROVE  QueueTypes'
<1> USE DEF QueueTypes
<1>1. ASSUME NEW s \in Servers, ServerDoes(s) PROVE QueueTypes'
  <2>1. CASE Ends(s)
    BY <2>1 DEF Ends, ServerCloses, Types
  <2>2. CASE Accepts(s)
    <3>1. Tail(backlog[s]) \in Seq(Clients)
      BY <2>2 DEF Accepts, Types
    <3> QED BY <2>2, <3>1 DEF Accepts, Types
  <2>3. CASE Reads(s)
    <3>1. <<>> \in Seq(Said)
      OBVIOUS
    <3> QED BY <2>3, <3>1 DEF Reads, Types
  <2>4. CASE Writes(s)
    <3>1. \A c \in Clients : Append(down[c], Reply) \in Seq(Said)
      BY DEF Types, Said
    <3> QED BY <2>4, <3>1 DEF Writes, Types
  <2> QED BY <1>1, <2>1, <2>2, <2>3, <2>4 DEF ServerDoes, GetsName, NoName, Listens, kernel, Types
<1>2. ASSUME NEW c \in Clients, ClientDoes(c) PROVE QueueTypes'
  <2>1. CASE Connects(c)
    <3>1. \A s \in Servers : Append(backlog[s], c) \in Seq(Clients)
      BY DEF Types
    <3> QED BY <2>1, <3>1 DEF Connects, socket_local_client, Types
  <2>2. CASE Leaves(c)
    BY <2>2 DEF Leaves, ClientCloses, Types
  <2>3. CASE Sends(c)
    <3>1. Append(up[c], client[c].buffer) \in Seq(Said)
      BY DEF Types, ProgramTypes, ClientRecord
    <3> QED BY <2>3, <3>1 DEF Sends, Types
  <2>4. CASE Hears(c)
    BY <2>4 DEF Hears, Types
  <2> QED BY <1>2, <2>1, <2>2, <2>3, <2>4 DEF ClientDoes, Gone, Enters, SendsNothing, HearsEnd,
                                              kernel, Types
<1>3. CASE UNCHANGED kernel
  BY <1>3 DEF kernel, Types
<1> QED BY <1>1, <1>2, <1>3, StepDoes DEF Types

LEMMA TypeStep ==
    ASSUME Namespace = "ABSTRACT", Types, [DemoNext]_demoVars
    PROVE  Types'
  BY ProgramStep, NameStep, QueueStep DEF Types
-----------------------------------------------------------------------------
\* Only a server without the name starts, and only the one that has it goes on.
LEMMA OneServerStep ==
    ASSUME Namespace = "ABSTRACT", Types, OneServer, [DemoNext]_demoVars
    PROVE  OneServer'
<1> USE ProcessAssumption DEF Types, ProgramTypes, OneServer, Ended
<1>1. ASSUME NEW s \in Servers, GetsName(s) PROVE OneServer'
  BY <1>1 DEF GetsName, ServerTo
<1>2. ASSUME NEW s \in Servers, NoName(s) PROVE OneServer'
  BY <1>2 DEF NoName, ServerTo, kernel
<1>3. ASSUME NEW s \in Servers, Listens(s) \/ Accepts(s) \/ Reads(s) \/ Writes(s) PROVE OneServer'
  BY <1>3 DEF Listens, Accepts, Reads, Writes, ServerTo
<1>4. ASSUME NEW s \in Servers, Ends(s) PROVE OneServer'
  BY <1>4 DEF Ends, ServerTo, ServerCloses
<1>5. ASSUME NEW c \in Clients, ClientDoes(c) PROVE OneServer'
  BY <1>5 DEF ClientDoes, Gone, Connects, Enters, SendsNothing, Sends, Hears, HearsEnd, Leaves, ClientTo,
              kernel, socket_local_client, ClientCloses
<1>6. CASE UNCHANGED <<server, kernel>>
  BY <1>6 DEF kernel
<1> QED BY <1>1, <1>2, <1>3, <1>4, <1>5, <1>6, StepDoes DEF ServerDoes
-----------------------------------------------------------------------------
LEMMA ListeningStep ==
    ASSUME Namespace = "ABSTRACT", Types, Links, [DemoNext]_demoVars
    PROVE  Listening'
<1> USE DEF Types, ProgramTypes, NameTypes, Links, Listening
<1>1. ASSUME NEW s \in Servers, Ends(s) PROVE Listening'
  BY <1>1 DEF Ends, ServerTo, ServerCloses
<1>2. ASSUME NEW s \in Servers, ServerDoes(s), ~Ends(s) PROVE Listening'
  BY <1>2 DEF ServerDoes, GetsName, NoName, Listens, Accepts, Reads, Writes, ServerTo, kernel
<1>3. ASSUME NEW c \in Clients, ClientDoes(c) PROVE Listening'
  BY <1>3 DEF ClientDoes, Gone, Connects, Enters, SendsNothing, Sends, Hears, HearsEnd, Leaves, ClientTo,
              kernel, socket_local_client, ClientCloses
<1>4. CASE UNCHANGED <<server, kernel>>
  BY <1>4 DEF kernel
<1> QED BY <1>1, <1>2, <1>3, <1>4, StepDoes

\* A client that starts is in no queue and in nobody's hands.
LEMMA Fresh ==
    ASSUME Types, Links, NEW c \in Clients, client[c].at = "start"
    PROVE  /\ \A s \in Servers : server[s].at \in {"read", "write"} => server[s].cfd # c
           /\ \A s \in Servers : \A i \in DOMAIN backlog[s] : backlog[s][i] # c
           /\ ends[c] = {} /\ up[c] = <<>> /\ down[c] = <<>>
  BY DEF Links, Accepted, Queued, Opened

LEMMA AcceptedStep ==
    ASSUME Namespace = "ABSTRACT", Types, Links, [DemoNext]_demoVars
    PROVE  Accepted'
<1> USE DEF Types, ProgramTypes, NameTypes, Links, Accepted
<1>1. ASSUME NEW s \in Servers, GetsName(s) \/ NoName(s) \/ Listens(s) \/ Reads(s) \/ Writes(s)
      PROVE  Accepted'
  BY <1>1 DEF GetsName, NoName, Listens, Reads, Writes, ServerTo, kernel
<1>2. ASSUME NEW s \in Servers, Accepts(s) PROVE Accepted'
  <2>1. backlog[s] \in Seq(Clients) /\ backlog[s] # <<>>
    BY <1>2 DEF Accepts, QueueTypes
  <2>2. Head(backlog[s]) = backlog[s][1] /\ 1 \in DOMAIN backlog[s] /\ Head(backlog[s]) \in Clients
    BY <2>1
  <2>3. peer[Head(backlog[s])] = s /\ "server" \in ends[Head(backlog[s])]
    BY <2>2 DEF Queued
  <2>4. server'[s].at = "read" /\ server'[s].cfd = Head(backlog[s]) /\ UNCHANGED <<peer, ends>>
        /\ \A t \in Servers \ {s} : server'[t] = server[t]
    BY <1>2 DEF Accepts, ServerTo
  <2> QED BY <2>2, <2>3, <2>4
<1>3. ASSUME NEW s \in Servers, Ends(s) PROVE Accepted'
  <2>1. server'[s].at \notin {"read", "write"} /\ \A t \in Servers \ {s} : server'[t] = server[t]
    BY <1>3 DEF Ends, ServerTo
  <2>2. UNCHANGED peer /\ \A c \in Clients : peer[c] # s => ends'[c] = ends[c]
    BY <1>3 DEF Ends, ServerCloses
  <2> QED BY <2>1, <2>2
<1>4. ASSUME NEW c \in Clients, Connects(c) PROVE Accepted'
  <2>1. \A s \in Servers : server[s].at \in {"read", "write"} => server[s].cfd # c
    BY <1>4, Fresh DEF Connects
  <2>2. UNCHANGED server /\ \A d \in Clients \ {c} : ends'[d] = ends[d] /\ peer'[d] = peer[d]
    BY <1>4 DEF Connects, socket_local_client, ClientTo
  <2> QED BY <2>1, <2>2
<1>5. ASSUME NEW c \in Clients, Leaves(c) PROVE Accepted'
  <2>1. UNCHANGED <<server, peer>> /\ \A d \in Clients : "server" \in ends[d] => "server" \in ends'[d]
    BY <1>5 DEF Leaves, ClientCloses, ClientTo
  <2> QED BY <2>1
<1>6. ASSUME NEW c \in Clients, ClientDoes(c), ~Connects(c), ~Leaves(c) PROVE Accepted'
  BY <1>6 DEF ClientDoes, Gone, Enters, SendsNothing, Sends, Hears, HearsEnd, ClientTo, kernel
<1>7. CASE UNCHANGED <<server, kernel>>
  BY <1>7 DEF kernel
<1> QED BY <1>1, <1>2, <1>3, <1>4, <1>5, <1>6, <1>7, StepDoes DEF ServerDoes

LEMMA QueuedStep ==
    ASSUME Namespace = "ABSTRACT", Types, Links, [DemoNext]_demoVars
    PROVE  Queued'
<1> USE DEF Types, NameTypes, QueueTypes, Links, Queued
<1>1. ASSUME NEW s \in Servers, ServerDoes(s), ~Accepts(s), ~Ends(s) PROVE Queued'
  BY <1>1 DEF ServerDoes, GetsName, NoName, Listens, Reads, Writes, kernel
<1>2. ASSUME NEW s \in Servers, Accepts(s) PROVE Queued'
  <2>1. UNCHANGED <<peer, ends>> /\ backlog' = [backlog EXCEPT ![s] = Tail(backlog[s])]
    BY <1>2 DEF Accepts
  <2>2. backlog[s] \in Seq(Clients) /\ backlog[s] # <<>>
    BY <1>2 DEF Accepts
  <2>3. \A i \in DOMAIN Tail(backlog[s]) : i + 1 \in DOMAIN backlog[s] /\ Tail(backlog[s])[i] = backlog[s][i + 1]
    BY <2>2
  <2>4. \A i \in DOMAIN Tail(backlog[s]) :
           peer[Tail(backlog[s])[i]] = s /\ "server" \in ends[Tail(backlog[s])[i]]
    BY <2>3
  <2>5. backlog'[s] = Tail(backlog[s]) /\ \A t \in Servers \ {s} : backlog'[t] = backlog[t]
    BY <2>1
  <2> QED BY <2>1, <2>4, <2>5
<1>3. ASSUME NEW s \in Servers, Ends(s) PROVE Queued'
  <2>1. backlog'[s] = <<>> /\ \A t \in Servers \ {s} : backlog'[t] = backlog[t]
    BY <1>3 DEF Ends, ServerCloses
  <2>2. UNCHANGED peer /\ \A c \in Clients : peer[c] # s => ends'[c] = ends[c]
    BY <1>3 DEF Ends, ServerCloses
  <2>3. ASSUME NEW t \in Servers \ {s}, NEW i \in DOMAIN backlog[t]
        PROVE  peer'[backlog[t][i]] = t /\ "server" \in ends'[backlog[t][i]]
    <3>1. backlog[t][i] \in Clients /\ peer[backlog[t][i]] = t /\ "server" \in ends[backlog[t][i]]
      OBVIOUS
    <3> QED BY <2>2, <3>1
  <2>4. DOMAIN backlog'[s] = {}
    BY <2>1
  <2>5. \A t \in Servers : \A i \in DOMAIN backlog'[t] :
           peer'[backlog'[t][i]] = t /\ "server" \in ends'[backlog'[t][i]]
    BY <2>1, <2>3, <2>4
  <2> QED BY <2>5
<1>4. ASSUME NEW c \in Clients, Connects(c) PROVE Queued'
  <2>1. \A s \in Servers : \A i \in DOMAIN backlog[s] : backlog[s][i] \in Clients \ {c}
    BY <1>4, Fresh DEF Connects
  <2>2. holder \in Servers /\ backlog' = [backlog EXCEPT ![holder] = Append(backlog[holder], c)]
    BY <1>4 DEF Connects, socket_local_client, Refused
  <2>3. /\ ends'[c] = {"client", "server"} /\ peer'[c] = holder
        /\ \A d \in Clients \ {c} : ends'[d] = ends[d] /\ peer'[d] = peer[d]
    BY <1>4 DEF Connects, socket_local_client
  <2>4. ASSUME NEW s \in Servers, NEW i \in DOMAIN backlog[s]
        PROVE  peer'[backlog[s][i]] = s /\ "server" \in ends'[backlog[s][i]]
    BY <2>1, <2>3
  <2>5. \A i \in DOMAIN Append(backlog[holder], c) :
           \/ i \in DOMAIN backlog[holder] /\ Append(backlog[holder], c)[i] = backlog[holder][i]
           \/ Append(backlog[holder], c)[i] = c
    BY <2>2
  <2>6. \A i \in DOMAIN backlog'[holder] :
           peer'[backlog'[holder][i]] = holder /\ "server" \in ends'[backlog'[holder][i]]
    BY <2>2, <2>3, <2>4, <2>5
  <2>7. \A s \in Servers \ {holder} : backlog'[s] = backlog[s]
    BY <2>2
  <2> QED BY <2>2, <2>4, <2>6, <2>7
<1>5. ASSUME NEW c \in Clients, Leaves(c) PROVE Queued'
  <2>1. UNCHANGED <<backlog, peer>> /\ \A d \in Clients : "server" \in ends[d] => "server" \in ends'[d]
    BY <1>5 DEF Leaves, ClientCloses
  <2>2. \A s \in Servers : \A i \in DOMAIN backlog[s] : backlog[s][i] \in Clients
    OBVIOUS
  <2> QED BY <2>1, <2>2
<1>6. ASSUME NEW c \in Clients, ClientDoes(c), ~Connects(c), ~Leaves(c) PROVE Queued'
  BY <1>6 DEF ClientDoes, Gone, Enters, SendsNothing, Sends, Hears, HearsEnd, kernel
<1>7. CASE UNCHANGED kernel
  BY <1>7 DEF kernel
<1> QED BY <1>1, <1>2, <1>3, <1>4, <1>5, <1>6, <1>7, StepDoes

LEMMA OpenedStep ==
    ASSUME Namespace = "ABSTRACT", Types, Links, [DemoNext]_demoVars
    PROVE  Opened'
<1> USE DEF Types, ProgramTypes, NameTypes, QueueTypes, Links, Opened
<1>1. ASSUME NEW s \in Servers, ServerDoes(s), ~Writes(s), ~Ends(s) PROVE Opened'
  BY <1>1 DEF ServerDoes, GetsName, NoName, Listens, Accepts, Reads, ServerTo, kernel
<1>2. ASSUME NEW s \in Servers, Writes(s) PROVE Opened'
  <2>1. UNCHANGED <<client, ends, up, peer, listens>>
        /\ \A c \in Clients : c # server[s].cfd => down'[c] = down[c]
    BY <1>2 DEF Writes, ServerTo
  <2>2. client[server[s].cfd].at # "start"
    BY <1>2 DEF Writes, Accepted
  <2> QED BY <2>1, <2>2
<1>3. ASSUME NEW s \in Servers, Ends(s) PROVE Opened'
  BY <1>3 DEF Ends, ServerCloses, ServerTo
<1>4. ASSUME NEW c \in Clients, NEW at, NEW b, ClientTo(c, at, b)
      PROVE  client'[c].at = at /\ client'[c].buffer = b /\ UNCHANGED server
             /\ \A d \in Clients \ {c} : client'[d] = client[d]
  BY <1>4 DEF ClientTo
<1>5. ASSUME NEW c \in Clients, Connects(c) PROVE Opened'
  <2>1. client'[c].at = "type" /\ \A d \in Clients \ {c} : client'[d] = client[d]
    BY <1>4, <1>5 DEF Connects
  <2>2. /\ ends'[c] = {"client", "server"} /\ peer'[c] = holder /\ holder \in listens
        /\ UNCHANGED <<listens, up, down>>
        /\ \A d \in Clients \ {c} : ends'[d] = ends[d] /\ peer'[d] = peer[d]
    BY <1>5 DEF Connects, socket_local_client, Refused
  <2> QED BY <2>1, <2>2
<1>6. ASSUME NEW c \in Clients, Leaves(c) PROVE Opened'
  <2>1. client'[c].at \in Ended /\ \A d \in Clients \ {c} : client'[d] = client[d]
    BY <1>4, <1>6 DEF Leaves
  <2>2. /\ UNCHANGED <<listens, up, down, peer>> /\ ends'[c] = ends[c] \ {"client"}
        /\ \A d \in Clients \ {c} : ends'[d] = ends[d]
    BY <1>6 DEF Leaves, ClientCloses
  <2> QED BY <2>1, <2>2 DEF Ended
<1>7. ASSUME NEW c \in Clients, ClientDoes(c), ~Connects(c), ~Leaves(c) PROVE Opened'
  <2>1. /\ client'[c].at \in {"type", "write", "read"} => client[c].at \in {"type", "write", "read"}
        /\ client'[c].at # "start" /\ \A d \in Clients \ {c} : client'[d] = client[d]
    <3>1. CASE Enters(c)
      BY <1>4, <3>1 DEF Enters
    <3> QED BY <1>4, <1>7, <3>1 DEF ClientDoes, Gone, SendsNothing, Sends, Hears, HearsEnd
  <2>2. UNCHANGED <<listens, ends, peer>> /\ \A d \in Clients \ {c} : up'[d] = up[d] /\ down'[d] = down[d]
    BY <1>7 DEF ClientDoes, Gone, Enters, SendsNothing, Sends, Hears, HearsEnd, kernel
  <2> QED BY <2>1, <2>2
<1>8. CASE UNCHANGED <<client, kernel>>
  BY <1>8 DEF kernel
<1> QED BY <1>1, <1>2, <1>3, <1>5, <1>6, <1>7, <1>8, StepDoes

\* Nothing but a kill or the end of an input makes a client go before its server.
LEMMA SurvivalStep ==
    ASSUME Namespace = "ABSTRACT", Types, Links, ServerSurvives, [DemoNext]_demoVars
    PROVE  Survivors' /\ ServerSurvives'
<1> USE DEF Types, ProgramTypes, NameTypes, Links, Survivors, ServerSurvives
<1>1. ASSUME NEW s \in Servers, ServerDoes(s), ~Ends(s) PROVE Survivors' /\ ServerSurvives'
  <2>1. /\ UNCHANGED <<hurt, ends>> /\ server'[s].at # "killed"
        /\ \A t \in Servers \ {s} : server'[t] = server[t]
    BY <1>1 DEF ServerDoes, GetsName, NoName, Listens, Accepts, Reads, Writes, ServerTo, kernel
  <2> QED BY <2>1
<1>2. ASSUME NEW s \in Servers, Ends(s) PROVE Survivors' /\ ServerSurvives'
  <2>1. UNCHANGED hurt /\ (server'[s].at = "killed" => hurt)
        /\ \A t \in Servers \ {s} : server'[t] = server[t]
    BY <1>2 DEF Ends, ServerTo, Accepted
  <2>2. \A c \in Clients : ("server" \in ends'[c] => ends'[c] = ends[c])
    BY <1>2 DEF Ends, ServerCloses
  <2> QED BY <2>1, <2>2
<1>3. ASSUME NEW c \in Clients, ClientDoes(c) PROVE Survivors' /\ ServerSurvives'
  <2>1. UNCHANGED server /\ hurt' \in {hurt, TRUE}
    BY <1>3 DEF ClientDoes, Gone, Connects, Enters, SendsNothing, Sends, Hears, HearsEnd, Leaves, ClientTo
  <2>2. hurt => hurt'
    BY <2>1, Zenon
  <2>3. CASE Connects(c)
    BY <2>1, <2>2, <2>3 DEF Connects, socket_local_client
  <2>4. CASE Leaves(c)
    <3>1. "server" \in ends[c] => hurt'
      BY <2>4, Zenon DEF Leaves
    <3>2. /\ "server" \in ends'[c] => "server" \in ends[c]
          /\ \A d \in Clients \ {c} : ends'[d] = ends[d]
      BY <2>4 DEF Leaves, ClientCloses
    <3> QED BY <2>1, <2>2, <3>1, <3>2
  <2>5. CASE UNCHANGED ends
    BY <2>1, <2>2, <2>5
  <2> QED BY <1>3, <2>3, <2>4, <2>5 DEF ClientDoes, Gone, Enters, SendsNothing, Sends, Hears, HearsEnd,
                                        kernel
<1>4. CASE UNCHANGED <<server, kernel, hurt>>
  BY <1>4 DEF kernel
<1> QED BY <1>1, <1>2, <1>3, <1>4, StepDoes
-----------------------------------------------------------------------------
\* A step of the others, of no message and no end, leaves the turns alone.
LEMMA SameTurns ==
    ASSUME Turns, NEW d \in Clients, client'[d] = client[d], up'[d] = up[d], down'[d] = down[d],
           "server" \in ends'[d] => "server" \in ends[d] /\ (Writing(d)' <=> Writing(d))
    PROVE  "server" \in ends'[d] =>
             /\ client'[d].at \in {"type", "write"} => Nowhere(d)'
             /\ client'[d].at = "read" => IF client'[d].buffer = Empty THEN Nowhere(d)' ELSE Somewhere(d)'
  BY DEF Turns, Nowhere, Somewhere

LEMMA TurnsStep ==
    ASSUME Namespace = "ABSTRACT", Types, Links, Turns, [DemoNext]_demoVars
    PROVE  Turns'
<1> USE DEF Types, ProgramTypes, NameTypes, QueueTypes
<1> DEFINE Turn(d) ==
       "server" \in ends'[d] =>
             /\ client'[d].at \in {"type", "write"} => Nowhere(d)'
             /\ client'[d].at = "read" => IF client'[d].buffer = Empty THEN Nowhere(d)' ELSE Somewhere(d)'
<1> SUFFICES \A d \in Clients : Turn(d)
  BY DEF Turns
<1> HIDE DEF Turn
\* Steps of a server.
<1>1. ASSUME NEW s \in Servers, NEW at, NEW c, ServerTo(s, at, c)
      PROVE  /\ server'[s].at = at /\ server'[s].cfd = c /\ UNCHANGED client
             /\ \A t \in Servers \ {s} : server'[t] = server[t]
  BY <1>1 DEF ServerTo
<1>2. ASSUME NEW s \in Servers, ServerDoes(s), ~Reads(s), ~Writes(s), ~Ends(s), NEW d \in Clients
      PROVE  Turn(d)
  <2>1. /\ server[s].at # "write" /\ server'[s].at # "write" /\ UNCHANGED <<client, up, down, ends>>
        /\ \A t \in Servers \ {s} : server'[t] = server[t]
    BY <1>1, <1>2 DEF ServerDoes, GetsName, NoName, Listens, Accepts, kernel
  <2>2. Writing(d)' <=> Writing(d)
    BY <2>1 DEF Writing
  <2> QED BY <2>1, <2>2, SameTurns DEF Turn
<1>3. ASSUME NEW s \in Servers, Reads(s), NEW d \in Clients PROVE Turn(d)
  <2> DEFINE c == server[s].cfd
  <2>1. /\ server[s].at = "read" /\ server'[s].at = "write" /\ server'[s].cfd = c
        /\ \A t \in Servers \ {s} : server'[t] = server[t]
        /\ UNCHANGED <<client, down, ends>> /\ up[c] # <<>> /\ up' = [up EXCEPT ![c] = <<>>]
    BY <1>1, <1>3 DEF Reads
  <2>2. c \in Clients /\ "server" \in ends[c]
    BY <2>1 DEF Links, Accepted
  <2>3. CASE d = c
    <3>1. client[d].at \notin {"type", "write"}
          /\ (client[d].at = "read" => client[d].buffer # Empty /\ down[d] = <<>>)
      BY <2>1, <2>2, <2>3 DEF Turns, Nowhere, Somewhere
    <3>2. up'[d] = <<>> /\ down'[d] = down[d] /\ client'[d] = client[d]
      BY <2>1, <2>3
    <3>3. Writing(d)'
      BY <2>1, <2>3 DEF Writing
    <3> QED BY <3>1, <3>2, <3>3 DEF Turn, Somewhere
  <2>4. CASE d # c
    <3>1. Writing(d)' <=> Writing(d)
      BY <2>1, <2>4 DEF Writing
    <3>2. up'[d] = up[d] /\ down'[d] = down[d] /\ client'[d] = client[d] /\ ends'[d] = ends[d]
      BY <2>1, <2>4
    <3> QED BY <3>1, <3>2, SameTurns DEF Turn
  <2> QED BY <2>3, <2>4
<1>4. ASSUME NEW s \in Servers, Writes(s), NEW d \in Clients PROVE Turn(d)
  <2> DEFINE c == server[s].cfd
  <2>1. /\ server[s].at = "write" /\ server'[s].at = "read" /\ server'[s].cfd = c
        /\ \A t \in Servers \ {s} : server'[t] = server[t]
        /\ UNCHANGED <<client, up, ends>> /\ down' = [down EXCEPT ![c] = Append(down[c], Reply)]
    BY <1>1, <1>4 DEF Writes
  <2>2. c \in Clients /\ "server" \in ends[c] /\ peer[c] = s
    BY <2>1 DEF Links, Accepted
  <2>3. CASE d = c
    <3>1. Writing(d)
      BY <2>1, <2>3 DEF Writing
    <3>2. client[d].at \notin {"type", "write"}
          /\ (client[d].at = "read" => client[d].buffer # Empty /\ up[d] = <<>> /\ down[d] = <<>>)
      BY <2>2, <2>3, <3>1 DEF Turns, Nowhere, Somewhere
    <3>3. up'[d] = up[d] /\ down'[d] = Append(down[d], Reply) /\ client'[d] = client[d]
      BY <2>1, <2>3
    <3>4. Len(Append(<<>>, Reply)) = 1
      OBVIOUS
    <3>5. ASSUME NEW t \in Servers PROVE ~(server'[t].at = "write" /\ server'[t].cfd = d)
      <4>1. CASE t = s
        BY <2>1, <4>1
      <4>2. CASE t # s
        BY <2>1, <2>2, <2>3, <4>2 DEF Links, Accepted
      <4> QED BY <4>1, <4>2
    <3>6. ~Writing(d)'
      BY <3>5 DEF Writing
    <3> QED BY <3>2, <3>3, <3>4, <3>6 DEF Turn, Somewhere
  <2>4. CASE d # c
    <3>1. Writing(d)' <=> Writing(d)
      BY <2>1, <2>4 DEF Writing
    <3>2. up'[d] = up[d] /\ down'[d] = down[d] /\ client'[d] = client[d] /\ ends'[d] = ends[d]
      BY <2>1, <2>4
    <3> QED BY <3>1, <3>2, SameTurns DEF Turn
  <2> QED BY <2>3, <2>4
<1>5. ASSUME NEW s \in Servers, Ends(s), NEW d \in Clients PROVE Turn(d)
  <2>1. /\ server'[s].at # "write" /\ \A t \in Servers \ {s} : server'[t] = server[t]
        /\ UNCHANGED <<client, up, down>>
    BY <1>1, <1>5 DEF Ends, ServerCloses
  <2>2. "server" \in ends'[d] => "server" \in ends[d] /\ peer[d] # s
    BY <1>5 DEF Ends, ServerCloses
  <2>3. ASSUME peer[d] # s PROVE Writing(d)' <=> Writing(d)
    <3>1. server[s].at = "write" => server[s].cfd # d
      BY <2>3 DEF Links, Accepted
    <3> QED BY <2>1, <3>1 DEF Writing
  <2> QED BY <2>1, <2>2, <2>3, SameTurns DEF Turn
\* Steps of a client.
<1>6. ASSUME NEW c \in Clients, NEW at, NEW b, ClientTo(c, at, b)
      PROVE  /\ client'[c].at = at /\ client'[c].buffer = b /\ UNCHANGED server
             /\ \A d \in Clients \ {c} : client'[d] = client[d]
             /\ \A d \in Clients : Writing(d)' <=> Writing(d)
  BY <1>6 DEF ClientTo, Writing
<1>7. ASSUME NEW c \in Clients, ClientDoes(c), NEW d \in Clients \ {c} PROVE Turn(d)
  <2>1. client'[d] = client[d] /\ (Writing(d)' <=> Writing(d))
    <3>1. CASE Enters(c)
      BY <1>6, <3>1 DEF Enters
    <3>2. CASE Leaves(c)
      BY <1>6, <3>2 DEF Leaves
    <3> QED BY <1>6, <1>7, <3>1, <3>2 DEF ClientDoes, Gone, Connects, SendsNothing, Sends, Hears, HearsEnd
  <2>2. up'[d] = up[d] /\ down'[d] = down[d] /\ ends'[d] = ends[d]
    BY <1>7 DEF ClientDoes, Gone, Connects, Enters, SendsNothing, Sends, Hears, HearsEnd, Leaves, kernel,
                socket_local_client, ClientCloses
  <2> QED BY <2>1, <2>2, SameTurns DEF Turn
<1>8. ASSUME NEW c \in Clients, Gone(c) \/ Leaves(c) \/ HearsEnd(c) PROVE Turn(c)
  <2>1. CASE Leaves(c)
    BY <1>6, <2>1 DEF Leaves, Turn, Ended
  <2>2. CASE Gone(c)
    BY <1>6, <2>2 DEF Gone, Turn
  <2>3. CASE HearsEnd(c)
    BY <2>3 DEF HearsEnd, Turn, kernel
  <2> QED BY <1>8, <2>1, <2>2, <2>3
<1>9. ASSUME NEW c \in Clients, Connects(c) PROVE Turn(c)
  <2>1. client'[c].at = "type" /\ up'[c] = up[c] /\ down'[c] = down[c] /\ (Writing(c)' <=> Writing(c))
    BY <1>6, <1>9 DEF Connects, socket_local_client
  <2>2. up[c] = <<>> /\ down[c] = <<>> /\ ~Writing(c)
    BY <1>9, Fresh DEF Connects, Writing
  <2> QED BY <2>1, <2>2 DEF Turn, Nowhere
<1>10. ASSUME NEW c \in Clients, Enters(c) \/ SendsNothing(c) PROVE Turn(c)
  <2>1. /\ client[c].at \in {"type", "write"} /\ UNCHANGED <<up, down, ends>>
        /\ client'[c].at = "write" \/ (client'[c].at = "read" /\ client'[c].buffer = Empty)
        /\ Writing(c)' <=> Writing(c)
    BY <1>6, <1>10 DEF Enters, SendsNothing, kernel
  <2> QED BY <2>1 DEF Turn, Turns, Nowhere
<1>11. ASSUME NEW c \in Clients, Sends(c) PROVE Turn(c)
  <2>1. /\ client[c].at = "write" /\ client'[c].at = "read" /\ client'[c].buffer # Empty
        /\ (Writing(c)' <=> Writing(c)) /\ UNCHANGED <<down, ends>>
        /\ up'[c] = Append(up[c], client[c].buffer)
    BY <1>6, <1>11 DEF Sends
  <2>2. Len(Append(<<>>, client[c].buffer)) = 1
    OBVIOUS
  <2>3. "server" \in ends[c] => up[c] = <<>> /\ down[c] = <<>> /\ ~Writing(c)
    BY <2>1 DEF Turns, Nowhere
  <2>4. "server" \in ends'[c] => Somewhere(c)'
    BY <2>1, <2>2, <2>3 DEF Somewhere
  <2> QED BY <2>1, <2>4 DEF Turn
<1>12. ASSUME NEW c \in Clients, Hears(c) PROVE Turn(c)
  <2>1. /\ client[c].at = "read" /\ client'[c].at = "type" /\ down[c] # <<>> /\ down'[c] = <<>>
        /\ (Writing(c)' <=> Writing(c)) /\ UNCHANGED <<up, ends>>
    BY <1>6, <1>12 DEF Hears
  <2>2. "server" \in ends[c] => up[c] = <<>> /\ ~Writing(c)
    BY <2>1 DEF Turns, Nowhere, Somewhere
  <2>3. "server" \in ends'[c] => Nowhere(c)'
    BY <2>1, <2>2 DEF Nowhere
  <2> QED BY <2>1, <2>3 DEF Turn
<1>13. ASSUME UNCHANGED <<server, client, kernel>>, NEW d \in Clients PROVE Turn(d)
  BY <1>13 DEF kernel, Turn, Turns, Nowhere, Somewhere, Writing
<1>14. ASSUME NEW c \in Clients, ClientDoes(c) PROVE Turn(c)
  BY <1>8, <1>9, <1>10, <1>11, <1>12, <1>14 DEF ClientDoes
<1>15. ASSUME NEW c \in Clients, ClientDoes(c), NEW d \in Clients PROVE Turn(d)
  BY <1>7, <1>14, <1>15
<1>16. ASSUME NEW s \in Servers, ServerDoes(s), NEW d \in Clients PROVE Turn(d)
  BY <1>2, <1>3, <1>4, <1>5, <1>16
<1> QED BY <1>13, <1>15, <1>16, StepDoes
-----------------------------------------------------------------------------
LEMMA Inductive ==
    ASSUME Namespace = "ABSTRACT", IInv, [DemoNext]_demoVars
    PROVE  IInv'
<1>1. Types' /\ OneServer'
  BY TypeStep, OneServerStep DEF IInv
<1>2. Links' /\ ServerSurvives' /\ Turns'
  BY ListeningStep, AcceptedStep, QueuedStep, OpenedStep, SurvivalStep, TurnsStep DEF IInv, Links
<1> QED BY <1>1, <1>2 DEF IInv

\* The writers of OnTheWay are at most the one server the client is connected to.
LEMMA TurnsCount ==
    ASSUME Types, Links, NEW c \in Clients, "server" \in ends[c]
    PROVE  /\ Nowhere(c) => OnTheWay(c) = 0
           /\ Somewhere(c) => OnTheWay(c) = 1
<1> DEFINE W == {s \in Servers : server[s] = [at |-> "write", cfd |-> c]}
<1>1. \A s \in Servers : server[s] = [at |-> "write", cfd |-> c]
                          <=> server[s].at = "write" /\ server[s].cfd = c
  BY DEF Types, ProgramTypes, ServerRecord
<1>2. ~Writing(c) => Cardinality(W) = 0
  <2>1. ~Writing(c) => W = {}
    BY <1>1 DEF Writing
  <2> QED BY <2>1, FS_EmptySet
<1>3. Writing(c) => Cardinality(W) = 1
  <2>1. Writing(c) => W = {peer[c]}
    BY <1>1 DEF Writing, Links, Accepted
  <2> QED BY <2>1, FS_Singleton
<1>4. OnTheWay(c) = Len(up[c]) + Len(down[c]) + Cardinality(W)
  BY DEF OnTheWay
<1> HIDE DEF W
<1>5. /\ up[c] = <<>> => Len(up[c]) = 0
      /\ down[c] = <<>> => Len(down[c]) = 0
  OBVIOUS
<1>6. Nowhere(c) => OnTheWay(c) = 0
  BY <1>2, <1>4, <1>5 DEF Nowhere
<1>7. Somewhere(c) => OnTheWay(c) = 1
  <2>1. Len(up[c]) = 1 /\ down[c] = <<>> /\ ~Writing(c) => OnTheWay(c) = 1
    BY <1>2, <1>4, <1>5
  <2>2. up[c] = <<>> /\ Len(down[c]) = 1 /\ ~Writing(c) => OnTheWay(c) = 1
    BY <1>2, <1>4, <1>5
  <2>3. up[c] = <<>> /\ down[c] = <<>> /\ Writing(c) => OnTheWay(c) = 1
    BY <1>3, <1>4, <1>5
  <2> QED BY <2>1, <2>2, <2>3, Zenon DEF Somewhere
<1> QED BY <1>6, <1>7

LEMMA Fits == AddressFits
  BY DEF AddressFits, MakesAddress, AddressLength, Prefix, ZeroByte, SunPath, Offset

LEMMA Implies == IInv => Orderly
<1>1. IInv => InStep
  BY TurnsCount DEF IInv, InStep, Turns
<1> QED BY <1>1, Fits DEF IInv, Orderly

\* Under an abstract name the demo is orderly, for any number of servers,
\* clients and words and any queue length: the server that has the name keeps
\* it (socket_local_server_bind), a client and its server take turns, only a
\* client's death kills a server, and every address that is made fits.
THEOREM OrderlyAlways ==
    ASSUME Namespace = "ABSTRACT"
    PROVE  DemoSpec => []Orderly
<1>1. DemoInit => IInv
  BY Initially
<1>2. IInv /\ [DemoNext]_demoVars => IInv'
  BY Inductive
<1>3. IInv => Orderly
  BY Implies
<1> QED BY <1>1, <1>2, <1>3, PTL DEF DemoSpec
=============================================================================
