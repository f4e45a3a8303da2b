---------------------------- MODULE NetworkClient ----------------------------
(***************************************************************************)
(* socket_network_client_timeout: one address after the other, with a      *)
(* nonblocking connect and a select that gives up after the timeout, while *)
(* the network answers when it likes.  Every system call may fail.         *)
(***************************************************************************)
EXTENDS Descriptors

CONSTANT MaxAddresses

ASSUME AddressesAssumption == MaxAddresses \in Nat

\* The sockets of the calls, as far as the client can tell.
Sock(addr, state, nonblock) == [addr |-> addr, state |-> state, nonblock |-> nonblock]
socket == fds[frame.fd]
Connecting(at) == frame.call = "socket_network_client" /\ frame.at = at

\* Locals and, for the properties: how often the whole timeout has passed at
\* most, which addresses refused, and whether a system call failed.
Start(n, timeout) ==
    [call |-> "socket_network_client", at |-> IF n = 0 THEN "return" ELSE "socket", fd |-> None,
     addr |-> 1, last |-> n, timeout |-> timeout, waited |-> 0, refused |-> {}, failed |-> n = 0,
     timedOut |-> FALSE]

\* fcntl fails: the descriptor is closed and -1 returned.
toggle_O_NONBLOCK(t, s, ok) ==
    IF ok THEN [t EXCEPT !.fds[s].nonblock = ~@] ELSE close(t, s)

\* break, with the descriptor of the result or none
Break(s) == frame' = [frame EXCEPT !.at = "return", !.fd = s]
GiveUp == To(close(Here, frame.fd))
          /\ frame' = [frame EXCEPT !.at = "return", !.fd = None, !.failed = TRUE]
Continue_Leaks == /\ frame' = [frame EXCEPT !.at = "socket", !.fd = None, !.addr = @ + 1,
                                            !.refused = @ \cup {frame.addr}]
                  /\ UNCHANGED table
Continue == /\ frame' = [frame EXCEPT !.at = "socket", !.fd = None, !.addr = @ + 1,
                                      !.refused = @ \cup {frame.addr}]
            /\ To(close(Here, frame.fd))
Toggled(t) == \E ok \in BOOLEAN :
    /\ To(toggle_O_NONBLOCK(t, frame.fd, ok))
    /\ frame' = [frame EXCEPT !.at = "return", !.fd = IF ok THEN @ ELSE None, !.failed = ~ok]

\* getaddrinfo: n addresses, or none and its error.
SocketNetworkClient == \E n \in 0 .. MaxAddresses, timeout \in BOOLEAN :
    Idle /\ frame' = Start(n, timeout) /\ UNCHANGED table

Socket ==
    /\ Connecting("socket")
    /\ \/ frame.addr > frame.last /\ Break(None) /\ UNCHANGED table
       \/ frame.addr <= frame.last /\ GiveUp
       \/ /\ frame.addr <= frame.last /\ ~IsFull(Here)
          /\ \E ok \in BOOLEAN :
                /\ To(toggle_O_NONBLOCK(Opened(Here, Sock(frame.addr, "new", FALSE)), Lowest(Here), ok))
                /\ frame' = IF ok THEN [frame EXCEPT !.at = "connect", !.fd = Lowest(Here)]
                            ELSE [frame EXCEPT !.at = "return", !.failed = TRUE]

Connect ==
    /\ Connecting("connect")
    /\ \/ Toggled([Here EXCEPT !.fds[frame.fd].state = "connected"])
       \/ Continue
       \/ /\ To([Here EXCEPT !.fds[frame.fd].state = "connecting"])
          /\ frame' = [frame EXCEPT !.at = "select"]

\* The timeout starts anew with every address.
Select ==
    /\ Connecting("select")
    /\ \/ GiveUp
       \/ /\ socket.state # "connecting"
          /\ \E w \in {frame.waited, frame.waited + 1} :
                frame' = [frame EXCEPT !.at = "getsockopt", !.waited = w]
          /\ UNCHANGED table
       \/ /\ frame.timeout /\ socket.state = "connecting"
          /\ To(close(Here, frame.fd))
          /\ frame' = [frame EXCEPT !.at = "return", !.fd = None, !.waited = @ + 1, !.timedOut = TRUE]

Getsockopt_IgnoresError ==
    Connecting("getsockopt") /\ (GiveUp \/ Toggled(Here))
Getsockopt ==
    /\ Connecting("getsockopt")
    /\ \/ GiveUp
       \/ socket.state = "refused" /\ Continue
       \/ socket.state = "connected" /\ Toggled(Here)

\* The caller puts the result into a unique_fd.
Connected == \E h \in Handle :
    /\ Connecting("return")
    /\ To(reset(Here, h, frame.fd))
    /\ frame' = NoCall

\* The network answers, or the kernel gives up.
Answer == \E state \in {"connected", "refused"} :
    /\ Connecting("select") /\ socket.state = "connecting"
    /\ fds' = [fds EXCEPT ![frame.fd].state = state]
    /\ UNCHANGED <<held, vector, wrong, frame>>

ConnectStep == Socket \/ Connect \/ Select \/ Getsockopt \/ Connected
-----------------------------------------------------------------------------
\* A descriptor that is returned is connected, blocking, and for the first
\* address that did not refuse.  -1 comes only when all of them refused, a
\* system call failed or the time was up, and the whole timeout passed at most
\* once for each address.
ConnectsRight ==
    Connecting("return") =>
        LET tried == 1 .. frame.addr - 1 IN
        /\ frame.refused = tried
        /\ frame.fd # None => socket = Sock(frame.addr, "connected", FALSE)
        /\ frame.fd = None => frame.failed \/ frame.timedOut \/ tried = 1 .. frame.last
        /\ frame.waited <= frame.last
=============================================================================
