------------------------------ MODULE Endpoints ------------------------------
(***************************************************************************)
(* The sockets a caller gets ready-made: socket_inaddr_any_server and      *)
(* uevent_open_socket, each a chain of system calls that may fail, and     *)
(* uevent_kernel_recv, which believes the kernel only.                     *)
(***************************************************************************)
EXTENDS Descriptors

CONSTANT RmemMax  \* what SO_RCVBUF allows without CAP_NET_ADMIN

ASSUME RmemAssumption == RmemMax \in Nat

\* A socket that is listening or just bound to the one port; a uevent socket
\* with the size of its buffer and whether messages carry credentials.
Server(listens) == [kind |-> "server", listens |-> listens]
Uevent(buffer, passcred) == [kind |-> "uevent", buffer |-> buffer, passcred |-> passcred]
IsUevent(n) == fds[n] \in {Uevent(b, p) : b \in 0 .. 4 * RmemMax, p \in BOOLEAN}

\* The socket that is ready, or the one a failed call has closed: h is -1.
ReadyOrClosed(t, h, o, ready) ==
    LET n == Lowest(t) IN
    IF IsFull(t) THEN reset(t, h, None)
    ELSE IF ready THEN reset(Opened(t, o), h, n)
    ELSE reset(close(Opened(t, o), n), h, None)

\* SO_REUSEADDR does not help while another socket of the port listens.  Only
\* the type SOCK_STREAM alone listens, with SOCK_CLOEXEC in it it does not.
socket_inaddr_any_server(h, stream, flags, ok) ==
    LET listens == stream /\ ~flags
        bindable == \A n \in Fd : fds[n] # Server(TRUE)
    IN  To(ReadyOrClosed(Here, h, Server(listens), ok /\ bindable))

\* SO_RCVBUF first, SO_RCVBUFFORCE when it had no effect; the kernel doubles.
\* The address is the process id, which the kernel gives to one socket only.
Rcvbuf(size, force) == 2 * IF force \/ size <= RmemMax THEN size ELSE RmemMax
uevent_open_socket(h, buf_sz, passcred, ok) ==
    LET readback == Rcvbuf(buf_sz, FALSE)
        forced == readback < 2 * buf_sz
        bindable == \A n \in Fd : ~IsUevent(n)
    IN  To(ReadyOrClosed(Here, h, Uevent(Rcvbuf(buf_sz, forced), passcred), ok /\ bindable))

\* A netlink message: from the kernel or not, to the group or to one.
Messages == [kernel : BOOLEAN, group : BOOLEAN]
Receiving(at) == frame.call = "uevent_kernel_recv" /\ frame.at = at
-----------------------------------------------------------------------------
Listen == \E h \in Handle, stream, flags, ok \in BOOLEAN :
    Idle /\ socket_inaddr_any_server(h, stream, flags, ok) /\ UNCHANGED frame
UeventOpen == \E h \in Handle, buf_sz \in 1 .. 2 * RmemMax, passcred, ok \in BOOLEAN :
    Idle /\ uevent_open_socket(h, buf_sz, passcred, ok) /\ UNCHANGED frame

\* recvmsg has filled the buffer.
UeventRecv == \E h \in Handle, m \in Messages, require_group \in BOOLEAN :
    /\ Idle /\ held[h] # None /\ IsUevent(held[h])
    /\ frame' = [call |-> "uevent_kernel_recv", at |-> "check", fd |-> None, message |-> m,
                 creds |-> fds[held[h]].passcred, require_group |-> require_group,
                 buffer |-> m, ok |-> FALSE]
    /\ UNCHANGED table

Believed(f) == f.creds /\ f.message.kernel /\ (f.require_group => f.message.group)
UeventCheck ==
    /\ Receiving("check")
    /\ frame' = [frame EXCEPT !.at = "return", !.ok = Believed(frame),
                              !.buffer = IF Believed(frame) THEN @ ELSE None]
    /\ UNCHANGED table
UeventReturn == Receiving("return") /\ frame' = NoCall /\ UNCHANGED table

Endpoints == Listen \/ UeventOpen \/ UeventRecv
EndpointsStep == UeventCheck \/ UeventReturn
=============================================================================
