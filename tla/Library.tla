------------------------------- MODULE Library -------------------------------
(***************************************************************************)
(* A thread that calls the functions of libcpputils and libcutils that     *)
(* open, hand over or receive descriptors, one after the other, over one   *)
(* table of descriptors.                                                   *)
(***************************************************************************)
EXTENDS FdPassing, NetworkClient, Endpoints, FileIO

libraryVars == <<table, frame, channel>>

\* What a descriptor stands for
Thing == Object \cup [inode : Inodes]
         \cup [addr : Nat, state : {"new", "connecting", "connected", "refused"}, nonblock : BOOLEAN]
         \cup [kind : {"server"}, listens : BOOLEAN]
         \cup [kind : {"uevent"}, buffer : Nat, passcred : BOOLEAN]

ASSUME ThingAssumption == None \notin Thing

LibraryInit == DescriptorsInit /\ FdPassingInit

\* Bounds.  The functions look at nothing of the table but the numbers that are
\* free, so a call in several steps starts among descriptors of one kind, and
\* only what the caller opened is sent.
InChannel == channel.bytes # <<>>
Unused == /\ channel = [kind |-> "stream", passcred |-> FALSE, bytes |-> <<>>, closed |-> FALSE]
          /\ vector = <<>>
OfOneKind == \A n \in Fd : fds[n] \in {None, CHOOSE o \in Object : TRUE}
OnlyObjects == \A n \in Fd : fds[n] \in Object \cup {None}
NoFILE == held[FILE] = None

BeginCall ==
    /\ Unused /\ OfOneKind /\ NoFILE
    /\ SocketNetworkClient \/ FileCall
OpenSocket ==
    /\ Unused
    /\ \/ Listen
       \/ UeventOpen
       \/ UeventRecv /\ Cardinality({n \in Fd : fds[n] # None}) = 1
Running == ConnectStep \/ EndpointsStep \/ FileStep
Around == Answer \/ FileCaller \/ OtherProgram
LibraryNext == \/ Caller /\ (InChannel => held'[FILE] = None) /\ UNCHANGED channel
               \/ OnlyObjects /\ NoFILE /\ FdPassing
               \/ (BeginCall \/ OpenSocket \/ Running \/ Around) /\ UNCHANGED channel

\* The function that runs is scheduled, except in a select without a timeout,
\* which ends when the network answers; and to a network that says nothing at
\* all the kernel stops talking, which is a refusal.
Waits == Connecting("select") /\ socket.state = "connecting" /\ ~frame.timeout
Fairness == /\ WF_libraryVars(~Waits /\ Running /\ UNCHANGED channel)
            /\ WF_libraryVars(Answer /\ UNCHANGED channel)
LibrarySpec == LibraryInit /\ [][LibraryNext]_libraryVars /\ Fairness
-----------------------------------------------------------------------------
\* The buffer of a uevent receive never keeps what the kernel has not sent, and
\* nothing is believed of a socket whose messages carry no credentials.
OnlyKernelData ==
    Receiving("return") =>
        IF frame.ok THEN frame.creds /\ frame.message.kernel /\ (frame.require_group => frame.message.group)
        ELSE frame.buffer = None

\* What arrives on a socket is handed out whole, in order and as sent, or not
\* at all.
ReceivesAreRight == ReceivedIsRight /\ OnlyKernelData

\* Every call comes back, whatever the other program does and whenever the
\* network answers: no retry and no loop over a transfer goes on for ever.
EveryCallReturns == ~Idle ~> Idle
=============================================================================
