------------------------------ MODULE FdPassing ------------------------------
(***************************************************************************)
(* Descriptors sent over a Unix socket: SendFileDescriptorVector and       *)
(* ReceiveFileDescriptorVector with their templates.  The channel is a     *)
(* sequence of bytes; the first byte of a message carries what the sender  *)
(* attached, the last one ends it, which only datagrams show.              *)
(***************************************************************************)
EXTENDS Descriptors, FiniteSetsExt

CONSTANTS PageSize,  \* bytes
          MaxBytes   \* bound: how much the channel holds

ASSUME SizesAssumption == PageSize \in Nat /\ MaxBytes \in Nat

VARIABLE channel  \* kind, whether the receiver asked for credentials, bytes, and
                  \* whether the sender has closed its end

cmsghdr == 16
cmsg_space(n) == cmsghdr + 4 * (n + (n % 2))  \* CMSG_SPACE rounds up to 8
ucred_len == cmsghdr + 12
ucred_space == cmsghdr + 16

Kinds == {"stream", "datagram"}
FdPassingInit ==
    channel \in [kind : Kinds, passcred : BOOLEAN, bytes : {<<>>}, closed : {FALSE}]

\* What the receiver's kernel hands over for a buffer of n descriptors and of
\* len bytes.  A stream gives bytes up to the end of the first message that
\* carries descriptors, and nothing at its end, which recvmsg answers with 0; a
\* datagram gives its message and drops the rest.
Carriers(b) == {i \in DOMAIN b : b[i].carried # <<>>}
EndOf(b, i) == Min({j \in i .. Len(b) : b[j].last})
Taken(len) ==
    LET b == channel.bytes IN
    IF b = <<>> THEN 0
    ELSE IF channel.kind = "datagram" THEN EndOf(b, 1)
    ELSE Min({len, Len(b)} \cup {EndOf(b, i) : i \in Carriers(b)})
Carried(len) ==
    LET on == {i \in Carriers(channel.bytes) : i <= Taken(len)} IN
    IF on = {} THEN <<>> ELSE channel.bytes[Min(on)].carried
Places(n) ==
    LET space == cmsg_space(n) - IF channel.passcred THEN ucred_space ELSE 0 IN
    IF space < cmsghdr THEN 0 ELSE (space - cmsghdr) \div 4
Installed(t, n, len) == Min({Len(Carried(len)), Places(n), Cardinality(Free(t))})

\* The free numbers from the lowest one on.
Rank(t, n) == Cardinality({m \in Free(t) : m <= n})
Nth(t, i) == CHOOSE n \in Free(t) : Rank(t, n) = i
Filled(t, c) ==
    [t EXCEPT !.fds = [n \in Fd |-> IF n \in Free(t) /\ Rank(t, n) <= Len(c)
                                    THEN c[Rank(t, n)] ELSE t.fds[n]]]

\* recvmsg: the numbers it made, what it truncated, and a message of another
\* type in front of them.
recvmsg(t, n, len) ==
    LET k == Installed(t, n, len)
        c == Carried(len)
    IN  [t       |-> Filled(t, SubSeq(c, 1, k)),
         numbers |-> [i \in 1 .. k |-> Nth(t, i)],
         trunc   |-> channel.kind = "datagram" /\ Taken(len) > len,
         ctrunc  |-> k < Len(c) \/ (channel.passcred /\ cmsg_space(n) < ucred_len),
         other   |-> channel.passcred]

Failed(t) == [ok |-> FALSE, t |-> t, numbers |-> <<>>]
ReceivedVector_PartOfThem(t, max_fds, len) ==
    LET m == recvmsg(t, max_fds, len) IN
    IF cmsg_space(max_fds) >= PageSize THEN Failed(t)
    ELSE IF m.trunc \/ m.other \/ Len(m.numbers) > max_fds THEN Failed(CloseAll(m.t, m.numbers))
    ELSE [ok |-> TRUE, t |-> m.t, numbers |-> m.numbers]
\* From recvmsg on: what arrived is in received_fds, which closes it all when
\* one check fails.
ReceivedVector(t, max_fds, len) ==
    LET m == recvmsg(t, max_fds, len) IN
    IF cmsg_space(max_fds) >= PageSize THEN Failed(t)
    ELSE IF m.trunc \/ m.ctrunc \/ m.other \/ Len(m.numbers) > max_fds
         THEN Failed(CloseAll(m.t, m.numbers))
    ELSE [ok |-> TRUE, t |-> m.t, numbers |-> m.numbers]

\* fds->clear() comes first, also when the call fails.
ReceiveFileDescriptorVector(t, max_fds, len) ==
    LET r == ReceivedVector([CloseAll(t, t.vector) EXCEPT !.vector = <<>>], max_fds, len) IN
    [r EXCEPT !.t.vector = r.numbers]

Resets(t, hs, ns) ==
    LET after[i \in 0 .. Len(hs)] ==
          IF i = 0 THEN t ELSE reset(after[i - 1], hs[i], ns[i])
    IN  after[Len(hs)]

\* The template: as many as there are arguments, or none.
ReceiveFileDescriptors(t, hs, len) ==
    LET r == ReceivedVector(t, Len(hs), len)
    IN  IF r.ok /\ Len(r.numbers) = Len(hs)
        THEN [r EXCEPT !.t = Resets(r.t, hs, r.numbers)]
        ELSE Failed(CloseAll(Resets(r.t, hs, [i \in DOMAIN hs |-> None]), r.numbers))
-----------------------------------------------------------------------------
Lengths == 1 .. 2
Arguments == SeqOf(Handle, 2)

\* A stream may take part of the bytes; the descriptors go with the first.
Message(carried, len) ==
    [i \in 1 .. len |-> [carried |-> IF i = 1 THEN carried ELSE <<>>, last |-> i = len]]
SendFileDescriptorVector(ns, len) ==
    /\ cmsg_space(Len(ns)) < PageSize
    /\ \A i \in DOMAIN ns : ns[i] # None
    /\ channel' = [channel EXCEPT !.bytes = @ \o Message([i \in DOMAIN ns |-> fds[ns[i]]], len)]

Send == \E hs \in Arguments, len \in Lengths :
    /\ Idle /\ ~channel.closed
    /\ Len(channel.bytes) + len <= MaxBytes
    /\ SendFileDescriptorVector([i \in DOMAIN hs |-> held[hs[i]]], len)
    /\ UNCHANGED <<table, frame>>

\* The sender closes its end; only of a stream does the receiver see it.
Hangup ==
    /\ Idle /\ channel.kind = "stream" /\ ~channel.closed
    /\ channel' = [channel EXCEPT !.closed = TRUE]
    /\ UNCHANGED <<table, frame>>

\* recvmsg returns at all.
Arrives == channel.bytes # <<>> \/ channel.closed

Consumed(len) ==
    channel' = [channel EXCEPT !.bytes = SubSeq(@, Taken(len) + 1, Len(@))]
ReceiveVector == \E max_fds \in 0 .. 3, len \in Lengths :
    /\ Idle /\ Arrives
    /\ To(ReceiveFileDescriptorVector(Here, max_fds, len).t)
    /\ IF cmsg_space(max_fds) < PageSize THEN Consumed(len) ELSE UNCHANGED channel
    /\ UNCHANGED frame
Receive == \E hs \in Arguments, len \in Lengths :
    /\ Idle /\ Arrives
    /\ To(ReceiveFileDescriptors(Here, hs, len).t)
    /\ IF cmsg_space(Len(hs)) < PageSize THEN Consumed(len) ELSE UNCHANGED channel
    /\ UNCHANGED frame

FdPassing == Send \/ Hangup \/ ReceiveVector \/ Receive
-----------------------------------------------------------------------------
Refers(t, numbers) == [i \in DOMAIN numbers |-> t.fds[numbers[i]]]
Fits(n, len) == /\ Len(Carried(len)) <= n /\ Len(Carried(len)) <= Cardinality(Free(Here))
                /\ ~channel.passcred /\ cmsg_space(n) < PageSize
                /\ channel.kind = "datagram" => Taken(len) <= len

\* A receive hands out all that the sender attached, in its order and for the
\* objects the sender meant, or nothing: never a part when the buffer or the
\* table of descriptors is too small.  And it succeeds when all of it fits.
ReceivedIsRight ==
    Idle /\ Arrives =>
        /\ \A n \in 0 .. 3, len \in Lengths :
              LET r == ReceiveFileDescriptorVector(Here, n, len) IN
              /\ r.ok => Len(r.numbers) <= n /\ Refers(r.t, r.numbers) = Carried(len)
              /\ Fits(n, len) => r.ok
        /\ \A hs \in Arguments, len \in Lengths :
              LET r == ReceiveFileDescriptors(Here, hs, len)
                  numbers == [i \in DOMAIN hs |-> r.t.held[hs[i]]]
              IN  /\ r.ok /\ IsInjective(hs) => Refers(r.t, numbers) = Carried(len)
                  /\ ~r.ok => \A i \in DOMAIN hs : numbers[i] = None
                  /\ Fits(Len(hs), len) /\ Len(Carried(len)) = Len(hs) => r.ok
=============================================================================
