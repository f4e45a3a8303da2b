---------------------------- MODULE RecordStream ----------------------------
(***************************************************************************)
(* libcutils/record_stream.cpp: records framed by a big-endian length,     *)
(* read from a stream descriptor into one fixed buffer.                    *)
(*                                                                         *)
(* The peer appends the bytes of whole frames to the stream and may stop   *)
(* in the middle of one; read() hands the bytes over in fragments of any   *)
(* size.  Pointers into the buffer are offsets from p_rs->buffer.  `sent', *)
(* `ends', `torn' and `rcvd' are history variables.  An action of the      *)
(* reader is one call of record_stream_get_next: the object belongs to one *)
(* thread, so only its read() meets the peer.                              *)
(***************************************************************************)
EXTENDS Integers, Sequences

CONSTANTS MaxRecordLen,   \* argument of record_stream_new
          Records,        \* records the peer may emit
          MaxSent,        \* bound: complete records emitted
          Uninit          \* contents of a byte malloc returned

Byte == 0 .. 255
HEADER_SIZE == 4
NULL == -1

\* Lengths for which p_begin + HEADER_SIZE + len does not wrap around.
WireLength == {n \in Nat : n <= 2147483647 - HEADER_SIZE}

ASSUME MaxRecordLenAssumption == MaxRecordLen \in Nat /\ MaxRecordLen <= 65535
ASSUME RecordsAssumption ==
    /\ Records \subseteq Seq(Byte)
    /\ \A r \in Records : Len(r) \in WireLength
ASSUME MaxSentAssumption == MaxSent \in Nat
ASSUME UninitAssumption == Uninit \notin Byte

VARIABLES written,      \* every byte the peer put on the stream
          taken,        \* how many of them read() has handed over
          closed,       \* the peer has closed its end
          buffer, unconsumed, read_end,     \* fields of struct RecordStream
          result,       \* what the last record_stream_get_next reported
          sent,         \* complete records emitted
          ends,         \* ends[i]: bytes written before record i
          torn,         \* the record cut short by the peer's end, or <<>>
          rcvd          \* records returned

peer == <<written, closed, sent, ends, torn>>
vars == <<written, taken, closed, buffer, unconsumed, read_end, result,
          sent, ends, torn, rcvd>>

buffer_end == MaxRecordLen + HEADER_SIZE
Offset == 0 .. buffer_end

TypeOK ==
    /\ written \in Seq(Byte)
    /\ taken \in 0 .. Len(written)
    /\ closed \in BOOLEAN
    /\ buffer \in [0 .. buffer_end - 1 -> Byte \cup {Uninit}]
    /\ unconsumed \in Offset
    /\ read_end \in Offset
    /\ unconsumed <= read_end
    /\ result \in {"none", "record", "again", "too_big", "eof", "error"}
    /\ sent \in Seq(Records)
    /\ ends \in Seq(Nat)
    /\ torn \in Records \cup {<<>>}
    /\ rcvd \in Seq(Seq(Byte))

-----------------------------------------------------------------------------
(* The wire format.                                                        *)

Htonl(n) == << (n \div 16777216) % 256, (n \div 65536) % 256,
               (n \div 256) % 256, n % 256 >>

Ntohl(a, b, c, d) == a * 16777216 + b * 65536 + c * 256 + d

Frame(r) == Htonl(Len(r)) \o r

-----------------------------------------------------------------------------
(* The peer.                                                               *)

Emit(r) ==
    /\ ~closed
    /\ Len(sent) < MaxSent
    /\ written' = written \o Frame(r)
    /\ sent' = Append(sent, r)
    /\ ends' = Append(ends, Len(written) + HEADER_SIZE + Len(r))
    /\ UNCHANGED <<closed, torn, taken, buffer, unconsumed, read_end, result,
                   rcvd>>

Close ==
    /\ ~closed
    /\ closed' = TRUE
    /\ UNCHANGED <<written, sent, ends, torn, taken, buffer, unconsumed,
                   read_end, result, rcvd>>

\* The peer dies having written the first k bytes of a frame.
CloseInside(r, k) ==
    /\ ~closed
    /\ closed' = TRUE
    /\ written' = written \o SubSeq(Frame(r), 1, k)
    /\ torn' = r
    /\ UNCHANGED <<sent, ends, taken, buffer, unconsumed, read_end, result,
                   rcvd>>

-----------------------------------------------------------------------------
(* The reader.                                                             *)

\* The offset after the record at b, or NULL if [b, e) has no whole record.
EndOfRecord_StrictEnd(buf, b, e) ==
    IF e < b + HEADER_SIZE THEN NULL
    ELSE LET ret == b + HEADER_SIZE + Ntohl(buf[b], buf[b+1], buf[b+2], buf[b+3])
         IN  IF e <= ret THEN NULL ELSE ret
EndOfRecord_LenCountsHeader(buf, b, e) ==
    IF e < b + HEADER_SIZE THEN NULL
    ELSE LET ret == b + Ntohl(buf[b], buf[b+1], buf[b+2], buf[b+3])
         IN  IF e < ret THEN NULL ELSE ret
getEndOfRecord(buf, b, e) ==
    IF e < b + HEADER_SIZE THEN NULL
    ELSE LET ret == b + HEADER_SIZE + Ntohl(buf[b], buf[b+1], buf[b+2], buf[b+3])
         IN  IF e < ret THEN NULL ELSE ret

\* The bytes of buf in [b, e), as the caller sees them through the pointer.
Bytes(buf, b, e) == [k \in 1 .. e - b |-> buf[b + k - 1]]

\* getNextRecord finds a record in buf: it is returned and passed over.
Return(buf, b, e) ==
    LET stop == getEndOfRecord(buf, b, e) IN
    /\ stop # NULL
    /\ rcvd' = Append(rcvd, Bytes(buf, b + HEADER_SIZE, stop))
    /\ unconsumed' = stop
    /\ result' = "record"

GetBuffered ==
    /\ Return(buffer, unconsumed, read_end)
    /\ UNCHANGED <<peer, taken, buffer, read_end>>

NeedsRead == getEndOfRecord(buffer, unconsumed, read_end) = NULL

IsFull_Never == FALSE
IsFull == unconsumed = 0 /\ read_end = buffer_end

GetTooBig_Discards ==
    /\ NeedsRead
    /\ IsFull
    /\ result' = "too_big"
    /\ read_end' = 0
    /\ UNCHANGED <<peer, taken, buffer, unconsumed, rcvd>>
GetTooBig ==
    /\ NeedsRead
    /\ IsFull
    /\ result' = "too_big"
    /\ UNCHANGED <<peer, taken, buffer, unconsumed, read_end, rcvd>>

\* What the buffer and its end are after the remainder has moved to the front.
toMove == read_end - unconsumed
Moved_Not == buffer
Moved == [i \in 0 .. buffer_end - 1 |->
             IF i < toMove THEN buffer[i + unconsumed] ELSE buffer[i]]

\* The buffer after a read of n bytes behind the remainder.
Filled(n) == [i \in 0 .. buffer_end - 1 |->
                 IF i \in toMove .. toMove + n - 1
                 THEN written[taken + (i - toMove) + 1] ELSE Moved[i]]

Room == buffer_end - toMove

Pending == Len(written) - taken

GetRead(n) ==
    /\ NeedsRead
    /\ ~IsFull
    /\ n <= Room
    /\ n <= Pending
    /\ taken' = taken + n
    /\ buffer' = Filled(n)
    /\ read_end' = toMove + n
    /\ \/ Return(Filled(n), 0, toMove + n)
       \/ /\ getEndOfRecord(Filled(n), 0, toMove + n) = NULL
          /\ unconsumed' = 0
          /\ result' = "again"
          /\ rcvd' = rcvd
    /\ UNCHANGED peer

\* read() returns 0 or -1; the remainder has moved all the same.
Unread_KeepsStart(r) ==
    /\ NeedsRead
    /\ ~IsFull
    /\ buffer' = Moved
    /\ read_end' = toMove
    /\ result' = r
    /\ UNCHANGED <<peer, taken, unconsumed, rcvd>>
Unread(r) ==
    /\ NeedsRead
    /\ ~IsFull
    /\ buffer' = Moved
    /\ read_end' = toMove
    /\ unconsumed' = 0
    /\ result' = r
    /\ UNCHANGED <<peer, taken, rcvd>>

\* A length of 0 makes read() return 0 as the end of the stream does.
GetEof == (Room = 0 \/ (Pending = 0 /\ closed)) /\ Unread("eof")

\* Nothing to read yet: EAGAIN or EINTR from read().
GetError == Room > 0 /\ Pending = 0 /\ ~closed /\ Unread("error")

record_stream_get_next ==
    \/ GetBuffered
    \/ GetTooBig
    \/ \E n \in 1 .. buffer_end : GetRead(n)
    \/ GetEof
    \/ GetError

-----------------------------------------------------------------------------
Init ==
    /\ written = <<>> /\ taken = 0 /\ closed = FALSE
    /\ sent = <<>> /\ ends = <<0>> /\ torn = <<>>
    /\ buffer = [i \in 0 .. buffer_end - 1 |-> Uninit]
    /\ unconsumed = 0 /\ read_end = 0
    /\ result = "none" /\ rcvd = <<>>

Peer ==
    \/ \E r \in Records : Emit(r)
    \/ Close
    \/ \E r \in Records : \E k \in 1 .. HEADER_SIZE + Len(r) - 1 : CloseInside(r, k)

Next == Peer \/ record_stream_get_next

\* The caller keeps calling record_stream_get_next.
Spec == Init /\ [][Next]_vars /\ WF_vars(record_stream_get_next)

-----------------------------------------------------------------------------
(* Properties.                                                             *)

\* The record the reader stands before: a complete one or the torn one.
NextUp == IF Len(rcvd) < Len(sent) THEN sent[Len(rcvd) + 1] ELSE torn

\* The length that the four bytes behind position p of w encode.
LenAt(w, p) == Ntohl(w[p+1], w[p+2], w[p+3], w[p+4])

\* The stream is the frames of the records sent, then what was cut short.
Framed ==
    /\ Len(ends) = Len(sent) + 1
    /\ \A i \in 1 .. Len(sent) :
          /\ ends[i + 1] = ends[i] + HEADER_SIZE + Len(sent[i])
          /\ ends[i + 1] <= Len(written)
          /\ LenAt(written, ends[i]) = Len(sent[i])
          /\ \A k \in 1 .. Len(sent[i]) :
                written[ends[i] + HEADER_SIZE + k] = sent[i][k]
    /\ ends[Len(ends)] <= Len(written)
    /\ ~closed => Len(written) = ends[Len(ends)]
    /\ Len(written) >= ends[Len(ends)] + HEADER_SIZE =>
          /\ LenAt(written, ends[Len(ends)]) = Len(torn)
          /\ Len(written) < ends[Len(ends)] + HEADER_SIZE + Len(torn)

\* Where in the stream the first record not yet returned begins.
Start == ends[Len(rcvd) + 1]

\* unconsumed stands at the header of the first record not yet returned, and
\* [unconsumed, read_end) holds the bytes of the stream from there on, however
\* often the remainder has been moved to the front of the buffer.
Aligned ==
    /\ Len(rcvd) <= Len(sent)
    /\ taken = Start + toMove
    /\ \A k \in 0 .. toMove - 1 :
          buffer[unconsumed + k] = written[Start + k + 1]

\* However read() cuts the stream, the records returned are the first records
\* the peer framed, unchanged and in order.
InOrder ==
    /\ Len(rcvd) <= Len(sent)
    /\ \A i \in 1 .. Len(rcvd) : rcvd[i] = sent[i]

\* EFBIG ("this should never happen") is reported only for a record longer than
\* maxRecordLen: a record that fits never fills the buffer without being complete.
TooBigOnlyIfLonger == result = "too_big" => Len(NextUp) > MaxRecordLen

\* A NULL record with return 0 means the end of the stream and nothing else:
\* never a read() of length 0, never while a complete record is undelivered.
EofOnlyAtEnd ==
    result = "eof" => closed /\ taken = Len(written) /\ rcvd = sent

\* EAGAIN after a short read means the bytes taken hold no whole record more, so
\* a caller that now waits for the descriptor does not sleep on a record.
AgainOnlyIfDrained ==
    result = "again" /\ Len(rcvd) < Len(sent) => taken < ends[Len(rcvd) + 2]

\* What the calls of record_stream_get_next have told their caller is so: the
\* records, the end, "nothing yet" and "too long".
ResultsAreRight == InOrder /\ TooBigOnlyIfLonger /\ EofOnlyAtEnd /\ AgainOnlyIfDrained

\* After EFBIG the stream is dead: no later call returns a record.
TooBigIsFinal == [][result = "too_big" => rcvd' = rcvd /\ result' = "too_big"]_vars

\* If every record the peer emits fits, all of them are returned in the end.
AllFit == \A i \in 1 .. Len(sent) : Len(sent[i]) <= MaxRecordLen
AllDelivered == AllFit ~> (rcvd = sent \/ ~AllFit)

\* The reader over bytes implements the channel over records.
Ended == CASE result = "eof"     -> "eof"
           [] result = "too_big" -> "too_big"
           [] OTHER              -> "open"
Channel == INSTANCE RecordChannel WITH ended <- Ended
ChannelSpec == Channel!Spec
=============================================================================
