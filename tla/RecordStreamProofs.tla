------------------------ MODULE RecordStreamProofs ------------------------
(***************************************************************************)
(* Proofs about RecordStream for every maxRecordLen, every set of records  *)
(* and every number of them.  The inductive invariant is IInv: the stream  *)
(* is a sequence of frames, the buffer is a window of it that begins at a  *)
(* frame, and what was returned is what the frames before it carry.        *)
(***************************************************************************)
EXTENDS RecordStream, TLAPS

\* What the last result says of the present state; EFBIG and the end persist.
ResultOK ==
    /\ result = "too_big" => NeedsRead /\ IsFull
    /\ result = "eof" => ~IsFull
    /\ EofOnlyAtEnd
    /\ AgainOnlyIfDrained

IInv == TypeOK /\ Framed /\ Aligned /\ InOrder /\ ResultOK

-----------------------------------------------------------------------------
(* Sizes, and sequences of bytes.                                          *)

LEMMA BufferSize == MaxRecordLen \in Nat /\ buffer_end \in Nat
  BY MaxRecordLenAssumption DEF buffer_end, HEADER_SIZE

LEMMA Concatenated ==
    ASSUME NEW s \in Seq(Byte), NEW t \in Seq(Byte)
    PROVE  /\ s \o t \in Seq(Byte)
           /\ Len(s \o t) = Len(s) + Len(t)
           /\ \A i \in 1 .. Len(s) : (s \o t)[i] = s[i]
           /\ \A i \in 1 .. Len(t) : (s \o t)[Len(s) + i] = t[i]
  OBVIOUS

LEMMA RecordSize == \A r \in Records : r \in Seq(Byte) /\ Len(r) \in Nat
<1> TAKE r \in Records
<1>1. r \in Seq(Byte)
  BY RecordsAssumption, Zenon
<1> QED
  BY <1>1

-----------------------------------------------------------------------------
(* The wire format.                                                        *)

\* ntohl undoes htonl on every length a frame may carry.
LEMMA HeaderRoundTrip ==
    ASSUME NEW n \in WireLength
    PROVE  /\ Htonl(n) \in Seq(Byte)
           /\ Len(Htonl(n)) = HEADER_SIZE
           /\ Ntohl(Htonl(n)[1], Htonl(n)[2], Htonl(n)[3], Htonl(n)[4]) = n
<1>1. /\ (n \div 16777216) % 256 \in Byte
      /\ (n \div 65536) % 256 \in Byte
      /\ (n \div 256) % 256 \in Byte
      /\ n % 256 \in Byte
  BY SMT DEF Byte, WireLength, HEADER_SIZE
<1>2. Ntohl((n \div 16777216) % 256, (n \div 65536) % 256,
            (n \div 256) % 256, n % 256) = n
  BY SMT DEF WireLength, HEADER_SIZE, Ntohl
<1>3. \A a, b, c, d \in Byte :
         /\ <<a, b, c, d>> \in Seq(Byte)
         /\ Len(<<a, b, c, d>>) = HEADER_SIZE
         /\ <<a, b, c, d>>[1] = a /\ <<a, b, c, d>>[2] = b
         /\ <<a, b, c, d>>[3] = c /\ <<a, b, c, d>>[4] = d
  BY DEF HEADER_SIZE
<1> QED
  BY <1>1, <1>2, <1>3, SMT DEF Htonl

\* A frame is its header and the bytes of the record.
LEMMA FrameBytes ==
    ASSUME NEW r \in Records
    PROVE  /\ Frame(r) \in Seq(Byte)
           /\ Len(r) \in Nat /\ r \in Seq(Byte)
           /\ Len(Frame(r)) = HEADER_SIZE + Len(r)
           /\ Ntohl(Frame(r)[1], Frame(r)[2], Frame(r)[3], Frame(r)[4]) = Len(r)
           /\ \A k \in 1 .. Len(r) : Frame(r)[HEADER_SIZE + k] = r[k]
<1>1. r \in Seq(Byte) /\ Len(r) \in WireLength
  BY RecordsAssumption, Zenon
<1> DEFINE h == Htonl(Len(r))
<1>2. /\ h \in Seq(Byte) /\ Len(h) = HEADER_SIZE
      /\ Ntohl(h[1], h[2], h[3], h[4]) = Len(r)
  BY <1>1, HeaderRoundTrip, SMT
<1> HIDE DEF h
<1>3. /\ h \o r \in Seq(Byte)
      /\ Len(h \o r) = Len(h) + Len(r)
      /\ \A i \in 1 .. Len(h) : (h \o r)[i] = h[i]
      /\ \A i \in 1 .. Len(r) : (h \o r)[Len(h) + i] = r[i]
  BY <1>1, <1>2, Concatenated, Zenon
<1>4. Frame(r) = h \o r
  BY DEF Frame, h
<1> QED
  BY <1>1, <1>2, <1>3, <1>4 DEF HEADER_SIZE

-----------------------------------------------------------------------------
(* The parser.                                                             *)

\* [b, e) of buf is the stream from position p on.
WindowAt(buf, b, e, p) ==
    \A k \in 0 .. e - b - 1 : buf[b + k] = written[p + k + 1]

\* A header inside the window decodes to the length at that place of the stream.
LEMMA HeaderInWindow ==
    ASSUME NEW buf, NEW b \in Nat, NEW e \in Nat, NEW p \in Nat,
           WindowAt(buf, b, e, p),
           b + HEADER_SIZE <= e
    PROVE  Ntohl(buf[b], buf[b+1], buf[b+2], buf[b+3]) = LenAt(written, p)
<1>1. /\ buf[b + 0] = written[p + 0 + 1] /\ buf[b + 1] = written[p + 1 + 1]
      /\ buf[b + 2] = written[p + 2 + 1] /\ buf[b + 3] = written[p + 3 + 1]
  BY DEF WindowAt, HEADER_SIZE
<1> QED
  BY <1>1 DEF LenAt

\* A payload inside the window is the payload at that place of the stream.
LEMMA PayloadInWindow ==
    ASSUME NEW buf, NEW b \in Nat, NEW e \in Nat, NEW p \in Nat,
           WindowAt(buf, b, e, p),
           NEW r \in Seq(Byte), NEW len \in Nat, Len(r) = len,
           b + HEADER_SIZE + len <= e,
           \A k \in 1 .. len : written[p + HEADER_SIZE + k] = r[k]
    PROVE  Bytes(buf, b + HEADER_SIZE, b + HEADER_SIZE + len) = r
<1>1. ASSUME NEW k \in 1 .. len
      PROVE  buf[b + HEADER_SIZE + k - 1] = r[k]
  <2>1. HEADER_SIZE + k - 1 \in 0 .. e - b - 1
    BY DEF HEADER_SIZE
  <2>2. buf[b + (HEADER_SIZE + k - 1)] = written[p + (HEADER_SIZE + k - 1) + 1]
    BY <2>1 DEF WindowAt
  <2>3. /\ b + (HEADER_SIZE + k - 1) = b + HEADER_SIZE + k - 1
        /\ p + (HEADER_SIZE + k - 1) + 1 = p + HEADER_SIZE + k
    BY DEF HEADER_SIZE
  <2> QED
    BY <2>2, <2>3
<1>2. (b + HEADER_SIZE + len) - (b + HEADER_SIZE) = len
  BY DEF HEADER_SIZE
<1>3. Bytes(buf, b + HEADER_SIZE, b + HEADER_SIZE + len) = [k \in 1 .. len |-> r[k]]
  BY <1>1, <1>2, Zenon DEF Bytes
<1> QED
  BY <1>3

\* On a window [b, e) of the stream that begins at the first record not yet
\* returned, getEndOfRecord finds a record exactly if the frame is in the window
\* as a whole, and then the record is what the peer framed.
LEMMA WindowParse ==
    ASSUME TypeOK, Framed, Len(rcvd) <= Len(sent),
           NEW buf, NEW b \in Nat, NEW e \in Nat,
           b <= e,
           Start + (e - b) <= Len(written),
           WindowAt(buf, b, e, Start)
    PROVE  /\ getEndOfRecord(buf, b, e) # NULL =>
                 /\ Len(rcvd) < Len(sent)
                 /\ getEndOfRecord(buf, b, e) = b + HEADER_SIZE + Len(NextUp)
                 /\ getEndOfRecord(buf, b, e) <= e
                 /\ Bytes(buf, b + HEADER_SIZE, getEndOfRecord(buf, b, e)) = NextUp
           /\ getEndOfRecord(buf, b, e) = NULL =>
                 /\ e < b + HEADER_SIZE \/ e < b + HEADER_SIZE + Len(NextUp)
                 /\ Len(rcvd) < Len(sent) => Start + (e - b) < ends[Len(rcvd) + 2]
<1>1. /\ Start \in Nat /\ Len(written) \in Nat
      /\ NextUp \in Seq(Byte) /\ Len(NextUp) \in Nat
  <2>1. /\ Len(rcvd) \in Nat /\ Len(sent) \in Nat /\ Len(written) \in Nat
        /\ Len(rcvd) + 1 \in 1 .. Len(ends)
    BY DEF TypeOK, Framed
  <2>2. Start \in Nat
    BY <2>1 DEF TypeOK, Start
  <2>3. torn \in Seq(Byte)
    <3>1. <<>> \in Seq(Byte)
      OBVIOUS
    <3> QED
      BY <3>1, RecordSize, Zenon DEF TypeOK
  <2>4. CASE Len(rcvd) < Len(sent)
    <3>1. sent[Len(rcvd) + 1] \in Records
      BY <2>1, <2>4 DEF TypeOK
    <3> QED
      BY <2>1, <2>2, <2>4, <3>1, RecordSize, Zenon DEF NextUp
  <2>5. CASE ~ Len(rcvd) < Len(sent)
    BY <2>1, <2>2, <2>3, <2>5 DEF NextUp
  <2> QED
    BY <2>4, <2>5
<1>2. ASSUME Len(rcvd) < Len(sent)
      PROVE  /\ LenAt(written, Start) = Len(NextUp)
             /\ ends[Len(rcvd) + 2] = Start + HEADER_SIZE + Len(NextUp)
             /\ \A k \in 1 .. Len(NextUp) :
                    written[Start + HEADER_SIZE + k] = NextUp[k]
  <2>1. Len(rcvd) \in Nat /\ Len(sent) \in Nat
    BY DEF TypeOK
  <2>2. Len(rcvd) + 1 \in 1 .. Len(sent) /\ NextUp = sent[Len(rcvd) + 1]
    BY <1>2, <2>1 DEF NextUp
  <2>3. /\ ends[(Len(rcvd) + 1) + 1] = Start + HEADER_SIZE + Len(sent[Len(rcvd) + 1])
        /\ LenAt(written, Start) = Len(sent[Len(rcvd) + 1])
        /\ \A k \in 1 .. Len(sent[Len(rcvd) + 1]) :
               written[Start + HEADER_SIZE + k] = sent[Len(rcvd) + 1][k]
    BY <2>2, Zenon DEF Framed, Start
  <2>4. (Len(rcvd) + 1) + 1 = Len(rcvd) + 2
    BY <2>1
  <2> QED
    BY <2>2, <2>3, <2>4, Zenon
<1>3. ASSUME ~ Len(rcvd) < Len(sent), b + HEADER_SIZE <= e
      PROVE  /\ LenAt(written, Start) = Len(NextUp)
             /\ e < b + HEADER_SIZE + Len(NextUp)
  <2>1. Start = ends[Len(ends)] /\ NextUp = torn
    BY <1>3 DEF TypeOK, Framed, Start, NextUp
  <2>2. Len(written) >= Start + HEADER_SIZE
    BY <1>1, <1>3 DEF HEADER_SIZE
  <2> QED
    BY <1>1, <1>3, <2>1, <2>2 DEF Framed, HEADER_SIZE
<1>4. ASSUME b + HEADER_SIZE <= e
      PROVE  Ntohl(buf[b], buf[b+1], buf[b+2], buf[b+3]) = Len(NextUp)
  BY <1>1, <1>2, <1>3, <1>4, HeaderInWindow
<1>5. CASE e < b + HEADER_SIZE
  <2>1. getEndOfRecord(buf, b, e) = NULL
    BY <1>5 DEF getEndOfRecord
  <2> QED
    BY <1>1, <1>2, <1>5, <2>1 DEF HEADER_SIZE
<1>6. CASE b + HEADER_SIZE <= e /\ e < b + HEADER_SIZE + Len(NextUp)
  <2>1. getEndOfRecord(buf, b, e) = NULL
    BY <1>1, <1>4, <1>6 DEF getEndOfRecord, HEADER_SIZE
  <2> QED
    BY <1>1, <1>2, <1>6, <2>1 DEF HEADER_SIZE
<1>7. CASE b + HEADER_SIZE + Len(NextUp) <= e
  <2>1. b + HEADER_SIZE <= e
    BY <1>1, <1>7 DEF HEADER_SIZE
  <2>2. getEndOfRecord(buf, b, e) = b + HEADER_SIZE + Len(NextUp)
    <3>1. ~ e < b + HEADER_SIZE /\ ~ e < b + HEADER_SIZE + Len(NextUp)
      BY <1>1, <1>7, <2>1 DEF HEADER_SIZE
    <3> QED
      BY <1>4, <2>1, <3>1, Zenon DEF getEndOfRecord
  <2>3. Len(rcvd) < Len(sent)
    BY <1>1, <1>3, <1>7, <2>1 DEF HEADER_SIZE
  <2>4. Bytes(buf, b + HEADER_SIZE, b + HEADER_SIZE + Len(NextUp)) = NextUp
    BY <1>1, <1>2, <1>7, <2>3, PayloadInWindow
  <2>5. getEndOfRecord(buf, b, e) # NULL
    BY <1>1, <2>2 DEF NULL, HEADER_SIZE
  <2> QED
    BY <1>7, <2>2, <2>3, <2>4, <2>5
<1> QED
  BY <1>1, <1>5, <1>6, <1>7 DEF HEADER_SIZE

-----------------------------------------------------------------------------
(* Steps of the peer.                                                      *)

\* What is on the stream stays there when more is written behind it.
LEMMA Appended ==
    ASSUME NEW f \in Seq(Byte), written \in Seq(Byte), written' = written \o f
    PROVE  /\ written' \in Seq(Byte)
           /\ Len(written) \in Nat /\ Len(f) \in Nat
           /\ Len(written') = Len(written) + Len(f)
           /\ \A j \in 1 .. Len(written) : written'[j] = written[j]
           /\ \A j \in 1 .. Len(f) : written'[Len(written) + j] = f[j]
  OBVIOUS

LEMMA LenAtKept ==
    ASSUME NEW f \in Seq(Byte), written \in Seq(Byte), written' = written \o f,
           NEW p \in Nat, p + HEADER_SIZE <= Len(written)
    PROVE  LenAt(written', p) = LenAt(written, p)
<1>1. /\ p + 1 \in 1 .. Len(written) /\ p + 2 \in 1 .. Len(written)
      /\ p + 3 \in 1 .. Len(written) /\ p + 4 \in 1 .. Len(written)
  BY DEF HEADER_SIZE
<1>2. /\ written'[p + 1] = written[p + 1] /\ written'[p + 2] = written[p + 2]
      /\ written'[p + 3] = written[p + 3] /\ written'[p + 4] = written[p + 4]
  BY <1>1, Appended
<1> QED
  BY <1>2 DEF LenAt

\* The frames already on the stream are not touched.
LEMMA FramesKept ==
    ASSUME TypeOK, Framed,
           NEW f \in Seq(Byte), written' = written \o f,
           NEW i \in 1 .. Len(sent)
    PROVE  /\ ends[i + 1] = ends[i] + HEADER_SIZE + Len(sent[i])
           /\ ends[i + 1] <= Len(written')
           /\ LenAt(written', ends[i]) = Len(sent[i])
           /\ \A k \in 1 .. Len(sent[i]) :
                  written'[ends[i] + HEADER_SIZE + k] = sent[i][k]
<1>1. /\ Len(sent) \in Nat /\ Len(ends) = Len(sent) + 1 /\ sent[i] \in Records
  <2>1. sent \in Seq(Records)
    BY Zenon DEF TypeOK
  <2>2. Len(ends) = Len(sent) + 1
    BY Zenon DEF Framed
  <2> QED
    BY <2>1, <2>2
<1>2. /\ sent[i] \in Seq(Byte) /\ Len(sent[i]) \in Nat
  BY <1>1, RecordSize, Zenon
<1>3. ends[i] \in Nat
  BY <1>1 DEF TypeOK
<1>4. /\ ends[i + 1] = ends[i] + HEADER_SIZE + Len(sent[i])
      /\ ends[i + 1] <= Len(written)
      /\ LenAt(written, ends[i]) = Len(sent[i])
      /\ \A k \in 1 .. Len(sent[i]) : written[ends[i] + HEADER_SIZE + k] = sent[i][k]
  BY DEF Framed
<1>5. /\ written \in Seq(Byte) /\ Len(written) \in Nat
      /\ Len(f) \in Nat /\ Len(written') = Len(written) + Len(f)
  BY Appended DEF TypeOK
<1>6. /\ ends[i] + HEADER_SIZE + Len(sent[i]) <= Len(written)
      /\ ends[i] + HEADER_SIZE <= Len(written)
      /\ ends[i + 1] <= Len(written')
  BY <1>2, <1>3, <1>4, <1>5 DEF HEADER_SIZE
<1>7. LenAt(written', ends[i]) = Len(sent[i])
  BY <1>3, <1>4, <1>5, <1>6, LenAtKept
<1>8. ASSUME NEW k \in 1 .. Len(sent[i])
      PROVE  written'[ends[i] + HEADER_SIZE + k] = sent[i][k]
  <2>1. ends[i] + HEADER_SIZE + k \in 1 .. Len(written)
    <3> DEFINE l == Len(sent[i])
               p == ends[i]
    <3>1. /\ p \in Nat /\ l \in Nat /\ Len(written) \in Nat
          /\ p + HEADER_SIZE + l <= Len(written) /\ k \in 1 .. l
      BY <1>2, <1>3, <1>5, <1>6, Zenon
    <3> HIDE DEF l, p
    <3>2. p + HEADER_SIZE + k \in 1 .. Len(written)
      BY <3>1 DEF HEADER_SIZE
    <3> QED
      BY <3>2, Zenon DEF p
  <2>2. written'[ends[i] + HEADER_SIZE + k] = written[ends[i] + HEADER_SIZE + k]
    BY <1>5, <2>1, Appended, Zenon
  <2> QED
    BY <1>4, <2>2, Zenon
<1> QED
  BY <1>4, <1>6, <1>7, <1>8, Zenon

\* Bytes written behind the stream disturb neither the window nor the results.
LEMMA ReaderKept ==
    ASSUME IInv,
           NEW f \in Seq(Byte), written' = written \o f,
           UNCHANGED <<taken, buffer, unconsumed, read_end, result, rcvd>>,
           Len(sent) <= Len(sent'),
           \A i \in 1 .. Len(sent) : sent'[i] = sent[i],
           \A i \in 1 .. Len(ends) : ends'[i] = ends[i],
           sent' \in Seq(Records)
    PROVE  Aligned' /\ InOrder' /\ taken \in 0 .. Len(written')
<1>1. /\ Len(rcvd) \in Nat /\ Len(sent) \in Nat /\ Len(sent') \in Nat
      /\ Len(rcvd) <= Len(sent) /\ Len(ends) = Len(sent) + 1
      /\ taken \in 0 .. Len(written)
      /\ unconsumed \in Nat /\ read_end \in Nat /\ unconsumed <= read_end
  BY DEF IInv, TypeOK, Framed, Aligned, Offset, buffer_end
<1>2. /\ Len(written) \in Nat /\ Len(f) \in Nat
      /\ Len(written') = Len(written) + Len(f)
      /\ \A j \in 1 .. Len(written) : written'[j] = written[j]
  BY Appended DEF IInv, TypeOK
<1>3. Start' = Start /\ Start \in Nat
  <2>1. Len(rcvd) + 1 \in 1 .. Len(ends) /\ Len(rcvd') = Len(rcvd)
    BY <1>1
  <2>2. ends \in Seq(Nat)
    BY Zenon DEF IInv, TypeOK
  <2> QED
    BY <2>1, <2>2 DEF Start
<1>4. taken = Start + toMove /\ toMove' = toMove /\ toMove \in Nat
  BY <1>1 DEF IInv, Aligned, toMove
<1>5. ASSUME NEW k \in 0 .. toMove - 1
      PROVE  buffer'[unconsumed' + k] = written'[Start' + k + 1]
  <2>1. Start + k + 1 \in 1 .. Len(written)
    BY <1>1, <1>2, <1>3, <1>4
  <2>2. buffer[unconsumed + k] = written[Start + k + 1]
    BY DEF IInv, Aligned
  <2> QED
    BY <1>2, <1>3, <2>1, <2>2
<1>6. Aligned'
  <2>1. Len(rcvd') <= Len(sent') /\ taken' = Start' + toMove'
    BY <1>1, <1>3, <1>4
  <2>2. \A k \in 0 .. toMove' - 1 : buffer'[unconsumed' + k] = written'[Start' + k + 1]
    BY <1>4, <1>5
  <2> QED
    BY <2>1, <2>2, Zenon DEF Aligned
<1>7. InOrder'
  BY <1>1 DEF IInv, InOrder
<1> QED
  BY <1>1, <1>2, <1>6, <1>7

LEMMA EmitStep ==
    ASSUME IInv, NEW r \in Records, Emit(r)
    PROVE  IInv'
<1> DEFINE f == Frame(r)
<1>1. /\ f \in Seq(Byte) /\ Len(r) \in Nat /\ r \in Seq(Byte)
      /\ Len(f) = HEADER_SIZE + Len(r)
      /\ Ntohl(f[1], f[2], f[3], f[4]) = Len(r)
      /\ \A k \in 1 .. Len(r) : f[HEADER_SIZE + k] = r[k]
  BY FrameBytes
<1>2. /\ written' = written \o f
      /\ sent' = Append(sent, r)
      /\ ends' = Append(ends, Len(written) + HEADER_SIZE + Len(r))
      /\ UNCHANGED <<closed, torn, taken, buffer, unconsumed, read_end, result, rcvd>>
  BY DEF Emit
<1> HIDE DEF f
<1>3. /\ written' \in Seq(Byte) /\ Len(written) \in Nat
      /\ Len(written') = Len(written) + HEADER_SIZE + Len(r)
      /\ \A j \in 1 .. HEADER_SIZE + Len(r) : written'[Len(written) + j] = f[j]
  <2>1. /\ written' \in Seq(Byte) /\ Len(written) \in Nat
        /\ Len(written') = Len(written) + Len(f)
        /\ \A j \in 1 .. Len(f) : written'[Len(written) + j] = f[j]
    BY <1>1, <1>2, Appended DEF IInv, TypeOK
  <2> QED
    BY <1>1, <2>1 DEF HEADER_SIZE
<1>4. /\ Len(sent) \in Nat /\ Len(sent') = Len(sent) + 1 /\ sent' \in Seq(Records)
      /\ \A i \in 1 .. Len(sent) : sent'[i] = sent[i]
      /\ sent'[Len(sent) + 1] = r
  BY <1>2 DEF IInv, TypeOK
<1>5. Len(written) + HEADER_SIZE + Len(r) \in Nat
  BY <1>1, <1>3 DEF HEADER_SIZE
<1>6. /\ ends' \in Seq(Nat) /\ Len(ends) = Len(sent) + 1 /\ Len(ends') = Len(sent') + 1
      /\ \A i \in 1 .. Len(ends) : ends'[i] = ends[i]
      /\ ends'[Len(sent') + 1] = Len(written')
      /\ ends[Len(sent) + 1] = Len(written)
  BY <1>2, <1>3, <1>4, <1>5 DEF IInv, TypeOK, Framed, Emit
<1>7. Aligned' /\ InOrder' /\ taken' \in 0 .. Len(written')
  <2>1. Len(sent) <= Len(sent')
    BY <1>4
  <2>2. Aligned' /\ InOrder' /\ taken \in 0 .. Len(written')
    BY <1>1, <1>2, <1>4, <1>6, <2>1, ReaderKept, Zenon
  <2> QED
    BY <1>2, <2>2
<1>8. TypeOK'
  BY <1>2, <1>3, <1>4, <1>6, <1>7 DEF IInv, TypeOK
<1>9. Framed'
  <2>1. ASSUME NEW i \in 1 .. Len(sent)
        PROVE  /\ ends'[i + 1] = ends'[i] + HEADER_SIZE + Len(sent'[i])
               /\ ends'[i + 1] <= Len(written')
               /\ LenAt(written', ends'[i]) = Len(sent'[i])
               /\ \A k \in 1 .. Len(sent'[i]) :
                      written'[ends'[i] + HEADER_SIZE + k] = sent'[i][k]
    <3>1. ends'[i] = ends[i] /\ ends'[i + 1] = ends[i + 1] /\ sent'[i] = sent[i]
      <4>1. i \in 1 .. Len(ends) /\ i + 1 \in 1 .. Len(ends)
        BY <1>4, <1>6
      <4> QED
        BY <1>4, <1>6, <4>1, Zenon
    <3>2. /\ ends[i + 1] = ends[i] + HEADER_SIZE + Len(sent[i])
          /\ ends[i + 1] <= Len(written')
          /\ LenAt(written', ends[i]) = Len(sent[i])
          /\ \A k \in 1 .. Len(sent[i]) :
                 written'[ends[i] + HEADER_SIZE + k] = sent[i][k]
      BY <1>1, <1>2, FramesKept, Zenon DEF IInv
    <3> QED
      BY <3>1, <3>2, Zenon
  <2>2. LenAt(written', Len(written)) = Len(r)
    <3>1. /\ written'[Len(written) + 1] = f[1] /\ written'[Len(written) + 2] = f[2]
          /\ written'[Len(written) + 3] = f[3] /\ written'[Len(written) + 4] = f[4]
      BY <1>1, <1>3 DEF HEADER_SIZE
    <3> QED
      BY <1>1, <3>1 DEF LenAt
  <2>3. \A k \in 1 .. Len(r) : written'[Len(written) + HEADER_SIZE + k] = r[k]
    <3>1. ASSUME NEW k \in 1 .. Len(r)
          PROVE  written'[Len(written) + HEADER_SIZE + k] = r[k]
      <4>1. written'[Len(written) + (HEADER_SIZE + k)] = f[HEADER_SIZE + k]
        BY <1>1, <1>3 DEF HEADER_SIZE
      <4>2. Len(written) + (HEADER_SIZE + k) = Len(written) + HEADER_SIZE + k
        BY <1>3 DEF HEADER_SIZE
      <4> QED
        BY <1>1, <4>1, <4>2
    <3> QED
      BY <3>1
  <2>4. ASSUME NEW i \in 1 .. Len(sent')
        PROVE  /\ ends'[i + 1] = ends'[i] + HEADER_SIZE + Len(sent'[i])
               /\ ends'[i + 1] <= Len(written')
               /\ LenAt(written', ends'[i]) = Len(sent'[i])
               /\ \A k \in 1 .. Len(sent'[i]) :
                      written'[ends'[i] + HEADER_SIZE + k] = sent'[i][k]
    <3>1. CASE i \in 1 .. Len(sent)
      BY <2>1, <3>1
    <3>2. CASE i = Len(sent) + 1
      <4>1. /\ ends'[i] = Len(written) /\ ends'[i + 1] = Len(written')
            /\ sent'[i] = r
        BY <1>4, <1>6, <3>2
      <4>2. Len(written') <= Len(written')
        BY <1>1, <1>3 DEF HEADER_SIZE
      <4> QED
        BY <1>3, <2>2, <2>3, <4>1, <4>2, Zenon
    <3> QED
      BY <1>4, <3>1, <3>2
  <2>5. /\ ends'[Len(ends')] = Len(written')
        /\ ends'[Len(ends')] <= Len(written')
        /\ ~ Len(written') >= ends'[Len(ends')] + HEADER_SIZE
    BY <1>1, <1>3, <1>6 DEF HEADER_SIZE
  <2> QED
    BY <1>6, <2>4, <2>5, Zenon DEF Framed
<1>10. ResultOK'
  <2>1. ~closed /\ ~closed'
    BY <1>2 DEF Emit
  <2>2. NeedsRead' = NeedsRead /\ IsFull' = IsFull
    BY <1>2 DEF NeedsRead, IsFull, getEndOfRecord
  <2>3. AgainOnlyIfDrained'
    <3>1. SUFFICES ASSUME result = "again"
                   PROVE  taken < ends'[Len(rcvd) + 2]
      BY <1>2 DEF AgainOnlyIfDrained
    <3>2. Len(rcvd) \in Nat /\ Len(rcvd) <= Len(sent) /\ taken <= Len(written)
          /\ taken \in Nat
      BY <1>3 DEF IInv, TypeOK, Aligned
    <3>3. CASE Len(rcvd) < Len(sent)
      <4>1. taken < ends[Len(rcvd) + 2]
        BY <3>1, <3>3 DEF IInv, ResultOK, AgainOnlyIfDrained
      <4>2. Len(rcvd) + 2 \in 1 .. Len(ends)
        BY <1>4, <1>6, <3>2, <3>3
      <4>3. ends'[Len(rcvd) + 2] = ends[Len(rcvd) + 2]
        BY <1>6, <4>2, Zenon
      <4> QED
        BY <4>1, <4>3, Zenon
    <3>4. CASE Len(rcvd) = Len(sent)
      <4>1. ends'[Len(rcvd) + 2] = Len(written')
        BY <1>4, <1>6, <3>2, <3>4
      <4> QED
        BY <1>1, <1>3, <3>2, <4>1 DEF HEADER_SIZE
    <3> QED
      BY <1>4, <3>2, <3>3, <3>4
  <2> QED
    BY <1>2, <2>1, <2>2, <2>3 DEF ResultOK, IInv, EofOnlyAtEnd
<1> QED
  BY <1>7, <1>8, <1>9, <1>10 DEF IInv

LEMMA CloseStep ==
    ASSUME IInv, Close
    PROVE  IInv'
<1>1. closed' = TRUE
      /\ UNCHANGED <<written, sent, ends, torn, taken, buffer, unconsumed,
                     read_end, result, rcvd>>
      /\ ~closed
  BY DEF Close
<1>2. TypeOK'
  BY <1>1 DEF IInv, TypeOK
<1>3. Framed'
  BY <1>1, Zenon DEF IInv, Framed, LenAt
<1>4. Aligned'
  BY <1>1, Zenon DEF IInv, Aligned, Start, toMove
<1>5. InOrder'
  BY <1>1, Zenon DEF IInv, InOrder
<1>6. ResultOK'
  BY <1>1, Zenon DEF IInv, ResultOK, NeedsRead, IsFull, getEndOfRecord,
                     EofOnlyAtEnd, AgainOnlyIfDrained
<1> QED
  BY <1>2, <1>3, <1>4, <1>5, <1>6 DEF IInv

LEMMA CloseInsideStep ==
    ASSUME IInv, NEW r \in Records, NEW cut \in 1 .. HEADER_SIZE + Len(r) - 1,
           CloseInside(r, cut)
    PROVE  IInv'
<1>1. /\ Frame(r) \in Seq(Byte) /\ Len(r) \in Nat
      /\ Len(Frame(r)) = HEADER_SIZE + Len(r)
      /\ Ntohl(Frame(r)[1], Frame(r)[2], Frame(r)[3], Frame(r)[4]) = Len(r)
  BY FrameBytes
<1> DEFINE f == SubSeq(Frame(r), 1, cut)
<1>2. /\ ~closed /\ closed' = TRUE /\ torn' = r
      /\ written' = written \o f
      /\ UNCHANGED <<sent, ends, taken, buffer, unconsumed, read_end, result, rcvd>>
  BY DEF CloseInside
<1>3. /\ f \in Seq(Byte) /\ cut \in Nat /\ Len(f) = cut
      /\ \A j \in 1 .. cut : f[j] = Frame(r)[j]
  BY <1>1 DEF HEADER_SIZE
<1> HIDE DEF f
<1>4. /\ written' \in Seq(Byte) /\ Len(written) \in Nat
      /\ Len(written') = Len(written) + cut
      /\ \A j \in 1 .. cut : written'[Len(written) + j] = f[j]
  <2>1. /\ written' \in Seq(Byte) /\ Len(written) \in Nat
        /\ Len(written') = Len(written) + Len(f)
        /\ \A j \in 1 .. Len(f) : written'[Len(written) + j] = f[j]
    BY <1>2, <1>3, Appended DEF IInv, TypeOK
  <2> QED
    BY <1>3, <2>1
<1>5. Aligned' /\ InOrder' /\ taken' \in 0 .. Len(written')
  <2>1. /\ Len(sent) <= Len(sent') /\ sent' \in Seq(Records)
        /\ \A i \in 1 .. Len(sent) : sent'[i] = sent[i]
        /\ \A i \in 1 .. Len(ends) : ends'[i] = ends[i]
    BY <1>2 DEF IInv, TypeOK
  <2>2. Aligned' /\ InOrder' /\ taken \in 0 .. Len(written')
    BY <1>2, <1>3, <2>1, ReaderKept, Zenon
  <2> QED
    BY <1>2, <2>2
<1>6. TypeOK'
  BY <1>2, <1>4, <1>5 DEF IInv, TypeOK
<1>7. Framed'
  <2>1. ASSUME NEW i \in 1 .. Len(sent)
        PROVE  /\ ends[i + 1] = ends[i] + HEADER_SIZE + Len(sent[i])
               /\ ends[i + 1] <= Len(written')
               /\ LenAt(written', ends[i]) = Len(sent[i])
               /\ \A k \in 1 .. Len(sent[i]) :
                      written'[ends[i] + HEADER_SIZE + k] = sent[i][k]
    BY <1>2, <1>3, FramesKept DEF IInv
  <2>2. ends[Len(ends)] = Len(written)
    BY <1>2 DEF IInv, Framed
  <2>3. ends[Len(ends)] <= Len(written')
    BY <1>3, <1>4, <2>2
  <2>4. ASSUME Len(written') >= ends[Len(ends)] + HEADER_SIZE
        PROVE  /\ LenAt(written', ends[Len(ends)]) = Len(r)
               /\ Len(written') < ends[Len(ends)] + HEADER_SIZE + Len(r)
    <3>1. cut >= HEADER_SIZE
      BY <1>3, <1>4, <2>2, <2>4 DEF HEADER_SIZE
    <3>2. /\ written'[Len(written) + 1] = Frame(r)[1]
          /\ written'[Len(written) + 2] = Frame(r)[2]
          /\ written'[Len(written) + 3] = Frame(r)[3]
          /\ written'[Len(written) + 4] = Frame(r)[4]
      BY <1>3, <1>4, <3>1 DEF HEADER_SIZE
    <3>3. LenAt(written', Len(written)) = Len(r)
      BY <1>1, <3>2 DEF LenAt
    <3>4. Len(written) + cut < Len(written) + HEADER_SIZE + Len(r)
      BY <1>1, <1>3, <1>4 DEF HEADER_SIZE
    <3> QED
      BY <1>4, <2>2, <3>3, <3>4, Zenon
  <2>5. Len(ends) = Len(sent) + 1
    BY DEF IInv, Framed
  <2> QED
    BY <1>2, <2>1, <2>3, <2>4, <2>5, Zenon DEF Framed
<1>8. ResultOK'
  <2>1. NeedsRead' = NeedsRead /\ IsFull' = IsFull
    BY <1>2 DEF NeedsRead, IsFull, getEndOfRecord
  <2> QED
    BY <1>2, <2>1, Zenon DEF ResultOK, IInv, EofOnlyAtEnd, AgainOnlyIfDrained
<1> QED
  BY <1>5, <1>6, <1>7, <1>8 DEF IInv

-----------------------------------------------------------------------------
(* Steps of the reader.                                                    *)

\* In every state of IInv the buffer is a window of the stream at Start.
LEMMA BufferWindow ==
    ASSUME IInv
    PROVE  /\ unconsumed \in Nat /\ read_end \in Nat /\ buffer_end \in Nat
           /\ unconsumed <= read_end /\ read_end <= buffer_end
           /\ toMove \in Nat /\ toMove = read_end - unconsumed
           /\ Start \in Nat /\ Len(written) \in Nat /\ taken \in Nat
           /\ taken = Start + toMove /\ taken <= Len(written)
           /\ WindowAt(buffer, unconsumed, read_end, Start)
<1>1. buffer_end \in Nat
  BY BufferSize
<1>2. /\ unconsumed \in Nat /\ read_end \in Nat
      /\ unconsumed <= read_end /\ read_end <= buffer_end
      /\ Len(written) \in Nat /\ taken \in Nat /\ taken <= Len(written)
  BY <1>1 DEF IInv, TypeOK, Offset
<1>3. Start \in Nat
  BY DEF IInv, TypeOK, Aligned, Framed, Start
<1>4. /\ toMove = read_end - unconsumed
      /\ taken = Start + toMove
      /\ \A k \in 0 .. toMove - 1 : buffer[unconsumed + k] = written[Start + k + 1]
  BY DEF IInv, Aligned, toMove
<1>5. toMove \in Nat
  BY <1>2, <1>4
<1>6. WindowAt(buffer, unconsumed, read_end, Start)
  BY <1>4, Zenon DEF WindowAt, toMove
<1> QED
  BY <1>1, <1>2, <1>3, <1>4, <1>5, <1>6

\* Offsets behind a frame of payload length l at b, in a window [b, e) at s.
LEMMA BehindFrame ==
    ASSUME NEW b \in Nat, NEW e \in Nat, NEW l \in Nat, NEW s \in Nat,
           b + HEADER_SIZE + l <= e
    PROVE  /\ b + HEADER_SIZE + l \in Nat
           /\ e - (b + HEADER_SIZE + l) \in Nat
           /\ s + (e - b) = (s + HEADER_SIZE + l) + (e - (b + HEADER_SIZE + l))
           /\ \A k \in 0 .. (e - (b + HEADER_SIZE + l)) - 1 :
                 /\ HEADER_SIZE + l + k \in 0 .. e - b - 1
                 /\ (b + HEADER_SIZE + l) + k = b + (HEADER_SIZE + l + k)
                 /\ (s + HEADER_SIZE + l) + k + 1 = s + (HEADER_SIZE + l + k) + 1
  BY DEF HEADER_SIZE

\* Returning the first record of a window leaves a window at the next frame.
LEMMA ReturnStep ==
    ASSUME IInv,
           NEW buf \in [0 .. buffer_end - 1 -> Byte \cup {Uninit}],
           NEW b \in Nat, NEW e \in Nat, b <= e, e <= buffer_end,
           Start + (e - b) <= Len(written),
           WindowAt(buf, b, e, Start),
           Return(buf, b, e),
           buffer' = buf, read_end' = e, taken' = Start + (e - b),
           UNCHANGED peer
    PROVE  IInv'
<1> DEFINE len == Len(NextUp)
<1>1. /\ Start \in Nat /\ Len(written) \in Nat /\ buffer_end \in Nat
      /\ Len(rcvd) \in Nat /\ Len(sent) \in Nat /\ Len(rcvd) <= Len(sent)
      /\ Len(ends) = Len(sent) + 1
  <2>1. Start \in Nat /\ Len(written) \in Nat /\ buffer_end \in Nat
    BY BufferWindow
  <2> QED
    BY <2>1 DEF IInv, TypeOK, Aligned, Framed
<1>2. /\ rcvd' = Append(rcvd, Bytes(buf, b + HEADER_SIZE, getEndOfRecord(buf, b, e)))
      /\ unconsumed' = getEndOfRecord(buf, b, e)
      /\ getEndOfRecord(buf, b, e) # NULL
      /\ result' = "record"
  BY DEF Return
<1>3. /\ Len(rcvd) < Len(sent)
      /\ unconsumed' = b + HEADER_SIZE + len
      /\ unconsumed' <= e
      /\ rcvd' = Append(rcvd, NextUp)
  BY <1>1, <1>2, WindowParse, Zenon DEF IInv
<1>4. /\ NextUp = sent[Len(rcvd) + 1]
      /\ NextUp \in Seq(Byte) /\ len \in Nat
  <2>1. NextUp = sent[Len(rcvd) + 1]
    BY <1>3 DEF NextUp
  <2>2. sent[Len(rcvd) + 1] \in Records
    BY <1>1, <1>3 DEF IInv, TypeOK
  <2>3. sent[Len(rcvd) + 1] \in Seq(Byte)
    BY <2>2, RecordsAssumption
  <2> QED
    BY <2>1, <2>3
<1>5. /\ Len(rcvd') = Len(rcvd) + 1
      /\ rcvd' \in Seq(Seq(Byte))
      /\ \A i \in 1 .. Len(rcvd) : rcvd'[i] = rcvd[i]
      /\ rcvd'[Len(rcvd) + 1] = NextUp
  BY <1>3, <1>4 DEF IInv, TypeOK
<1> HIDE DEF len
<1>6. Start' = Start + HEADER_SIZE + len
  <2>1. Len(rcvd) + 1 \in 1 .. Len(sent)
    BY <1>1, <1>3
  <2>2. ends[(Len(rcvd) + 1) + 1] = Start + HEADER_SIZE + len
    BY <1>4, <2>1, Zenon DEF IInv, Framed, Start, len
  <2> QED
    BY <1>5, <2>2, Zenon DEF Start, peer
<1>7. /\ unconsumed' \in Nat /\ toMove' \in Nat
      /\ toMove' = e - (b + HEADER_SIZE + len)
      /\ taken' = Start' + toMove'
      /\ taken' \in 0 .. Len(written)
  <2>1. b + HEADER_SIZE + len <= e /\ len \in Nat
    BY <1>3, <1>4, Zenon DEF len
  <2>2. /\ b + HEADER_SIZE + len \in Nat
        /\ e - (b + HEADER_SIZE + len) \in Nat
        /\ Start + (e - b)
              = (Start + HEADER_SIZE + len) + (e - (b + HEADER_SIZE + len))
    BY <1>1, <2>1, BehindFrame
  <2>3. Start + (e - b) \in 0 .. Len(written)
    BY <1>1
  <2> QED
    BY <1>3, <1>6, <2>2, <2>3, Zenon DEF toMove
<1>8. TypeOK'
  <2>1. unconsumed' \in Offset /\ read_end' \in Offset /\ unconsumed' <= read_end'
    BY <1>1, <1>3, <1>7 DEF Offset
  <2> QED
    BY <1>2, <1>5, <1>7, <2>1 DEF IInv, TypeOK, peer
<1>9. Framed'
  BY Zenon DEF IInv, Framed, peer, LenAt
<1>10. Aligned'
  <2>1. ASSUME NEW k \in 0 .. toMove' - 1
        PROVE  buffer'[unconsumed' + k] = written'[Start' + k + 1]
    <3> DEFINE j == HEADER_SIZE + len + k
    <3>1. /\ j \in 0 .. e - b - 1
          /\ unconsumed' + k = b + j
          /\ Start' + k + 1 = Start + j + 1
      <4>1. b + HEADER_SIZE + len <= e /\ len \in Nat
        BY <1>3, <1>4, Zenon DEF len
      <4>2. k \in 0 .. (e - (b + HEADER_SIZE + len)) - 1
        BY <1>7, Zenon
      <4>3. /\ HEADER_SIZE + len + k \in 0 .. e - b - 1
            /\ (b + HEADER_SIZE + len) + k = b + (HEADER_SIZE + len + k)
            /\ (Start + HEADER_SIZE + len) + k + 1 = Start + (HEADER_SIZE + len + k) + 1
        BY <1>1, <4>1, <4>2 DEF HEADER_SIZE
      <4> QED
        BY <1>3, <1>6, <4>3, Zenon DEF j, len
    <3> HIDE DEF j
    <3>2. buf[b + j] = written[Start + j + 1]
      BY <3>1 DEF WindowAt
    <3> QED
      BY <3>1, <3>2, Zenon DEF peer
  <2>2. Len(rcvd') <= Len(sent')
    BY <1>1, <1>3, <1>5 DEF peer
  <2> QED
    BY <1>7, <2>1, <2>2, Zenon DEF Aligned
<1>11. InOrder'
  <2>1. ASSUME NEW i \in 1 .. Len(rcvd')
        PROVE  rcvd'[i] = sent[i]
    <3>1. CASE i \in 1 .. Len(rcvd)
      BY <1>5, <3>1 DEF IInv, InOrder
    <3>2. CASE i = Len(rcvd) + 1
      BY <1>4, <1>5, <3>2, Zenon
    <3> QED
      BY <1>1, <1>5, <3>1, <3>2
  <2>2. Len(rcvd') <= Len(sent')
    BY <1>1, <1>3, <1>5 DEF peer
  <2> QED
    BY <2>1, <2>2, Zenon DEF InOrder, peer
<1>12. ResultOK'
  BY <1>2 DEF ResultOK, EofOnlyAtEnd, AgainOnlyIfDrained
<1> QED
  BY <1>8, <1>9, <1>10, <1>11, <1>12 DEF IInv

\* A call that leaves the remainder at the front of the buffer and returns nothing.
LEMMA RemainderStep ==
    ASSUME IInv,
           NEW buf \in [0 .. buffer_end - 1 -> Byte \cup {Uninit}],
           NEW e \in Nat, e <= buffer_end,
           Start + e <= Len(written),
           WindowAt(buf, 0, e, Start),
           buffer' = buf, read_end' = e, unconsumed' = 0, taken' = Start + e,
           rcvd' = rcvd, result' \in {"again", "eof", "error"},
           UNCHANGED peer,
           ResultOK'
    PROVE  IInv'
<1>1. /\ Start \in Nat /\ Len(written) \in Nat /\ buffer_end \in Nat
      /\ Start' = Start
  BY BufferWindow DEF Start, peer
<1>2. e - 0 = e
  OBVIOUS
<1>3. TypeOK'
  <2>1. taken' \in 0 .. Len(written)
    BY <1>1
  <2>2. unconsumed' \in Offset /\ read_end' \in Offset /\ unconsumed' <= read_end'
    BY <1>1 DEF Offset
  <2> QED
    BY <2>1, <2>2 DEF IInv, TypeOK, peer
<1>4. Framed'
  BY Zenon DEF IInv, Framed, peer, LenAt
<1>5. Aligned'
  <2>1. toMove' = e
    BY <1>2, Zenon DEF toMove
  <2>2. \A k \in 0 .. toMove' - 1 : buffer'[unconsumed' + k] = written'[Start' + k + 1]
    BY <1>1, <1>2, <2>1, Zenon DEF WindowAt, peer
  <2> QED
    BY <1>1, <2>1, <2>2, Zenon DEF IInv, Aligned, peer
<1>6. InOrder'
  BY Zenon DEF IInv, InOrder, peer
<1> QED
  BY <1>3, <1>4, <1>5, <1>6 DEF IInv

\* memmove keeps the window and frees the space in front of it.
LEMMA MovedWindow ==
    ASSUME IInv
    PROVE  /\ Moved \in [0 .. buffer_end - 1 -> Byte \cup {Uninit}]
           /\ WindowAt(Moved, 0, toMove, Start)
<1>1. /\ unconsumed \in Nat /\ read_end \in Nat /\ buffer_end \in Nat
      /\ unconsumed <= read_end /\ read_end <= buffer_end
      /\ toMove \in Nat /\ toMove = read_end - unconsumed
      /\ WindowAt(buffer, unconsumed, read_end, Start)
  BY BufferWindow
<1>2. buffer \in [0 .. buffer_end - 1 -> Byte \cup {Uninit}]
  BY DEF IInv, TypeOK
<1>3. ASSUME NEW i \in 0 .. buffer_end - 1
      PROVE  (IF i < toMove THEN buffer[i + unconsumed] ELSE buffer[i])
                \in Byte \cup {Uninit}
  <2>1. ASSUME i < toMove
        PROVE  i + unconsumed \in 0 .. buffer_end - 1
    BY <1>1, <2>1
  <2> QED
    BY <1>2, <2>1
<1>4. ASSUME NEW k \in 0 .. toMove - 0 - 1
      PROVE  Moved[0 + k] = written[Start + k + 1]
  <2>1. /\ 0 + k = k /\ k \in 0 .. read_end - unconsumed - 1
        /\ k + unconsumed = unconsumed + k
        /\ k \in 0 .. buffer_end - 1 /\ k < toMove
    BY <1>1
  <2>2. buffer[unconsumed + k] = written[Start + k + 1]
    BY <1>1, <2>1, Zenon DEF WindowAt
  <2> QED
    BY <2>1, <2>2, Zenon DEF Moved
<1> QED
  BY <1>3, <1>4 DEF Moved, WindowAt

\* read() puts the next bytes of the stream behind the window.
LEMMA FilledWindow ==
    ASSUME IInv, NEW n \in Nat, n <= Room, n <= Pending
    PROVE  /\ Filled(n) \in [0 .. buffer_end - 1 -> Byte \cup {Uninit}]
           /\ WindowAt(Filled(n), 0, toMove + n, Start)
           /\ toMove + n \in Nat /\ toMove + n <= buffer_end
           /\ Start + (toMove + n) <= Len(written)
           /\ taken + n = Start + (toMove + n)
<1>1. /\ buffer_end \in Nat /\ toMove \in Nat /\ Start \in Nat
      /\ Len(written) \in Nat /\ taken \in Nat
      /\ taken = Start + toMove
  BY BufferWindow
<1>2. /\ toMove + n \in Nat /\ toMove + n <= buffer_end
      /\ taken + n <= Len(written)
  BY <1>1 DEF Room, Pending
<1>3. /\ Moved \in [0 .. buffer_end - 1 -> Byte \cup {Uninit}]
      /\ WindowAt(Moved, 0, toMove, Start)
  BY MovedWindow
<1>4. written \in Seq(Byte)
  BY DEF IInv, TypeOK
<1>5. Filled(n) \in [0 .. buffer_end - 1 -> Byte \cup {Uninit}]
  <2>1. ASSUME NEW i \in 0 .. buffer_end - 1
        PROVE  (IF i \in toMove .. toMove + n - 1
                THEN written[taken + (i - toMove) + 1] ELSE Moved[i])
                  \in Byte \cup {Uninit}
    <3>1. ASSUME i \in toMove .. toMove + n - 1
          PROVE  taken + (i - toMove) + 1 \in 1 .. Len(written)
      BY <1>1, <1>2, <3>1
    <3> QED
      BY <1>3, <1>4, <3>1
  <2> QED
    BY <2>1 DEF Filled
<1>6. ASSUME NEW k \in 0 .. (toMove + n) - 0 - 1
      PROVE  Filled(n)[0 + k] = written[Start + k + 1]
  <2>1. 0 + k = k /\ k \in 0 .. buffer_end - 1
    BY <1>1, <1>2
  <2>2. CASE k < toMove
    <3>1. k \notin toMove .. toMove + n - 1 /\ k \in 0 .. toMove - 0 - 1
      BY <1>1, <2>2
    <3>2. Moved[0 + k] = written[Start + k + 1]
      BY <1>3, <3>1, Zenon DEF WindowAt
    <3> QED
      BY <2>1, <3>1, <3>2, Zenon DEF Filled
  <2>3. CASE ~ k < toMove
    <3>1. k \in toMove .. toMove + n - 1
      BY <1>1, <2>3
    <3>2. (Start + toMove) + (k - toMove) + 1 = Start + k + 1
      BY <1>1
    <3> QED
      BY <1>1, <2>1, <3>1, <3>2, Zenon DEF Filled
  <2> QED
    BY <2>2, <2>3
<1>7. taken + n = Start + (toMove + n)
  <2>1. (Start + toMove) + n = Start + (toMove + n)
    BY <1>1
  <2> QED
    BY <1>1, <2>1, Zenon
<1>8. Start + (toMove + n) <= Len(written)
  BY <1>2, <1>7, Zenon
<1>9. WindowAt(Filled(n), 0, toMove + n, Start)
  BY <1>6 DEF WindowAt
<1> QED
  BY <1>2, <1>5, <1>7, <1>8, <1>9, Zenon

\* A call of record_stream_get_next, whatever read() does.
LEMMA ReaderStep ==
    ASSUME IInv, record_stream_get_next
    PROVE  IInv'
<1>1. /\ unconsumed \in Nat /\ read_end \in Nat /\ buffer_end \in Nat
      /\ unconsumed <= read_end /\ read_end <= buffer_end
      /\ toMove \in Nat /\ toMove = read_end - unconsumed
      /\ Start \in Nat /\ Len(written) \in Nat /\ taken \in Nat
      /\ taken = Start + toMove /\ taken <= Len(written)
      /\ WindowAt(buffer, unconsumed, read_end, Start)
  BY BufferWindow
<1>2. buffer \in [0 .. buffer_end - 1 -> Byte \cup {Uninit}]
  BY DEF IInv, TypeOK
<1>3. TypeOK /\ Framed /\ Len(rcvd) <= Len(sent)
  BY DEF IInv, Aligned
<1>4. CASE GetBuffered
  <2>1. /\ Return(buffer, unconsumed, read_end)
        /\ buffer' = buffer /\ read_end' = read_end /\ taken' = taken
        /\ UNCHANGED peer
    BY <1>4 DEF GetBuffered
  <2>2. /\ Start + (read_end - unconsumed) <= Len(written)
        /\ taken' = Start + (read_end - unconsumed)
    BY <1>1, <2>1, Zenon
  <2> QED
    BY <1>1, <1>2, <2>1, <2>2, ReturnStep, Zenon
<1>5. CASE GetTooBig
  <2>1. /\ result' = "too_big" /\ NeedsRead /\ IsFull
        /\ UNCHANGED <<written, taken, closed, buffer, unconsumed, read_end,
                       sent, ends, torn, rcvd>>
    BY <1>5 DEF GetTooBig, peer
  <2>2. TypeOK'
    BY <2>1 DEF IInv, TypeOK
  <2>3. Framed' /\ Aligned' /\ InOrder'
    BY <2>1, Zenon DEF IInv, Framed, LenAt, Aligned, Start, toMove, InOrder
  <2>4. ResultOK'
    BY <2>1 DEF ResultOK, NeedsRead, IsFull, getEndOfRecord, EofOnlyAtEnd,
                AgainOnlyIfDrained
  <2> QED
    BY <2>2, <2>3, <2>4 DEF IInv
<1>6. ASSUME NEW n \in 1 .. buffer_end, GetRead(n)
      PROVE  IInv'
  <2>1. /\ n \in Nat /\ n <= Room /\ n <= Pending
        /\ taken' = taken + n /\ buffer' = Filled(n) /\ read_end' = toMove + n
        /\ UNCHANGED peer
    BY <1>1, <1>6 DEF GetRead
  <2>2. /\ Filled(n) \in [0 .. buffer_end - 1 -> Byte \cup {Uninit}]
        /\ WindowAt(Filled(n), 0, toMove + n, Start)
        /\ toMove + n \in Nat /\ toMove + n <= buffer_end
        /\ Start + (toMove + n) <= Len(written)
        /\ taken + n = Start + (toMove + n)
    BY <2>1, FilledWindow
  <2>3. (toMove + n) - 0 = toMove + n /\ 0 <= toMove + n /\ 0 \in Nat
    BY <2>2
  <2>4. CASE Return(Filled(n), 0, toMove + n)
    BY <1>1, <2>1, <2>2, <2>3, <2>4, ReturnStep, Zenon
  <2>5. CASE /\ getEndOfRecord(Filled(n), 0, toMove + n) = NULL
             /\ unconsumed' = 0 /\ result' = "again" /\ rcvd' = rcvd
    <3>1. Len(rcvd) < Len(sent) => Start + ((toMove + n) - 0) < ends[Len(rcvd) + 2]
      BY <1>3, <2>2, <2>3, <2>5, WindowParse, Zenon
    <3>2. ResultOK'
      BY <2>1, <2>2, <2>3, <2>5, <3>1, Zenon
         DEF ResultOK, EofOnlyAtEnd, AgainOnlyIfDrained, peer
    <3> QED
      BY <2>1, <2>2, <2>5, <3>2, RemainderStep, Zenon
  <2> QED
    BY <1>6, <2>4, <2>5 DEF GetRead
<1>7. ASSUME NEW r \in {"eof", "error"}, Unread(r),
             r = "eof" => closed /\ Pending = 0
      PROVE  IInv'
  <2>1. /\ NeedsRead
        /\ buffer' = Moved /\ read_end' = toMove /\ unconsumed' = 0
        /\ result' = r /\ taken' = taken /\ rcvd' = rcvd /\ UNCHANGED peer
    BY <1>7 DEF Unread
  <2>2. /\ Moved \in [0 .. buffer_end - 1 -> Byte \cup {Uninit}]
        /\ WindowAt(Moved, 0, toMove, Start)
    BY MovedWindow
  <2>3. toMove <= buffer_end
    BY <1>1
  <2>4. ResultOK'
    <3>0. ~IsFull'
      <4>1. toMove # buffer_end
        BY <1>1, <1>7 DEF Unread, IsFull
      <4> QED
        BY <2>1, <4>1, Zenon DEF IsFull
    <3>1. SUFFICES ASSUME r = "eof"
                   PROVE  closed /\ taken = Len(written) /\ rcvd = sent
      BY <2>1, <3>0 DEF ResultOK, EofOnlyAtEnd, AgainOnlyIfDrained, peer
    <3>2. closed /\ taken = Len(written)
      BY <1>1, <1>7, <3>1 DEF Pending
    <3>3. Len(rcvd) < Len(sent) =>
             Start + (read_end - unconsumed) < ends[Len(rcvd) + 2]
      <4>1. Start + (read_end - unconsumed) <= Len(written)
        BY <1>1, Zenon
      <4> QED
        BY <1>1, <1>3, <2>1, <4>1, WindowParse, Zenon DEF NeedsRead
    <3>4. /\ Len(rcvd) \in Nat /\ Len(sent) \in Nat
          /\ \A i \in 1 .. Len(sent) : ends[i + 1] <= Len(written) /\ ends[i + 1] \in Nat
      <4>1. Len(rcvd) \in Nat /\ Len(sent) \in Nat /\ ends \in Seq(Nat)
        BY DEF IInv, TypeOK
      <4>2. Len(ends) = Len(sent) + 1
        BY <1>3, Zenon DEF Framed
      <4>3. ASSUME NEW i \in 1 .. Len(sent)
            PROVE  ends[i + 1] <= Len(written) /\ ends[i + 1] \in Nat
        <5>1. ends[i + 1] \in Nat
          BY <4>1, <4>2
        <5>2. ends[i + 1] <= Len(written)
          BY <1>3, Zenon DEF Framed
        <5> QED
          BY <5>1, <5>2
      <4> QED
        BY <4>1, <4>3
    <3>5. ~ Len(rcvd) < Len(sent)
      <4>1. SUFFICES ASSUME Len(rcvd) < Len(sent) PROVE FALSE
        OBVIOUS
      <4>2. /\ ends[(Len(rcvd) + 1) + 1] <= Len(written)
            /\ ends[(Len(rcvd) + 1) + 1] \in Nat
            /\ (Len(rcvd) + 1) + 1 = Len(rcvd) + 2
        <5>1. Len(rcvd) + 1 \in 1 .. Len(sent)
          BY <3>4, <4>1
        <5>2. (Len(rcvd) + 1) + 1 = Len(rcvd) + 2
          BY <3>4
        <5> QED
          BY <3>4, <5>1, <5>2, Zenon
      <4>3. taken < ends[Len(rcvd) + 2]
        BY <1>1, <3>3, <4>1, Zenon
      <4>4. ends[Len(rcvd) + 2] \in Nat /\ ends[Len(rcvd) + 2] <= taken
        BY <3>2, <4>2, Zenon
      <4> QED
        BY <1>1, <4>3, <4>4
    <3>6. Len(rcvd) = Len(sent)
      BY <1>3, <3>4, <3>5
    <3>7. rcvd = sent
      <4>1. rcvd \in Seq(Seq(Byte)) /\ sent \in Seq(Records)
        BY Zenon DEF IInv, TypeOK
      <4>2. \A i \in 1 .. Len(rcvd) : rcvd[i] = sent[i]
        BY Zenon DEF IInv, InOrder
      <4> QED
        BY <3>6, <4>1, <4>2
    <3> QED
      BY <3>2, <3>7
  <2> QED
    BY <1>1, <2>1, <2>2, <2>3, <2>4, RemainderStep, Zenon
<1>8. CASE GetEof
  <2>1. Unread("eof") /\ (Room = 0 \/ (Pending = 0 /\ closed))
    BY <1>8 DEF GetEof
  <2>2. Room # 0
    BY <1>1, <2>1 DEF Unread, IsFull, Room
  <2> QED
    BY <1>7, <2>1, <2>2
<1>9. CASE GetError
  BY <1>7, <1>9 DEF GetError
<1> QED
  BY <1>4, <1>5, <1>6, <1>8, <1>9 DEF record_stream_get_next

-----------------------------------------------------------------------------
(* The theorems.                                                           *)

LEMMA InitInv == Init => IInv
<1> SUFFICES ASSUME Init PROVE IInv
  OBVIOUS
<1>1. buffer_end \in Nat
  BY BufferSize
<1>2. /\ written = <<>> /\ taken = 0 /\ closed = FALSE
      /\ sent = <<>> /\ ends = <<0>> /\ torn = <<>>
      /\ unconsumed = 0 /\ read_end = 0 /\ result = "none" /\ rcvd = <<>>
  BY DEF Init
<1>3. TypeOK
  <2>1. /\ written \in Seq(Byte) /\ sent \in Seq(Records) /\ rcvd \in Seq(Seq(Byte))
        /\ ends \in Seq(Nat) /\ taken \in 0 .. Len(written)
    BY <1>2
  <2>2. buffer \in [0 .. buffer_end - 1 -> Byte \cup {Uninit}]
    BY DEF Init
  <2>3. unconsumed \in Offset /\ read_end \in Offset /\ unconsumed <= read_end
    BY <1>1, <1>2 DEF Offset
  <2> QED
    BY <1>2, <2>1, <2>2, <2>3, Zenon DEF TypeOK
<1>4. Framed
  BY <1>2 DEF Framed, HEADER_SIZE
<1>5. Aligned /\ InOrder
  BY <1>2 DEF Aligned, InOrder, Start, toMove
<1>6. ResultOK
  BY <1>2 DEF ResultOK, EofOnlyAtEnd, AgainOnlyIfDrained
<1> QED
  BY <1>3, <1>4, <1>5, <1>6 DEF IInv

LEMMA NextInv == IInv /\ [Next]_vars => IInv'
<1> SUFFICES ASSUME IInv, [Next]_vars PROVE IInv'
  OBVIOUS
<1>1. CASE Peer
  BY <1>1, EmitStep, CloseStep, CloseInsideStep DEF Peer
<1>2. CASE record_stream_get_next
  BY <1>2, ReaderStep
<1>3. CASE UNCHANGED vars
  <2>1. TypeOK' /\ Framed' /\ Aligned' /\ InOrder'
    BY <1>3, Zenon DEF vars, IInv, TypeOK, Framed, LenAt, Aligned, Start, toMove, InOrder
  <2>2. ResultOK'
    BY <1>3, Zenon DEF vars, IInv, ResultOK, NeedsRead, IsFull, getEndOfRecord,
                EofOnlyAtEnd, AgainOnlyIfDrained
  <2> QED
    BY <2>1, <2>2 DEF IInv
<1> QED
  BY <1>1, <1>2, <1>3 DEF Next

LEMMA Invariance == Spec => []IInv
  BY InitInv, NextInv, PTL DEF Spec

\* The fields of RecordStream stay inside the buffer, whatever the peer frames
\* and however read() cuts it.
THEOREM TypeCorrect == Spec => []TypeOK
<1>1. IInv => TypeOK
  BY DEF IInv
<1> QED
  BY <1>1, Invariance, PTL

\* The caller receives the records the peer framed, unchanged and in order.
THEOREM DeliversInOrder == Spec => []InOrder
<1>1. IInv => InOrder
  BY DEF IInv
<1> QED
  BY <1>1, Invariance, PTL

\* The buffer is always the stream from the next frame on.
THEOREM StaysAligned == Spec => []Aligned
<1>1. IInv => Aligned
  BY DEF IInv
<1> QED
  BY <1>1, Invariance, PTL

\* Return 0 with a NULL record is the end of the stream, after every record.
THEOREM EndIsEnd == Spec => []EofOnlyAtEnd
<1>1. IInv => EofOnlyAtEnd
  BY DEF IInv, ResultOK
<1> QED
  BY <1>1, Invariance, PTL

\* EAGAIN leaves no whole record behind.
THEOREM AgainIsDrained == Spec => []AgainOnlyIfDrained
<1>1. IInv => AgainOnlyIfDrained
  BY DEF IInv, ResultOK
<1> QED
  BY <1>1, Invariance, PTL

\* EFBIG is the fault of the peer: the record in front exceeds maxRecordLen.
THEOREM TooBigIsTooBig == Spec => []TooBigOnlyIfLonger
<1>1. ASSUME IInv PROVE TooBigOnlyIfLonger
  <2>1. SUFFICES ASSUME result = "too_big" PROVE Len(NextUp) > MaxRecordLen
    BY DEF TooBigOnlyIfLonger
  <2>2. NeedsRead /\ unconsumed = 0 /\ read_end = buffer_end
    BY <1>1, <2>1 DEF IInv, ResultOK, IsFull
  <2>3. /\ unconsumed \in Nat /\ read_end \in Nat /\ unconsumed <= read_end
        /\ Start + (read_end - unconsumed) <= Len(written)
        /\ WindowAt(buffer, unconsumed, read_end, Start)
    BY <1>1, BufferWindow, Zenon
  <2>4. \/ read_end < unconsumed + HEADER_SIZE
        \/ read_end < unconsumed + HEADER_SIZE + Len(NextUp)
    BY <1>1, <2>2, <2>3, WindowParse, Zenon DEF NeedsRead, IInv, Aligned
  <2>5. Len(NextUp) \in Nat
    <3>1. /\ sent \in Seq(Records) /\ torn \in Records \cup {<<>>}
          /\ Len(rcvd) \in Nat /\ Len(rcvd) <= Len(sent)
      BY <1>1 DEF IInv, TypeOK, Aligned
    <3>2. CASE Len(rcvd) < Len(sent)
      BY <3>1, <3>2, RecordSize DEF NextUp
    <3>3. CASE ~ Len(rcvd) < Len(sent)
      BY <3>1, <3>3, RecordSize DEF NextUp
    <3> QED
      BY <3>2, <3>3
  <2>6. MaxRecordLen \in Nat
    BY BufferSize
  <2> QED
    BY <2>2, <2>4, <2>5, <2>6 DEF HEADER_SIZE, buffer_end
<1> QED
  BY <1>1, Invariance, PTL

\* Whatever record_stream_get_next has told its caller is so.
THEOREM ResultsRight == Spec => []ResultsAreRight
<1>1. InOrder /\ TooBigOnlyIfLonger /\ EofOnlyAtEnd /\ AgainOnlyIfDrained => ResultsAreRight
  BY DEF ResultsAreRight
<1> QED
  BY <1>1, DeliversInOrder, TooBigIsTooBig, EndIsEnd, AgainIsDrained, PTL

\* After EFBIG no call changes anything any more.
THEOREM TooBigStays == Spec => TooBigIsFinal
<1>1. ASSUME IInv, [Next]_vars, result = "too_big"
      PROVE  rcvd' = rcvd /\ result' = "too_big"
  <2>1. NeedsRead /\ IsFull
    BY <1>1 DEF IInv, ResultOK
  <2>2. CASE Peer
    BY <1>1, <2>2 DEF Peer, Emit, Close, CloseInside
  <2>3. CASE record_stream_get_next
    BY <2>1, <2>3 DEF record_stream_get_next, GetBuffered, Return, NeedsRead,
                      GetTooBig, GetRead, GetEof, GetError, Unread
  <2>4. CASE UNCHANGED vars
    BY <1>1, <2>4 DEF vars
  <2> QED
    BY <1>1, <2>2, <2>3, <2>4 DEF Next
<1>2. IInv /\ [Next]_vars =>
         [result = "too_big" => rcvd' = rcvd /\ result' = "too_big"]_vars
  BY <1>1
<1> QED
  BY <1>2, Invariance, PTL DEF Spec, TooBigIsFinal

\* Over bytes, fragments and one buffer, the caller sees the channel of records.
THEOREM ImplementsChannel == Spec => ChannelSpec
<1>1. Init => Channel!Init
  BY DEF Init, Channel!Init, Ended
<1>2. ASSUME IInv, IInv', [Next]_vars
      PROVE  [Channel!Next]_(Channel!vars)
  <2>1. CASE Peer
    <3>1. ASSUME NEW r \in Records, Emit(r)
          PROVE  Channel!Next
      BY <3>1 DEF Emit, Channel!Next, Channel!Emit, Ended
    <3>2. CASE Close
      BY <3>2 DEF Close, Channel!Next, Channel!Close, Ended
    <3>3. ASSUME NEW r \in Records, NEW k \in Nat, CloseInside(r, k)
          PROVE  Channel!Next
      BY <3>3 DEF CloseInside, Channel!Next, Channel!Close, Ended
    <3>4. \A r \in Records : HEADER_SIZE + Len(r) - 1 \in Int
      BY FrameBytes DEF HEADER_SIZE
    <3>5. \A r \in Records : \A k \in 1 .. HEADER_SIZE + Len(r) - 1 : k \in Nat
      BY <3>4
    <3> QED
      BY <2>1, <3>1, <3>2, <3>3, <3>5 DEF Peer
  <2>2. CASE record_stream_get_next
    <3>1. /\ sent' = sent /\ closed' = closed
          /\ Len(rcvd) \in Nat /\ Len(sent) \in Nat
          /\ Len(rcvd) <= Len(sent) /\ Len(rcvd') <= Len(sent)
      <4>1. sent' = sent /\ closed' = closed
        BY <2>2 DEF record_stream_get_next, GetBuffered, GetTooBig, GetRead, GetEof,
                    GetError, Unread, peer
      <4> QED
        BY <1>2, <4>1 DEF IInv, TypeOK, InOrder
    <3>2. ASSUME NEW x, rcvd' = Append(rcvd, x), result' = "record",
                 result # "too_big"
          PROVE  Channel!Deliver
      <4>1. Len(rcvd') = Len(rcvd) + 1 /\ rcvd'[Len(rcvd) + 1] = x
        BY <1>2, <3>2 DEF IInv, TypeOK
      <4>2. Len(rcvd) < Len(sent)
        BY <3>1, <4>1
      <4>3. x = sent[Len(rcvd) + 1]
        BY <1>2, <3>1, <4>1 DEF IInv, InOrder
      <4>4. result # "eof"
        BY <1>2, <4>2 DEF IInv, ResultOK, EofOnlyAtEnd
      <4> QED
        BY <3>1, <3>2, <4>2, <4>3, <4>4 DEF Channel!Deliver, Ended
    <3>3. CASE result = "too_big"
      <4>1. NeedsRead /\ IsFull
        BY <1>2, <3>3 DEF IInv, ResultOK
      <4>2. rcvd' = rcvd /\ result' = "too_big"
        BY <2>2, <4>1 DEF record_stream_get_next, GetBuffered, Return, NeedsRead,
                          GetTooBig, GetRead, GetEof, GetError, Unread
      <4> QED
        BY <3>1, <3>3, <4>2 DEF Channel!vars, Ended
    <3>4. CASE result # "too_big" /\ GetBuffered
      BY <3>2, <3>4 DEF GetBuffered, Return, Channel!Next
    <3>5. CASE result # "too_big" /\ GetTooBig
      <4>1. result # "eof" /\ result' = "too_big" /\ rcvd' = rcvd
        BY <1>2, <3>5 DEF GetTooBig, IInv, ResultOK
      <4> QED
        BY <3>1, <3>5, <4>1 DEF Channel!Next, Channel!GiveUp, Ended
    <3>6. ASSUME NEW n \in 1 .. buffer_end, GetRead(n), result # "too_big"
          PROVE  [Channel!Next]_(Channel!vars)
      <4>1. result # "eof"
        <5>1. Len(written) \in Nat /\ taken \in Nat
          BY <1>2, BufferWindow
        <5> QED
          BY <1>2, <3>6, <5>1 DEF GetRead, Pending, IInv, ResultOK, EofOnlyAtEnd
      <4>2. CASE Return(Filled(n), 0, toMove + n)
        BY <3>2, <3>6, <4>2 DEF Return, Channel!Next
      <4>3. CASE result' = "again" /\ rcvd' = rcvd
        BY <3>1, <3>6, <4>1, <4>3 DEF Channel!vars, Ended
      <4> QED
        BY <3>6, <4>2, <4>3 DEF GetRead
    <3>7. CASE result # "too_big" /\ GetEof
      <4>1. result' = "eof" /\ rcvd' = rcvd
        BY <3>7 DEF GetEof, Unread
      <4>2. closed /\ rcvd = sent
        BY <1>2, <3>1, <4>1 DEF IInv, ResultOK, EofOnlyAtEnd
      <4> QED
        BY <3>1, <3>7, <4>1, <4>2 DEF Channel!Next, Channel!EndOfStream,
                                      Channel!vars, Ended
    <3>8. CASE result # "too_big" /\ GetError
      <4>1. result' = "error" /\ rcvd' = rcvd /\ ~closed
        BY <3>8 DEF GetError, Unread
      <4>2. result # "eof"
        BY <1>2, <4>1 DEF IInv, ResultOK, EofOnlyAtEnd
      <4> QED
        BY <3>1, <3>8, <4>1, <4>2 DEF Channel!vars, Ended
    <3> QED
      BY <2>2, <3>3, <3>4, <3>5, <3>6, <3>7, <3>8 DEF record_stream_get_next
  <2>3. CASE UNCHANGED vars
    BY <2>3 DEF vars, Channel!vars, Ended
  <2> QED
    BY <1>2, <2>1, <2>2, <2>3 DEF Next
<1> QED
  BY <1>1, <1>2, Invariance, PTL DEF Spec, ChannelSpec, Channel!Spec
=============================================================================
