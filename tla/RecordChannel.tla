--------------------------- MODULE RecordChannel ---------------------------
(***************************************************************************)
(* What a record stream promises its caller, with the bytes left out:      *)
(* a peer emits records, the caller receives the same records in the same  *)
(* order and, when the peer has closed, an end of stream after the last    *)
(* complete record.  A record that does not fit ends the delivery for      *)
(* good.  RecordStream implements this module.                             *)
(***************************************************************************)
EXTENDS Sequences, Naturals

CONSTANT Records        \* the records a peer may emit

VARIABLES sent,         \* complete records the peer has emitted
          rcvd,         \* records handed to the caller
          closed,       \* the peer will emit nothing more
          ended         \* "open", "eof" or "too_big", as the caller saw it

vars == <<sent, rcvd, closed, ended>>

Init == /\ sent = <<>>
        /\ rcvd = <<>>
        /\ closed = FALSE
        /\ ended = "open"

Emit == /\ ~closed
        /\ \E r \in Records : sent' = Append(sent, r)
        /\ UNCHANGED <<rcvd, closed, ended>>

Close == /\ ~closed
         /\ closed' = TRUE
         /\ UNCHANGED <<sent, rcvd, ended>>

Deliver == /\ ended = "open"
           /\ Len(rcvd) < Len(sent)
           /\ rcvd' = Append(rcvd, sent[Len(rcvd) + 1])
           /\ UNCHANGED <<sent, closed, ended>>

EndOfStream == /\ ended = "open"
               /\ closed
               /\ rcvd = sent
               /\ ended' = "eof"
               /\ UNCHANGED <<sent, rcvd, closed>>

GiveUp == /\ ended = "open"
          /\ ended' = "too_big"
          /\ UNCHANGED <<sent, rcvd, closed>>

Next == Emit \/ Close \/ Deliver \/ EndOfStream \/ GiveUp

Spec == Init /\ [][Next]_vars
=============================================================================
