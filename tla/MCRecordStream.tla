--------------------------- MODULE MCRecordStream ---------------------------
(***************************************************************************)
(* maxRecordLen 4, so that the eight bytes of the buffer hold two empty    *)
(* frames, or one and the header of the next; a record of length 4 fills   *)
(* the buffer exactly, one of length 5 does not fit.  The payload bytes 0  *)
(* and 1 look like header bytes, so that a misaligned read is visible.     *)
(***************************************************************************)
EXTENDS RecordStream

MCRecords == {<<>>, <<1>>, <<0, 0, 0, 1>>, <<1, 0, 0, 0, 0>>}
=============================================================================
