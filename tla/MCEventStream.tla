--------------------------- MODULE MCEventStream ----------------------------
(***************************************************************************)
(* A small instance of EventStream.  A header is two bytes, the second one *)
(* encoding both lengths, so that it can be torn; the buffers are smaller  *)
(* than a frame.  The payload of Audio spells a whole frame of its own     *)
(* (header, newline), which is what a reader inside it would see.          *)
(***************************************************************************)
EXTENDS EventStream

MCByte == 0 .. 20

MCLength == {0, 2, 3}

MCHeader(h) == <<1, 2 + h.dlen + 4 * h.plen>>

Audio == [type |-> "a", data |-> <<>>, payload |-> <<1, 2, 0>>]

Query == [type |-> "a", data |-> <<19, 20>>, payload |-> <<>>]

Spoken == [type |-> "a", data |-> <<19, 20>>, payload |-> <<0, 20>>]

MCEvent == {Audio, Query, Spoken}

MCJsonDoc == {<<19, 20>>}

=============================================================================
