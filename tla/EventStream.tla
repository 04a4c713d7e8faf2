---------------------------- MODULE EventStream -----------------------------
(***************************************************************************)
(* One direction of a Wyoming connection, byte by byte (src/src/event.c):  *)
(* wyoming_event_write_fd pushes an event's segments into the socket with  *)
(* write_all, the kernel carries the bytes, and wyoming_event_read_iobuf   *)
(* rebuilds the event from the connection's read buffer (wyoming_iobuf_t)  *)
(* with iobuf_read_line and iobuf_read_exact.                              *)
(*                                                                         *)
(* A frame is a header line (JSON: type, data_length, payload_length), an  *)
(* optional JSON data block and an optional binary payload.  A header      *)
(* never holds a newline (cJSON escapes it); a payload may hold anything.  *)
(*                                                                         *)
(* EINTR makes both sides retry and changes nothing, so it is a stutter.   *)
(* A write fails only on a connection that has been reset, and then fails  *)
(* for good: the bytes already accepted stay on the wire, a torn frame.    *)
(***************************************************************************)
EXTENDS Integers, Sequences, SequencesExt

CONSTANTS
  Byte,                     \* the values of a byte
  NL,                       \* '\n'
  Type,                     \* event type names
  Length,                   \* sizes a data block or a payload may have
  Header(_),                \* the header text cJSON prints for the fields
  JsonDoc,                  \* the texts that are one JSON document
  Event,                    \* the events the writer may be given
  ReadBufSize,              \* WYOMING_READBUF_SIZE
  SockBuf,                  \* bytes the kernel holds between the two ends
  RcvTimeout,               \* the reader's socket has SO_RCVTIMEO set
  MaxEvents                 \* bound on the events written

HeaderFields == [type : Type, dlen : Length, plen : Length]

ASSUME ByteAssumption == NL \in Byte

ASSUME LengthAssumption == Length \subseteq Nat /\ 0 \in Length

\* A header is one line, and cJSON_Parse recovers the fields from its text.
ASSUME HeaderAssumption ==
  /\ \A h \in HeaderFields : Header(h) \in Seq(Byte \ {NL})
  /\ \A g, h \in HeaderFields : IsPrefix(Header(g), Header(h)) => g = h

\* A JSON object ends at its closing brace: no proper prefix is a document.
ASSUME JsonAssumption ==
  /\ JsonDoc \subseteq Seq(Byte)
  /\ <<>> \notin JsonDoc
  /\ \A c, d \in JsonDoc : IsPrefix(c, d) => c = d

ASSUME EventAssumption ==
  \A e \in Event :
    /\ e = [type |-> e.type, data |-> e.data, payload |-> e.payload]
    /\ e.type \in Type
    /\ e.data \in JsonDoc \cup {<<>>}
    /\ e.payload \in Seq(Byte)
    /\ Len(e.data) \in Length
    /\ Len(e.payload) \in Length

ASSUME SizeAssumption ==
  /\ ReadBufSize \in Nat \ {0}
  /\ SockBuf \in Nat \ {0}
  /\ RcvTimeout \in BOOLEAN
  /\ MaxEvents \in Nat

VARIABLES
  conn,                     \* "open", "closed" by the writer, or "reset"
  wire,                     \* every byte the kernel has accepted, in order
  written,                  \* the events given to wyoming_event_write_fd
  starts,                   \* history: where in wire each of them begins
  wdone,                    \* bytes of the last event that are on the wire
  kpos,                     \* bytes of wire that read() has returned
  buf, pos,                 \* io->buf[0 .. len-1] and io->pos
  rphase,                   \* what the reader is in: "idle", "line", ...
  acc,                      \* the line, or the block, read so far
  hdr,                      \* the parsed header
  block,                    \* the data block, once read
  delivered,                \* the events returned with WYOMING_OK
  rc,                       \* what the last finished call returned
  mark,                     \* history: where in wire the current call began
  synced                    \* history: no failed call has dropped bytes

writerVars == <<written, starts, wdone>>
bufVars    == <<kpos, buf, pos>>
callVars   == <<rphase, acc, hdr, block, delivered, rc, mark, synced>>
vars       == <<conn, wire, writerVars, bufVars, callVars>>

NoHeader == [type |-> "none", dlen |-> 0, plen |-> 0]

-----------------------------------------------------------------------------
(* The frame of an event.                                                  *)

Fields(e) ==
  [type |-> e.type, dlen |-> Len(e.data), plen |-> Len(e.payload)]

Frame(e) == Header(Fields(e)) \o <<NL>> \o e.data \o e.payload

\* The byte counts of a frame at which one write_all ends.
SegmentEnds(e) ==
  LET h == Len(Header(Fields(e)))
  IN  {h, h + 1, h + 1 + Len(e.data), Len(Frame(e))}

-----------------------------------------------------------------------------
Init ==
  /\ conn = "open"
  /\ wire = <<>>
  /\ written = <<>>
  /\ starts = <<>>
  /\ wdone = 0
  /\ kpos = 0
  /\ buf = <<>>
  /\ pos = 0
  /\ rphase = "idle"
  /\ acc = <<>>
  /\ hdr = NoHeader
  /\ block = <<>>
  /\ delivered = <<>>
  /\ rc = "none"
  /\ mark = 0
  /\ synced = TRUE

(***************************************************************************)
(* The writer.                                                             *)
(***************************************************************************)
Writing == written # <<>> /\ wdone < Len(Frame(written[Len(written)]))

\* wyoming_event_write_fd up to its first write_all.  Its early returns
\* (no type, no memory) put nothing on the wire.
BeginWrite(e) ==
  /\ conn = "open"
  /\ ~Writing
  /\ Len(written) < MaxEvents
  /\ written' = Append(written, e)
  /\ starts' = Append(starts, Len(wire))
  /\ wdone' = 0
  /\ UNCHANGED <<conn, wire, bufVars, callVars>>

\* One write() of write_all: n bytes of what is left of the segment.
WriteSome(n) ==
  /\ conn = "open"
  /\ Writing
  /\ Len(wire) - kpos + n <= SockBuf
  /\ LET e == written[Len(written)]
     IN  /\ \A end \in SegmentEnds(e) : wdone < end => wdone + n <= end
         /\ wire' = wire \o SubSeq(Frame(e), wdone + 1, wdone + n)
  /\ wdone' = wdone + n
  /\ UNCHANGED <<conn, written, starts, bufVars, callVars>>

\* The writing end goes away: close() between events, a death inside one.
Close ==
  /\ conn = "open"
  /\ conn' = "closed"
  /\ UNCHANGED <<wire, writerVars, bufVars, callVars>>

Reset ==
  /\ conn # "reset"
  /\ conn' = "reset"
  /\ UNCHANGED <<wire, writerVars, bufVars, callVars>>

(***************************************************************************)
(* The reader.  Unread holds the bytes of the wire that read() can return, *)
(* Cursor is the number of bytes the reader has taken out of its buffer.   *)
(***************************************************************************)
Unread == Len(wire) - kpos

Cursor == kpos - (Len(buf) - pos)

\* Mutant: the scan stops one byte short of the end of the buffer.
NewlineAtShort(i) ==
  /\ i \in (pos + 1) .. (Len(buf) - 1)
  /\ buf[i] = NL
  /\ \A j \in (pos + 1) .. (i - 1) : buf[j] # NL

NewlineAt(i) ==
  /\ i \in (pos + 1) .. Len(buf)
  /\ buf[i] = NL
  /\ \A j \in (pos + 1) .. (i - 1) : buf[j] # NL

HasNewline == \E i \in (pos + 1) .. Len(buf) : buf[i] = NL

\* The size of the block the reader is in.
Count == IF rphase = "data" THEN hdr.dlen ELSE hdr.plen

InBlock == rphase \in {"data", "payload"}

\* Mutant: iobuf_read_exact goes to the socket before it drains the buffer.
AtReadUndrained ==
  (rphase = "line" /\ pos = Len(buf)) \/ (InBlock /\ Len(acc) < Count)

\* The reader sits in read(2).
AtRead ==
  /\ pos = Len(buf)
  /\ rphase = "line" \/ (InBlock /\ Len(acc) < Count)

\* The call returns; what it had accumulated is freed.
Return(code, insync) ==
  /\ rphase' = "idle"
  /\ rc' = code
  /\ acc' = <<>>
  /\ hdr' = NoHeader
  /\ block' = <<>>
  /\ mark' = Cursor'
  /\ synced' = (synced /\ insync)

\* A call that read() or malloc() makes fail after it has consumed bytes
\* leaves the reader inside a frame.  A parse error is not counted here: a
\* reader that is in step must never meet one (DeliveredInOrder), unless
\* cJSON has no memory (ParseNoMem).
Fail(code) ==
  /\ Return(code, code = "parse" \/ Cursor' = mark)
  /\ delivered' = delivered

\* wyoming_event_read_iobuf is called.
Call ==
  /\ rphase = "idle"
  /\ rphase' = "line"
  /\ UNCHANGED <<conn, wire, writerVars, bufVars,
                 acc, hdr, block, delivered, rc, mark, synced>>

\* iobuf_read_line: refill the exhausted buffer.
Fill(n) ==
  /\ rphase = "line"
  /\ pos = Len(buf)
  /\ conn # "reset"
  /\ n <= Unread
  /\ buf' = SubSeq(wire, kpos + 1, kpos + n)
  /\ pos' = 0
  /\ kpos' = kpos + n
  /\ UNCHANGED <<conn, wire, writerVars, callVars>>

\* Mutant: the saved bytes overwrite the start of the line.
SaveOverwrites ==
  /\ rphase = "line"
  /\ pos < Len(buf)
  /\ ~HasNewline
  /\ acc' = SubSeq(buf, pos + 1, Len(buf))
  /\ buf' = <<>>
  /\ pos' = 0
  /\ UNCHANGED <<conn, wire, writerVars, kpos,
                 rphase, hdr, block, delivered, rc, mark, synced>>

\* Mutant: io->pos is not reset.
SaveKeepsPos ==
  /\ rphase = "line"
  /\ pos < Len(buf)
  /\ ~HasNewline
  /\ acc' = acc \o SubSeq(buf, pos + 1, Len(buf))
  /\ buf' = <<>>
  /\ UNCHANGED <<conn, wire, writerVars, kpos, pos,
                 rphase, hdr, block, delivered, rc, mark, synced>>

\* iobuf_read_line: no newline in the buffer, keep its bytes in the line.
Save ==
  /\ rphase = "line"
  /\ pos < Len(buf)
  /\ ~HasNewline
  /\ acc' = acc \o SubSeq(buf, pos + 1, Len(buf))
  /\ buf' = <<>>
  /\ pos' = 0
  /\ UNCHANGED <<conn, wire, writerVars, kpos,
                 rphase, hdr, block, delivered, rc, mark, synced>>

\* The header a line parses to: cJSON_Parse ignores what follows the object.
ParsedHeaders(line) == {h \in HeaderFields : IsPrefix(Header(h), line)}

\* iobuf_read_line returns a line and the header is parsed.
ScanLine ==
  /\ rphase = "line"
  /\ \E i \in (pos + 1) .. Len(buf) :
       /\ NewlineAt(i)
       /\ pos' = i
       /\ LET line == acc \o SubSeq(buf, pos + 1, i - 1)
          IN  \/ /\ ParsedHeaders(line) = {}
                 /\ buf' = buf /\ kpos' = kpos
                 /\ Fail("parse")
              \/ \E h \in ParsedHeaders(line) :
                 /\ buf' = buf /\ kpos' = kpos
                 /\ rphase' = "data"
                 /\ hdr' = h
                 /\ acc' = <<>>
                 /\ UNCHANGED <<block, delivered, rc, mark, synced>>
  /\ UNCHANGED <<conn, wire, writerVars>>

\* iobuf_read_exact: take what the buffer holds.
Drain ==
  /\ InBlock
  /\ Len(acc) < Count
  /\ pos < Len(buf)
  /\ LET avail == Len(buf) - pos
         left  == Count - Len(acc)
         take  == IF avail < left THEN avail ELSE left
     IN  /\ acc' = acc \o SubSeq(buf, pos + 1, pos + take)
         /\ pos' = pos + take
  /\ UNCHANGED <<conn, wire, writerVars, kpos, buf,
                 rphase, hdr, block, delivered, rc, mark, synced>>

\* iobuf_read_exact: read the rest straight into the destination.
ReadDirect(n) ==
  /\ AtRead
  /\ InBlock
  /\ conn # "reset"
  /\ n <= Unread
  /\ n <= Count - Len(acc)
  /\ acc' = acc \o SubSeq(wire, kpos + 1, kpos + n)
  /\ kpos' = kpos + n
  /\ UNCHANGED <<conn, wire, writerVars, buf, pos,
                 rphase, hdr, block, delivered, rc, mark, synced>>

\* The document cJSON_Parse finds at the front of a data block.
ParsedDocs(text) == {d \in JsonDoc : IsPrefix(d, text)}

FinishData ==
  /\ rphase = "data"
  /\ Len(acc) = hdr.dlen
  /\ \/ /\ hdr.dlen > 0
        /\ ParsedDocs(acc) = {}
        /\ UNCHANGED bufVars
        /\ Fail("parse")
     \/ /\ block' \in (IF hdr.dlen = 0 THEN {<<>>} ELSE ParsedDocs(acc))
        /\ rphase' = "payload"
        /\ acc' = <<>>
        /\ UNCHANGED <<bufVars, hdr, delivered, rc, mark, synced>>
  /\ UNCHANGED <<conn, wire, writerVars>>

FinishPayload ==
  /\ rphase = "payload"
  /\ Len(acc) = hdr.plen
  /\ delivered' = Append(delivered,
                    [type |-> hdr.type, data |-> block, payload |-> acc])
  /\ UNCHANGED <<conn, wire, writerVars, bufVars>>
  /\ Return("ok", TRUE)

\* read() fails.  Only iobuf_read_line empties the buffer first.
ReadError(code) ==
  /\ AtRead
  /\ IF rphase = "line" THEN buf' = <<>> /\ pos' = 0
                        ELSE UNCHANGED <<buf, pos>>
  /\ UNCHANGED <<conn, wire, writerVars, kpos>>
  /\ Fail(code)

ReadEof ==
  /\ conn = "closed"
  /\ Unread = 0
  /\ ReadError("eof")

\* Mutant: a timeout is reported as the end of the stream.
ReadIoErrorAsEof ==
  /\ \/ RcvTimeout /\ conn = "open" /\ Unread = 0
     \/ conn = "reset"
  /\ ReadError("eof")

\* SO_RCVTIMEO expires, or the connection was reset.
ReadIoError ==
  /\ \/ RcvTimeout /\ conn = "open" /\ Unread = 0
     \/ conn = "reset"
  /\ ReadError("io")

\* An allocation fails: for the line, the type, the data or the payload.
NoMem ==
  /\ \/ rphase = "line" /\ pos < Len(buf)
     \/ rphase = "data" /\ acc = <<>>
     \/ rphase = "payload" /\ acc = <<>> /\ hdr.plen > 0
  /\ UNCHANGED <<conn, wire, writerVars, bufVars>>
  /\ Fail("nomem")

\* cJSON_Parse has no memory for the header or the data block: the call
\* reports a parse error, and the event is lost.
ParseNoMem ==
  /\ rphase = "data"
  /\ acc = <<>> \/ Len(acc) = hdr.dlen
  /\ UNCHANGED <<conn, wire, writerVars, bufVars, delivered>>
  /\ Return("parse", FALSE)

-----------------------------------------------------------------------------
Writer ==
  \/ \E e \in Event : BeginWrite(e)
  \/ \E n \in 1 .. SockBuf : WriteSome(n)

Reader ==
  \/ Call
  \/ \E n \in 1 .. ReadBufSize : Fill(n)
  \/ Save
  \/ ScanLine
  \/ Drain
  \/ \E n \in 1 .. SockBuf : ReadDirect(n)
  \/ FinishData
  \/ FinishPayload

Faults == Close \/ Reset \/ ReadEof \/ ReadIoError \/ NoMem \/ ParseNoMem

Next == Writer \/ Reader \/ Faults

Spec == Init /\ [][Next]_vars

(***************************************************************************)
(* The consumer calls the reader in a loop and the writer finishes what it *)
(* has begun.  Allocation may fail, but not every time it is tried, hence  *)
(* strong fairness for the two steps an allocation failure can pre-empt.   *)
(***************************************************************************)
Fairness ==
  /\ WF_vars(\E n \in 1 .. SockBuf : WriteSome(n))
  /\ WF_vars(Reader)
  /\ SF_vars(Save)
  /\ SF_vars(ScanLine)

FairSpec == Spec /\ Fairness

-----------------------------------------------------------------------------
(* Properties.                                                             *)

RCodes == {"none", "ok", "eof", "io", "parse", "nomem"}

\* Type correctness of the wire, the iobuf and the reader's local state.
TypeOK ==
  /\ conn \in {"open", "closed", "reset"}
  /\ wire \in Seq(Byte)
  /\ written \in Seq(Event)
  /\ starts \in Seq(Nat) /\ Len(starts) = Len(written)
  /\ wdone \in Nat
  /\ kpos \in 0 .. Len(wire)
  /\ buf \in Seq(Byte)
  /\ pos \in 0 .. Len(buf)
  /\ rphase \in {"idle", "line", "data", "payload"}
  /\ acc \in Seq(Byte)
  /\ hdr \in HeaderFields \cup {NoHeader}
  /\ block \in JsonDoc \cup {<<>>}
  /\ delivered \in
       Seq([type : Type, data : JsonDoc \cup {<<>>}, payload : Seq(Byte)])
  /\ rc \in RCodes
  /\ mark \in Nat
  /\ synced \in BOOLEAN

\* Handing bytes from the line buffer to iobuf_read_exact and back
\* (event.c:55-71 and 96-115) neither skips, repeats nor reorders one: what
\* the reader has accumulated and what is left in io->buf are, in this
\* order, the last bytes that read() returned, and io->buf is never overrun.
BytesInOrder ==
  /\ Len(buf) <= ReadBufSize
  /\ Len(acc) <= Cursor
  /\ \A i \in (pos + 1) .. Len(buf) : buf[i] = wire[kpos - Len(buf) + i]
  /\ \A i \in 1 .. Len(acc) : acc[i] = wire[Cursor - Len(acc) + i]

\* Until a failed call drops bytes, the events returned are the events
\* written, whole, in order, none lost or twice, and no header or data
\* block fails to parse - whatever the payloads contain, wherever write()
\* and read() cut the stream, and however many reads time out between two
\* events (event.c:142-224 against 244-296).
DeliveredInOrder ==
  synced => IsPrefix(delivered, written) /\ rc # "parse"

\* WYOMING_ERR_EOF with nothing dropped means that every event the peer
\* finished writing has been returned: EOF never overtakes data that is
\* still in io->buf or in the kernel (event.c:78-81, 109-110).
EofAfterLastEvent ==
  (synced /\ rc = "eof")
    => Len(delivered) = Len(written) - (IF Writing THEN 1 ELSE 0)

\* The byte-level reader and writer implement the channel of whole events.
Channel == INSTANCE EventChannel WITH Event <- Event, written <- written,
                                      delivered <- delivered, synced <- synced

ImplementsChannel == Channel!Spec

\* Every event whose writing began is returned in the end, unless the
\* connection ends or a failed read drops bytes: the reader never waits in
\* read() for bytes it already holds (event.c:29, 96).
EventsArrive ==
  \A k \in 1 .. MaxEvents :
    (Len(written) >= k)
      ~> (Len(delivered) >= k \/ ~synced \/ conn # "open")

-----------------------------------------------------------------------------
(***************************************************************************)
(* The inductive invariant behind the properties above: the wire is the    *)
(* concatenation of the frames of written, and a reader in step is at a    *)
(* known offset of the frame of the next event to deliver.                 *)
(***************************************************************************)
HLen(e) == Len(Header(Fields(e)))

\* The reader's locals, phase by phase.
PhaseOK ==
  /\ rphase = "idle" => acc = <<>> /\ mark = Cursor
  /\ rphase = "line" => \A i \in 1 .. Len(acc) : acc[i] # NL
  /\ InBlock => hdr \in HeaderFields /\ Len(acc) <= Count

\* The wire is the frames of written, one after the other, the last one
\* up to its byte wdone.
WireOK ==
  /\ written = <<>> => wire = <<>>
  /\ written # <<>> =>
       LET n == Len(written)
       IN  /\ starts[1] = 0
           /\ wdone <= Len(Frame(written[n]))
           /\ Len(wire) = starts[n] + wdone
  /\ \A k \in 1 .. Len(written) - 1 :
       starts[k + 1] = starts[k] + Len(Frame(written[k]))
  /\ \A j, k \in 1 .. Len(written) :
       j < k => starts[j] + Len(Frame(written[j])) <= starts[k]
  /\ \A k \in 1 .. Len(written) : \A i \in 1 .. Len(Frame(written[k])) :
       starts[k] + i <= Len(wire)
         => wire[starts[k] + i] = Frame(written[k])[i]

\* How much of the frame of e the reader has consumed before acc.
Consumed(e) ==
  CASE rphase = "data"    -> HLen(e) + 1
    [] rphase = "payload" -> HLen(e) + 1 + Len(e.data)
    [] OTHER              -> 0

\* A reader in step: it has returned the first events written, the current
\* call began at the frame of the next one, and it is as far into that
\* frame as its phase says, with that frame's header and data block.
SyncOK ==
  synced =>
    LET d == Len(delivered)
    IN  /\ rc # "parse"
        /\ d <= Len(written)
        /\ \A k \in 1 .. d : delivered[k] = written[k]
        /\ d = Len(written) => mark = Len(wire) /\ ~Writing
        /\ d < Len(written) => mark = starts[d + 1]
        /\ rphase = "line" => Cursor - Len(acc) = mark
        /\ InBlock =>
             /\ d < Len(written)
             /\ hdr = Fields(written[d + 1])
             /\ Cursor - Len(acc) = mark + Consumed(written[d + 1])
        /\ rphase = "payload" => block = written[d + 1].data

\* After an end of file that dropped nothing, the reader is at the end.
EofOK == (synced /\ rc = "eof") => conn # "open" /\ mark = Len(wire)

\* Type correctness and the parts above: every step preserves it.
IndInv == TypeOK /\ BytesInOrder /\ PhaseOK /\ WireOK /\ SyncOK /\ EofOK

=============================================================================
