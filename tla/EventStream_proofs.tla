------------------------- MODULE EventStream_proofs -------------------------
(***************************************************************************)
(* Proofs about EventStream: IndInv is inductive, hence the properties of  *)
(* the byte stream and its implementation of EventChannel hold for every   *)
(* buffer size, header text, event and number of events.                   *)
(*                                                                         *)
(* The order of the module: facts about sequences and frames, one lemma    *)
(* per action (ending in "Step": the action preserves IndInv) with the     *)
(* facts about lines and blocks the parsing actions need before them, and  *)
(* the theorems.                                                           *)
(***************************************************************************)
EXTENDS EventStream, SequenceTheorems, TLAPS

\* What a frame holds at each of its positions.
LEMMA FrameProperties ==
  ASSUME NEW e \in Event
  PROVE  /\ e.data \in Seq(Byte) /\ e.payload \in Seq(Byte)
         /\ Len(e.data) \in Nat /\ Len(e.payload) \in Nat
         /\ Fields(e) \in HeaderFields
         /\ Header(Fields(e)) \in Seq(Byte)
         /\ HLen(e) \in Nat
         /\ Frame(e) \in Seq(Byte)
         /\ Len(Frame(e)) = HLen(e) + 1 + Len(e.data) + Len(e.payload)
         /\ \A i \in 1 .. HLen(e) : /\ Frame(e)[i] = Header(Fields(e))[i]
                                    /\ Frame(e)[i] # NL
         /\ Frame(e)[HLen(e) + 1] = NL
         /\ \A i \in 1 .. Len(e.data) :
              Frame(e)[HLen(e) + 1 + i] = e.data[i]
         /\ \A i \in 1 .. Len(e.payload) :
              Frame(e)[HLen(e) + 1 + Len(e.data) + i] = e.payload[i]
<1>1. /\ e.data \in Seq(Byte) /\ e.payload \in Seq(Byte)
      /\ e.type \in Type /\ Len(e.data) \in Length /\ Len(e.payload) \in Length
  <2>1. e.data \in JsonDoc \cup {<<>>}
    BY EventAssumption
  <2>2. e.data \in Seq(Byte)
    BY <2>1, JsonAssumption, EmptySeq
  <2> QED BY <2>2, EventAssumption
<1>2. /\ Fields(e) \in HeaderFields
      /\ Len(e.data) \in Nat /\ Len(e.payload) \in Nat
  BY <1>1, LengthAssumption DEF Fields, HeaderFields
<1> DEFINE h == Header(Fields(e))
<1>3. h \in Seq(Byte \ {NL})
  BY <1>2, HeaderAssumption
<1>4. /\ h \in Seq(Byte) /\ Len(h) \in Nat
      /\ \A i \in 1 .. Len(h) : h[i] # NL
  <2> HIDE DEF h
  <2> QED BY <1>3
<1> DEFINE d == e.data
           p == e.payload
           f == Frame(e)
<1>5. /\ f = h \o <<NL>> \o d \o p
      /\ NL \in Byte /\ d \in Seq(Byte) /\ p \in Seq(Byte)
  BY <1>1, ByteAssumption DEF Frame
<1> HIDE DEF h, d, p, f
<1>6. /\ f \in Seq(Byte)
      /\ Len(f) = Len(h) + 1 + Len(d) + Len(p)
      /\ \A i \in 1 .. Len(h) : f[i] = h[i]
      /\ f[Len(h) + 1] = NL
      /\ \A i \in 1 .. Len(d) : f[Len(h) + 1 + i] = d[i]
      /\ \A i \in 1 .. Len(p) : f[Len(h) + 1 + Len(d) + i] = p[i]
  BY <1>4, <1>5, SMT
<1> QED
  BY <1>1, <1>2, <1>4, <1>6 DEF h, d, p, f, HLen


\* What the k elements after position m of a sequence are.
LEMMA SubSeqFacts ==
  ASSUME NEW S, NEW s \in Seq(S), NEW m \in Nat, NEW k \in Nat,
         m + k <= Len(s)
  PROVE  /\ SubSeq(s, m + 1, m + k) \in Seq(S)
         /\ Len(SubSeq(s, m + 1, m + k)) = k
         /\ \A i \in 1 .. k : SubSeq(s, m + 1, m + k)[i] = s[m + i]
  BY SMT

\* The elements of a concatenation.
LEMMA ConcatFacts ==
  ASSUME NEW S, NEW a \in Seq(S), NEW b \in Seq(S)
  PROVE  /\ a \o b \in Seq(S) /\ Len(a) \in Nat
         /\ Len(a \o b) = Len(a) + Len(b)
         /\ \A i \in 1 .. Len(a) : (a \o b)[i] = a[i]
         /\ \A i \in 1 .. Len(b) : (a \o b)[Len(a) + i] = b[i]
  BY SMT

\* The elements of a sequence with one more appended.
LEMMA AppendFacts ==
  ASSUME NEW S, NEW a \in Seq(S), NEW v \in S, NEW x, x = Append(a, v)
  PROVE  /\ x \in Seq(S) /\ Len(a) \in Nat /\ Len(x) = Len(a) + 1
         /\ \A i \in 1 .. Len(a) : x[i] = a[i]
         /\ x[Len(a) + 1] = v
         /\ x # <<>>
  BY SMT

\* Appending part of one sequence to another.
LEMMA ExtendFacts ==
  ASSUME NEW S, NEW a \in Seq(S), NEW s \in Seq(S), NEW m \in Nat, NEW k \in Nat,
         m + k <= Len(s),
         NEW x, x = a \o SubSeq(s, m + 1, m + k)
  PROVE  /\ x \in Seq(S)
         /\ Len(x) = Len(a) + k
         /\ \A i \in 1 .. Len(a) : x[i] = a[i]
         /\ \A i \in 1 .. k : x[Len(a) + i] = s[m + i]
<1>0. PICK t : t = SubSeq(s, m + 1, m + k)
  OBVIOUS
<1>1. t \in Seq(S) /\ Len(t) = k /\ \A i \in 1 .. k : t[i] = s[m + i]
  BY <1>0, SubSeqFacts
<1>2. t \in Seq(S)
  BY <1>1
<1>3. /\ x \in Seq(S) /\ Len(a) \in Nat
      /\ Len(x) = Len(a) + Len(t)
      /\ \A i \in 1 .. Len(a) : x[i] = a[i]
      /\ \A i \in 1 .. Len(t) : x[Len(a) + i] = t[i]
  BY <1>0, <1>2, ConcatFacts
<1> QED BY <1>1, <1>3

\* A new connection with an empty iobuf satisfies the invariant.
LEMMA InitIndInv == Init => IndInv
<1> SUFFICES ASSUME Init PROVE IndInv
  OBVIOUS
<1>1. TypeOK
  BY DEF Init, TypeOK, RCodes
<1>2. BytesInOrder
  BY SizeAssumption DEF Init, BytesInOrder, Cursor
<1>3. PhaseOK /\ EofOK
  <2>1. /\ rphase = "idle" /\ acc = <<>> /\ mark = 0 /\ rc = "none" /\ Cursor = 0
    <3>1. Len(buf) = 0 /\ pos = 0 /\ kpos = 0
      BY DEF Init
    <3>2. Cursor = 0
      BY <3>1 DEF Cursor
    <3> QED BY <3>2 DEF Init
  <2> QED BY <2>1 DEF PhaseOK, EofOK, InBlock
<1>5. WireOK
  <2>1. written = <<>> /\ wire = <<>> /\ Len(written) = 0
    BY DEF Init
  <2> QED BY <2>1 DEF WireOK
<1>4. SyncOK
  BY DEF Init, SyncOK, Writing, InBlock
<1> QED BY <1>1, <1>2, <1>3, <1>4, <1>5 DEF IndInv

\* wyoming_event_write_fd starts a frame where the wire ends
\* (event.c:247-279): the invariant is preserved.
LEMMA BeginWriteStep ==
  ASSUME IndInv, NEW e \in Event, BeginWrite(e)
  PROVE  IndInv'
<1> USE DEF IndInv
<1>1. /\ written \in Seq(Event) /\ starts \in Seq(Nat) /\ Len(starts) = Len(written)
      /\ wire \in Seq(Byte)
      /\ written' = Append(written, e) /\ starts' = Append(starts, Len(wire))
      /\ wdone' = 0
      /\ UNCHANGED <<conn, wire, bufVars, callVars>>
      /\ conn = "open"
  BY DEF TypeOK, BeginWrite
<1>2. /\ written' \in Seq(Event) /\ starts' \in Seq(Nat)
      /\ Len(written') = Len(written) + 1 /\ Len(starts') = Len(written) + 1
      /\ \A k \in 1 .. Len(written) : written'[k] = written[k] /\ starts'[k] = starts[k]
      /\ written'[Len(written) + 1] = e /\ starts'[Len(written) + 1] = Len(wire)
      /\ Len(written) \in Nat /\ written' # <<>>
  <2>1. Len(wire) \in Nat
    BY <1>1
  <2>2. /\ written' \in Seq(Event) /\ Len(written') = Len(written) + 1
        /\ \A k \in 1 .. Len(written) : written'[k] = written[k]
        /\ written'[Len(written) + 1] = e
        /\ Len(written) \in Nat /\ written' # <<>>
    <3>1. written' = Append(written, e) /\ written \in Seq(Event)
      BY <1>1
    <3> QED BY <3>1, AppendFacts
  <2>3. /\ starts' \in Seq(Nat) /\ Len(starts') = Len(starts) + 1
        /\ \A k \in 1 .. Len(starts) : starts'[k] = starts[k]
        /\ starts'[Len(starts) + 1] = Len(wire)
    <3>1. PICK v \in Nat : v = Len(wire)
      BY <2>1
    <3>2. starts' = Append(starts, v) /\ starts \in Seq(Nat)
      BY <1>1, <3>1
    <3>3. /\ starts' \in Seq(Nat) /\ Len(starts') = Len(starts) + 1
          /\ \A k \in 1 .. Len(starts) : starts'[k] = starts[k]
          /\ starts'[Len(starts) + 1] = v
      BY <3>2, AppendFacts
    <3> QED BY <3>1, <3>3
  <2> QED BY <1>1, <2>2, <2>3
<1>3. TypeOK'
  BY <1>1, <1>2 DEF TypeOK, bufVars, callVars
<1>4. BytesInOrder'
  BY <1>1 DEF BytesInOrder, bufVars, callVars, Cursor
<1>5. PhaseOK'
  BY <1>1 DEF PhaseOK, bufVars, callVars, Cursor, InBlock, Count
<1>6. \A k \in 1 .. Len(written') : Frame(written'[k]) \in Seq(Byte) /\ Len(Frame(written'[k])) \in Nat
  BY <1>2, FrameProperties
<1>7. \A k \in 1 .. Len(written) : starts[k] + Len(Frame(written[k])) <= Len(wire)
  <2>1. CASE written = <<>>
    BY <2>1, <1>1
  <2>2. CASE written # <<>>
    <3> DEFINE n == Len(written)
    <3>1. /\ n \in 1 .. Len(written) /\ wdone = Len(Frame(written[n]))
          /\ Len(wire) = starts[n] + wdone
      <4>1. n \in 1 .. Len(written)
        BY <2>2, <1>1
      <4>2. /\ wdone <= Len(Frame(written[n])) /\ ~(wdone < Len(Frame(written[n])))
            /\ Len(wire) = starts[n] + wdone
        BY <2>2 DEF WireOK, BeginWrite, Writing
      <4>3. wdone \in Nat /\ Len(Frame(written[n])) \in Nat
        BY <4>1, <1>2, <1>6 DEF TypeOK
      <4> HIDE DEF n
      <4> QED BY <4>1, <4>2, <4>3
    <3>2. \A k \in 1 .. n : k < n => starts[k] + Len(Frame(written[k])) <= starts[n]
      BY <3>1 DEF WireOK
    <3>3. \A k \in 1 .. n : starts[k] \in Nat /\ Len(Frame(written[k])) \in Nat
      <4>1. starts \in Seq(Nat) /\ Len(starts) = Len(written) /\ Len(written) \in Nat
        BY <1>1, <1>2
      <4>2. \A k \in 1 .. Len(written) : starts[k] \in Nat
        BY ONLY <4>1
      <4>3. \A k \in 1 .. Len(written) : Len(Frame(written[k])) \in Nat
        <5>1. written \in Seq(Event)
          BY <1>1
        <5>2. \A k \in 1 .. Len(written) : written[k] \in Event
          BY ONLY <5>1
        <5> QED BY <5>2, FrameProperties
      <4> QED BY <4>2, <4>3
    <3>4. \A k \in 1 .. n : k = n \/ k < n
      BY <3>1
    <3>5. \A k \in 1 .. n : starts[k] + Len(Frame(written[k])) <= Len(wire)
      <4> HIDE DEF n
      <4> SUFFICES ASSUME NEW k \in 1 .. n
                   PROVE  starts[k] + Len(Frame(written[k])) <= Len(wire)
        OBVIOUS
      <4>1. /\ starts[k] \in Nat /\ Len(Frame(written[k])) \in Nat
            /\ starts[n] \in Nat /\ Len(Frame(written[n])) \in Nat
        BY <3>1, <3>3 DEF n
      <4>2. CASE k = n
        BY <4>1, <4>2, <3>1
      <4>3. CASE k < n
        <5>1. starts[k] + Len(Frame(written[k])) <= starts[n]
          BY <4>3, <3>2
        <5> QED BY <5>1, <4>1, <3>1
      <4> QED BY <4>2, <4>3, <3>4
    <3> QED BY <3>5
  <2> QED BY <2>1, <2>2
<1>8. WireOK'
  <2>1. written' # <<>> => /\ starts'[1] = 0
                          /\ wdone' <= Len(Frame(written'[Len(written')]))
                          /\ Len(wire') = starts'[Len(written')] + wdone'
    <3>1. starts'[1] = 0
      <4>1. CASE written = <<>>
        BY <4>1, <1>1, <1>2 DEF WireOK
      <4>2. CASE written # <<>>
        BY <4>2, <1>1, <1>2 DEF WireOK
      <4> QED BY <4>1, <4>2
    <3>2. Len(Frame(written'[Len(written')])) \in Nat
      BY <1>2, <1>6
    <3> QED BY <3>1, <3>2, <1>1, <1>2
  <2>2. \A k \in 1 .. Len(written') - 1 :
          starts'[k + 1] = starts'[k] + Len(Frame(written'[k]))
    <3> SUFFICES ASSUME NEW k \in 1 .. Len(written)
                 PROVE  starts'[k + 1] = starts[k] + Len(Frame(written[k]))
      BY <1>2
    <3>1. CASE k < Len(written)
      <4>1. starts[k + 1] = starts[k] + Len(Frame(written[k]))
        BY <3>1, <1>2 DEF WireOK
      <4>2. starts'[k + 1] = starts[k + 1]
        BY <3>1, <1>2
      <4> QED BY <4>1, <4>2
    <3>2. CASE k = Len(written)
      <4>1. /\ written # <<>>
            /\ wdone <= Len(Frame(written[k])) /\ ~(wdone < Len(Frame(written[k])))
            /\ Len(wire) = starts[k] + wdone
        BY <3>2, <1>1 DEF WireOK, BeginWrite, Writing
      <4>2. wdone \in Nat /\ Len(Frame(written[k])) \in Nat
        BY <1>2, <1>6 DEF TypeOK
      <4>3. wdone = Len(Frame(written[k]))
        BY <4>1, <4>2
      <4> QED BY <3>2, <4>1, <4>3, <1>2
    <3> QED BY <3>1, <3>2, <1>2
  <2>3. \A j, k \in 1 .. Len(written') :
          j < k => starts'[j] + Len(Frame(written'[j])) <= starts'[k]
    <3> SUFFICES ASSUME NEW j \in 1 .. Len(written'), NEW k \in 1 .. Len(written'), j < k
                 PROVE  starts'[j] + Len(Frame(written'[j])) <= starts'[k]
      OBVIOUS
    <3>1. j \in 1 .. Len(written) /\ starts'[j] = starts[j] /\ written'[j] = written[j]
      BY <1>2
    <3>2. CASE k = Len(written) + 1
      BY <3>1, <3>2, <1>2, <1>7
    <3>3. CASE k \in 1 .. Len(written)
      BY <3>1, <3>3, <1>2 DEF WireOK
    <3>4. k \in 1 .. (Len(written) + 1) /\ Len(written) \in Nat
      BY <1>2
    <3>5. k = Len(written) + 1 \/ k \in 1 .. Len(written)
      BY ONLY <3>4
    <3> QED BY ONLY <3>2, <3>3, <3>5
  <2>4. \A k \in 1 .. Len(written') : \A i \in 1 .. Len(Frame(written'[k])) :
          starts'[k] + i <= Len(wire') => wire'[starts'[k] + i] = Frame(written'[k])[i]
    <3> SUFFICES ASSUME NEW k \in 1 .. Len(written'), NEW i \in 1 .. Len(Frame(written'[k])),
                        starts'[k] + i <= Len(wire)
                 PROVE  wire[starts'[k] + i] = Frame(written'[k])[i]
      BY <1>1
    <3>1. k # Len(written) + 1
      BY <1>1, <1>2, <1>6
    <3>2. k \in 1 .. Len(written)
      BY <3>1, <1>2
    <3> QED BY <3>2, <1>2 DEF WireOK
  <2>5. written' = <<>> => wire' = <<>>
    BY <1>2
  <2> QED BY <2>1, <2>2, <2>3, <2>4, <2>5 DEF WireOK
<1>9. EofOK'
  BY <1>1 DEF EofOK, callVars
<1>10. SyncOK'
  <2> SUFFICES ASSUME synced PROVE SyncOK'
    BY <1>1 DEF SyncOK, callVars
  <2> DEFINE d == Len(delivered)
  <2>0. d \in Nat
    BY DEF TypeOK
  <2>1. /\ rc # "parse" /\ d <= Len(written)
        /\ \A k \in 1 .. d : delivered[k] = written[k]
        /\ d = Len(written) => mark = Len(wire)
        /\ d < Len(written) => mark = starts[d + 1]
    BY DEF SyncOK
  <2>2. UNCHANGED <<delivered, rc, mark, synced, rphase, acc, hdr, block, kpos, buf, pos>>
    BY <1>1 DEF callVars, bufVars
  <2>3. /\ rphase = "line" => Cursor - Len(acc) = mark
        /\ InBlock => /\ d < Len(written)
                      /\ hdr = Fields(written[d + 1])
                      /\ Cursor - Len(acc) = mark + Consumed(written[d + 1])
        /\ rphase = "payload" => block = written[d + 1].data
    BY DEF SyncOK
  <2> HIDE DEF d
  <2>4. d < Len(written') /\ mark = starts'[d + 1]
    BY <2>0, <2>1, <1>2
  <2>5. \A k \in 1 .. d : delivered[k] = written'[k]
    BY <2>0, <2>1, <1>2
  <2>6. InBlock => written'[d + 1] = written[d + 1]
    <3>1. Len(written) \in Nat /\ (InBlock => d < Len(written))
      BY <2>3, <1>2
    <3>2. InBlock => d + 1 \in 1 .. Len(written)
      BY ONLY <2>0, <3>1
    <3>3. \A k \in 1 .. Len(written) : written'[k] = written[k]
      BY <1>2
    <3> QED BY ONLY <3>2, <3>3
  <2>7. rphase = "payload" => InBlock
    BY DEF InBlock
  <2> QED
    BY <2>0, <2>1, <2>2, <2>3, <2>4, <2>5, <2>6, <2>7, <1>2
    DEF SyncOK, d, Consumed, Cursor, InBlock
<1> QED BY <1>3, <1>4, <1>5, <1>8, <1>9, <1>10

\* One write() of write_all extends the frame being written
\* (event.c:228-242): the invariant is preserved.
LEMMA WriteSomeStep ==
  ASSUME IndInv, NEW n \in 1 .. SockBuf, WriteSome(n)
  PROVE  IndInv'
<1> USE DEF IndInv
<1> DEFINE last == Len(written)
           f == Frame(written[last])
<1>1. /\ written \in Seq(Event) /\ written # <<>> /\ last \in 1 .. Len(written)
      /\ f \in Seq(Byte) /\ wdone \in Nat /\ n \in Nat /\ wdone + n <= Len(f)
  <2>1. written # <<>> /\ written \in Seq(Event) /\ wdone \in Nat
    BY DEF TypeOK, WriteSome, Writing
  <2>2. written[Len(written)] \in Event /\ last \in 1 .. Len(written)
    BY <2>1
  <2>3. wdone < Len(f) /\ (wdone < Len(f) => wdone + n <= Len(f))
    BY DEF WriteSome, Writing, SegmentEnds
  <2> QED BY <2>1, <2>2, <2>3, FrameProperties, SizeAssumption
<1>2. /\ wire' = wire \o SubSeq(f, wdone + 1, wdone + n) /\ wdone' = wdone + n
      /\ conn = "open" /\ Writing
      /\ UNCHANGED <<conn, written, starts, kpos, buf, pos, rphase, acc, hdr, block,
                     delivered, rc, mark, synced>>
  BY DEF WriteSome, bufVars, callVars
<1>3. /\ starts \in Seq(Nat) /\ Len(starts) = Len(written)
      /\ wire \in Seq(Byte) /\ Len(wire) \in Nat
      /\ Len(wire) = starts[last] + wdone
      /\ starts[last] \in Nat
  <2>1. /\ starts \in Seq(Nat) /\ Len(starts) = Len(written)
        /\ wire \in Seq(Byte) /\ Len(wire) \in Nat
    BY DEF TypeOK
  <2>2. last \in 1 .. Len(written) /\ written # <<>>
    BY <1>1
  <2>3. Len(wire) = starts[last] + wdone
    BY <2>2 DEF WireOK
  <2> HIDE DEF last
  <2>4. starts[last] \in Nat
    BY ONLY <2>1, <2>2
  <2> QED BY <2>1, <2>3, <2>4
<1>4. /\ wire' \in Seq(Byte) /\ Len(wire') = Len(wire) + n
      /\ \A i \in 1 .. Len(wire) : wire'[i] = wire[i]
      /\ \A i \in 1 .. n : wire'[Len(wire) + i] = f[wdone + i]
  <2> HIDE DEF f
  <2>1. wire \in Seq(Byte) /\ f \in Seq(Byte) /\ wdone \in Nat /\ n \in Nat /\ wdone + n <= Len(f)
    BY <1>1, <1>3
  <2>2. wire' = wire \o SubSeq(f, wdone + 1, wdone + n)
    BY <1>2
  <2> QED BY <2>1, <2>2, ExtendFacts
<1>5. TypeOK'
  <2>1. /\ wire' \in Seq(Byte) /\ wdone' \in Nat
        /\ kpos' \in 0 .. Len(wire')
    <3>1. kpos \in 0 .. Len(wire)
      BY DEF TypeOK
    <3>2. kpos' = kpos /\ wdone' = wdone + n
      BY <1>2
    <3>3. n \in Nat /\ wdone \in Nat /\ Len(wire) \in Nat
      BY <1>1, <1>3
    <3>4. wire' \in Seq(Byte) /\ Len(wire') = Len(wire) + n
      BY <1>4
    <3> HIDE DEF f, last
    <3> QED BY ONLY <3>1, <3>2, <3>3, <3>4
  <2> QED BY <1>2, <2>1 DEF TypeOK
<1>6. BytesInOrder'
  <2>1. kpos \in 0 .. Len(wire) /\ pos \in 0 .. Len(buf) /\ Len(buf) \in Nat /\ Len(acc) \in Nat
    BY DEF TypeOK
  <2>2. /\ Len(buf) <= ReadBufSize /\ Len(acc) <= Cursor
        /\ Cursor \in 0 .. Len(wire) /\ Len(wire) \in Nat
        /\ kpos - Len(buf) + pos \in Nat
    BY <1>3, <2>1 DEF BytesInOrder, Cursor
  <2>3. \A i \in (pos + 1) .. Len(buf) : wire'[kpos - Len(buf) + i] = buf[i]
    <3> TAKE i \in (pos + 1) .. Len(buf)
    <3>1. kpos - Len(buf) + i \in 1 .. Len(wire)
      BY <2>1, <2>2
    <3>2. buf[i] = wire[kpos - Len(buf) + i]
      BY DEF BytesInOrder
    <3> QED BY <3>1, <3>2, <1>4
  <2>4. \A i \in 1 .. Len(acc) : wire'[Cursor - Len(acc) + i] = acc[i]
    <3> TAKE i \in 1 .. Len(acc)
    <3>1. Cursor - Len(acc) + i \in 1 .. Len(wire)
      BY <2>1, <2>2
    <3>2. acc[i] = wire[Cursor - Len(acc) + i]
      BY DEF BytesInOrder
    <3> QED BY <3>1, <3>2, <1>4
  <2>5. Cursor' = Cursor
    BY <1>2 DEF Cursor
  <2> QED BY <1>2, <2>2, <2>3, <2>4, <2>5 DEF BytesInOrder
<1>7. PhaseOK'
  BY <1>2 DEF PhaseOK, Cursor, InBlock, Count
<1>8. WireOK'
  <2>1. \A k \in 1 .. Len(written) : \A i \in 1 .. Len(Frame(written[k])) :
          starts[k] + i <= Len(wire') => wire'[starts[k] + i] = Frame(written[k])[i]
    <3> SUFFICES ASSUME NEW k \in 1 .. Len(written),
                        NEW i \in 1 .. Len(Frame(written[k])),
                        starts[k] + i <= Len(wire')
                 PROVE  wire'[starts[k] + i] = Frame(written[k])[i]
      OBVIOUS
    <3>1. /\ starts[k] \in Nat /\ Len(Frame(written[k])) \in Nat
          /\ Frame(written[k]) \in Seq(Byte)
      <4>a. written \in Seq(Event) /\ starts \in Seq(Nat) /\ Len(starts) = Len(written)
        BY <1>1, <1>3
      <4>1. written[k] \in Event /\ starts[k] \in Nat
        BY <4>a
      <4>2. Frame(written[k]) \in Seq(Byte)
        BY <4>1, FrameProperties
      <4> QED BY <4>1, <4>2
    <3>2. CASE starts[k] + i <= Len(wire)
      <4>1. wire[starts[k] + i] = Frame(written[k])[i]
        BY <3>2 DEF WireOK
      <4>2. starts[k] + i \in 1 .. Len(wire)
        BY <3>1, <3>2, <1>3
      <4>3. \A j \in 1 .. Len(wire) : wire'[j] = wire[j]
        BY <1>4
      <4> QED BY ONLY <4>1, <4>2, <4>3
    <3>3. CASE starts[k] + i > Len(wire)
      <4>1. k = last
        <5>1. k < last => starts[k] + Len(Frame(written[k])) <= starts[last]
          BY <1>1 DEF WireOK
        <5>2. /\ k \in 1 .. Len(written) /\ Len(written) \in Nat
              /\ last = Len(written) /\ starts[last] \in Nat /\ wdone \in Nat
              /\ Len(wire) = starts[last] + wdone
          BY <1>1, <1>3
        <5>3. i \in 1 .. Len(Frame(written[k]))
          OBVIOUS
        <5> HIDE DEF last
        <5>4. ~(k < last)
          <6>1. starts[k] + i <= starts[k] + Len(Frame(written[k]))
            BY ONLY <5>3, <3>1
          <6>2. starts[last] <= Len(wire) /\ starts[k] + i > Len(wire) /\ Len(wire) \in Nat
            BY ONLY <5>2, <3>3
          <6>3. starts[k] + i \in Nat /\ starts[k] + Len(Frame(written[k])) \in Nat
            BY ONLY <5>3, <3>1
          <6>4. starts[last] \in Nat
            BY ONLY <5>2
          <6> QED BY ONLY <5>1, <6>1, <6>2, <6>3, <6>4
        <5>5. k \in 1 .. last /\ last \in Nat
          BY ONLY <5>2
        <5> QED BY ONLY <5>4, <5>5
      <4>2. /\ i - wdone \in 1 .. n
            /\ starts[k] + i = Len(wire) + (i - wdone)
            /\ wdone + (i - wdone) = i
        <5>1. /\ starts[last] \in Nat /\ Len(wire) = starts[last] + wdone /\ wdone \in Nat
              /\ n \in Nat /\ Len(wire') = Len(wire) + n
          BY <1>1, <1>3, <1>4
        <5>2. /\ starts[last] + i > Len(wire) /\ starts[last] + i <= Len(wire')
              /\ i \in Nat
          BY <4>1, <3>1, <3>3
        <5> HIDE DEF last
        <5>3. starts[k] = starts[last]
          BY <4>1
        <5> QED BY <5>1, <5>2, <5>3
      <4> QED BY <4>1, <4>2, <1>4
    <3> QED BY <3>1, <3>2, <3>3, <1>3
  <2>2. wdone' <= Len(Frame(written[last])) /\ Len(wire') = starts[last] + wdone'
    BY <1>1, <1>2, <1>3, <1>4
  <2> QED BY <1>1, <1>2, <2>1, <2>2 DEF WireOK
<1>9. EofOK'
  BY <1>2 DEF EofOK
<1>10. SyncOK'
  BY <1>2 DEF SyncOK, Writing, Cursor, InBlock, Consumed
<1> QED BY <1>5, <1>6, <1>7, <1>8, <1>9, <1>10

\* The end of the connection changes no byte: the invariant is preserved.
LEMMA ConnStep ==
  ASSUME IndInv, Close \/ Reset
  PROVE  IndInv'
<1> USE DEF IndInv
<1>1. /\ UNCHANGED <<wire, written, starts, wdone, kpos, buf, pos, rphase, acc, hdr,
                     block, delivered, rc, mark, synced>>
      /\ conn' \in {"closed", "reset"}
  BY DEF Close, Reset, bufVars, callVars, writerVars
<1>2. TypeOK'
  BY <1>1 DEF TypeOK
<1>3. BytesInOrder' /\ PhaseOK'
  BY <1>1 DEF BytesInOrder, PhaseOK, Cursor, InBlock, Count
<1>4. WireOK'
  BY <1>1 DEF WireOK
<1>5. SyncOK' /\ EofOK'
  BY <1>1 DEF SyncOK, EofOK, Writing, Cursor, InBlock, Consumed
<1> QED BY <1>2, <1>3, <1>4, <1>5

\* Entering wyoming_event_read_iobuf preserves the invariant.
LEMMA CallStep ==
  ASSUME IndInv, Call
  PROVE  IndInv'
<1> USE DEF IndInv
<1>1. /\ UNCHANGED <<conn, wire, written, starts, wdone, kpos, buf, pos, acc, hdr,
                     block, delivered, rc, mark, synced>>
      /\ rphase = "idle" /\ rphase' = "line"
      /\ acc = <<>> /\ Len(acc) = 0 /\ mark = Cursor
  BY DEF Call, bufVars, writerVars, PhaseOK
<1>2. TypeOK'
  BY <1>1 DEF TypeOK
<1>3. BytesInOrder' /\ PhaseOK'
  BY <1>1 DEF BytesInOrder, PhaseOK, Cursor, InBlock
<1>4. WireOK' /\ EofOK'
  BY <1>1 DEF WireOK, EofOK
<1>5. SyncOK'
  <2>1. Cursor' = Cursor /\ Cursor - 0 = mark
    BY <1>1 DEF TypeOK, Cursor
  <2> QED BY <1>1, <2>1 DEF SyncOK, Writing, InBlock
<1> QED BY <1>2, <1>3, <1>4, <1>5

\* Refilling the exhausted iobuf (event.c:69-77) preserves the invariant.
LEMMA FillStep ==
  ASSUME IndInv, NEW n \in 1 .. ReadBufSize, Fill(n)
  PROVE  IndInv'
<1> USE DEF IndInv
<1>1. /\ wire \in Seq(Byte) /\ kpos \in Nat /\ n \in Nat /\ kpos + n <= Len(wire)
      /\ n <= ReadBufSize /\ n > 0 /\ Len(wire) \in Nat
      /\ kpos' = kpos + n /\ pos' = 0 /\ pos = Len(buf) /\ rphase = "line"
      /\ UNCHANGED <<conn, wire, written, starts, wdone, rphase, acc, hdr,
                     block, delivered, rc, mark, synced>>
  BY SizeAssumption DEF TypeOK, Fill, Unread, writerVars, callVars
<1>2. /\ buf' \in Seq(Byte) /\ Len(buf') = n
      /\ \A i \in 1 .. n : buf'[i] = wire[kpos + i]
  BY <1>1, SubSeqFacts DEF Fill
<1>3. Cursor' = Cursor /\ Cursor = kpos /\ Len(buf) \in Nat
  BY <1>1, <1>2 DEF Cursor, TypeOK
<1>4. TypeOK'
  BY <1>1, <1>2 DEF TypeOK
<1>5. BytesInOrder'
  <2>1. \A i \in (pos' + 1) .. Len(buf') : buf'[i] = wire'[kpos' - Len(buf') + i]
    <3> TAKE i \in (pos' + 1) .. Len(buf')
    <3>1. i \in 1 .. n /\ kpos' - Len(buf') + i = kpos + i
      BY <1>1, <1>2
    <3> QED BY <3>1, <1>1, <1>2
  <2> QED BY <2>1, <1>1, <1>2, <1>3 DEF BytesInOrder
<1>6. PhaseOK' /\ WireOK' /\ EofOK'
  BY <1>1, <1>3 DEF PhaseOK, WireOK, EofOK, InBlock, Count
<1>7. SyncOK'
  BY <1>1, <1>3 DEF SyncOK, Writing, InBlock
<1> QED BY <1>4, <1>5, <1>6, <1>7

\* A step that moves the next k bytes of the stream to the end of acc.
Advance(k) ==
  /\ rphase # "idle"
  /\ UNCHANGED <<conn, wire, written, starts, wdone, rphase, hdr, block,
                 delivered, rc, mark, synced>>
  /\ acc' \in Seq(Byte) /\ Len(acc') = Len(acc) + k
  /\ \A i \in 1 .. Len(acc) : acc'[i] = acc[i]
  /\ \A i \in 1 .. k : acc'[Len(acc) + i] = wire[Cursor + i]
  /\ rphase = "line" => \A i \in 1 .. k : acc'[Len(acc) + i] # NL
  /\ InBlock => Len(acc) + k <= Count
  /\ Cursor' = Cursor + k
  /\ kpos' \in 0 .. Len(wire) /\ buf' \in Seq(Byte) /\ pos' \in 0 .. Len(buf')
  /\ Len(buf') <= ReadBufSize
  /\ \A i \in (pos' + 1) .. Len(buf') : buf'[i] = wire[kpos' - Len(buf') + i]

\* A step that advances the reader over bytes of the wire preserves the
\* invariant, wherever the bytes came from.
LEMMA AdvanceStep ==
  ASSUME IndInv, NEW k \in Nat, Advance(k)
  PROVE  IndInv'
<1> USE DEF IndInv
<1>1. /\ Len(acc) \in Nat /\ Cursor \in Nat /\ Len(acc) <= Cursor
      /\ Len(acc') = Len(acc) + k /\ Cursor' = Cursor + k
  <2>1. Len(acc') = Len(acc) + k /\ Cursor' = Cursor + k
    BY DEF Advance
  <2>2. Len(acc) \in Nat /\ Len(buf) \in Nat /\ pos \in 0 .. Len(buf) /\ kpos \in Nat
    BY DEF TypeOK
  <2>3. Len(acc) <= Cursor
    BY DEF BytesInOrder
  <2>4. Cursor \in Int
    BY <2>2 DEF Cursor
  <2> QED BY <2>1, <2>2, <2>3, <2>4
<1>2. TypeOK'
  BY DEF TypeOK, Advance
<1>3. BytesInOrder'
  <2>1. \A i \in 1 .. Len(acc') : acc'[i] = wire[Cursor' - Len(acc') + i]
    <3> TAKE i \in 1 .. Len(acc')
    <3>1. CASE i <= Len(acc)
      <4>1. i \in 1 .. Len(acc) /\ Cursor' - Len(acc') + i = Cursor - Len(acc) + i
        BY <3>1, <1>1
      <4>2. acc'[i] = acc[i]
        BY <4>1 DEF Advance
      <4>3. acc[i] = wire[Cursor - Len(acc) + i]
        BY <4>1 DEF BytesInOrder
      <4> QED BY <4>1, <4>2, <4>3
    <3>2. CASE i > Len(acc)
      <4>1. PICK j \in 1 .. k : i = Len(acc) + j
        BY <3>2, <1>1
      <4>2. Cursor' - Len(acc') + i = Cursor + j
        BY <4>1, <1>1
      <4> QED BY <4>1, <4>2 DEF Advance
    <3> QED BY <3>1, <3>2, <1>1
  <2>2. Len(acc') <= Cursor'
    BY <1>1
  <2>3. wire' = wire
    BY DEF Advance
  <2>4. /\ Len(buf') <= ReadBufSize
        /\ \A i \in (pos' + 1) .. Len(buf') : buf'[i] = wire[kpos' - Len(buf') + i]
    BY DEF Advance
  <2> QED BY <2>1, <2>2, <2>3, <2>4 DEF BytesInOrder
<1>4. PhaseOK'
  <2>1. rphase' = "line" => \A i \in 1 .. Len(acc') : acc'[i] # NL
    <3> SUFFICES ASSUME rphase = "line", NEW i \in 1 .. Len(acc') PROVE acc'[i] # NL
      BY DEF Advance
    <3>1. CASE i \in 1 .. Len(acc)
      BY <3>1 DEF PhaseOK, Advance
    <3>2. CASE i > Len(acc)
      <4>1. i - Len(acc) \in 1 .. k /\ i = Len(acc) + (i - Len(acc))
        BY <3>2, <1>1
      <4> QED BY <4>1 DEF Advance
    <3> QED BY <3>1, <3>2, <1>1
  <2>2. InBlock' => hdr' \in HeaderFields /\ Len(acc') <= Count'
    BY <1>1 DEF PhaseOK, InBlock, Count, Advance
  <2>3. rphase' # "idle"
    BY DEF Advance
  <2> QED BY <2>1, <2>2, <2>3 DEF PhaseOK
<1>5. WireOK' /\ EofOK'
  BY DEF WireOK, EofOK, Advance
<1>6. SyncOK'
  <2>1. Cursor' - Len(acc') = Cursor - Len(acc)
    BY <1>1
  <2> QED BY <2>1 DEF SyncOK, Writing, InBlock, Consumed, Advance
<1> QED BY <1>2, <1>3, <1>4, <1>5, <1>6

\* Keeping an unfinished line (event.c:54-67) preserves the invariant.
LEMMA SaveStep ==
  ASSUME IndInv, Save
  PROVE  IndInv'
<1> USE DEF IndInv
<1> DEFINE k == Len(buf) - pos
<1>1. /\ k \in Nat /\ pos \in Nat /\ pos + k = Len(buf) /\ pos + k <= Len(buf)
      /\ Len(acc) \in Nat /\ acc \in Seq(Byte) /\ buf \in Seq(Byte) /\ Len(buf) \in Nat
      /\ kpos \in 0 .. Len(wire)
      /\ acc' = acc \o SubSeq(buf, pos + 1, pos + k)
      /\ buf' = <<>> /\ pos' = 0 /\ kpos' = kpos
      /\ UNCHANGED <<conn, wire, written, starts, wdone, rphase, hdr, block,
                     delivered, rc, mark, synced>>
      /\ rphase = "line"
      /\ \A i \in (pos + 1) .. Len(buf) : buf[i] # NL
      /\ \A i \in (pos + 1) .. Len(buf) : buf[i] = wire[kpos - Len(buf) + i]
  <2>1. /\ pos \in Nat /\ Len(buf) \in Nat /\ pos <= Len(buf)
    BY DEF TypeOK
  <2>2. k \in Nat /\ pos + k = Len(buf)
    BY <2>1
  <2>3. \A i \in (pos + 1) .. Len(buf) : buf[i] # NL /\ buf[i] = wire[kpos - Len(buf) + i]
    BY DEF Save, HasNewline, BytesInOrder
  <2>4. acc' = acc \o SubSeq(buf, pos + 1, pos + k)
    BY <2>2 DEF Save
  <2> HIDE DEF k
  <2>5. pos + k <= Len(buf)
    BY <2>1, <2>2
  <2>6. /\ Len(acc) \in Nat /\ acc \in Seq(Byte) /\ buf \in Seq(Byte)
        /\ kpos \in 0 .. Len(wire)
    BY DEF TypeOK
  <2>7. /\ buf' = <<>> /\ pos' = 0 /\ kpos' = kpos /\ rphase = "line"
        /\ UNCHANGED <<conn, wire, written, starts, wdone, rphase, hdr, block,
                       delivered, rc, mark, synced>>
    BY DEF Save, writerVars
  <2> QED BY <2>1, <2>2, <2>3, <2>4, <2>5, <2>6, <2>7
<1>2. Cursor = kpos - k /\ Cursor' = kpos
  <2>1. Len(buf') = 0
    BY <1>1
  <2> QED BY <1>1, <2>1 DEF Cursor
<1> HIDE DEF k
<1>3. /\ acc' \in Seq(Byte) /\ Len(acc') = Len(acc) + k
      /\ \A i \in 1 .. Len(acc) : acc'[i] = acc[i]
      /\ \A i \in 1 .. k : acc'[Len(acc) + i] = buf[pos + i]
  <2>1. /\ k \in Nat /\ pos \in Nat /\ pos + k <= Len(buf)
        /\ acc \in Seq(Byte) /\ buf \in Seq(Byte)
        /\ acc' = acc \o SubSeq(buf, pos + 1, pos + k)
    BY <1>1
  <2> QED BY <2>1, ExtendFacts
<1>4. \A i \in 1 .. k : buf[pos + i] # NL /\ buf[pos + i] = wire[Cursor + i]
  <2> TAKE i \in 1 .. k
  <2>0. kpos \in Nat /\ k \in Nat /\ pos \in Nat /\ Len(buf) = pos + k
    BY <1>1
  <2>1. pos + i \in (pos + 1) .. Len(buf) /\ kpos - Len(buf) + (pos + i) = Cursor + i
    BY <2>0, <1>2
  <2> QED BY <2>1, <1>1
<1>5. Advance(k)
  <2>1. /\ buf' \in Seq(Byte) /\ Len(buf') = 0 /\ pos' \in 0 .. Len(buf')
        /\ Len(buf') <= ReadBufSize
        /\ \A i \in (pos' + 1) .. Len(buf') : buf'[i] = wire[kpos' - Len(buf') + i]
    BY <1>1, SizeAssumption
  <2>2. Cursor' = Cursor + k
    BY <1>1, <1>2
  <2> QED BY <1>1, <1>3, <1>4, <2>1, <2>2 DEF Advance, InBlock
<1> QED BY <1>1, <1>5, AdvanceStep

\* Taking block bytes from the iobuf (event.c:95-102) preserves the
\* invariant.
LEMMA DrainStep ==
  ASSUME IndInv, Drain
  PROVE  IndInv'
<1> USE DEF IndInv
<1>1. PICK k \in Nat : /\ k <= Len(buf) - pos /\ k <= Count - Len(acc)
                       /\ acc' = acc \o SubSeq(buf, pos + 1, pos + k)
                       /\ pos' = pos + k
  <2> DEFINE avail == Len(buf) - pos
             left  == Count - Len(acc)
             take  == IF avail < left THEN avail ELSE left
  <2>1. /\ acc' = acc \o SubSeq(buf, pos + 1, pos + take) /\ pos' = pos + take
    BY DEF Drain
  <2>2. hdr \in HeaderFields /\ Len(acc) < Count /\ Count \in Nat
    BY LengthAssumption DEF PhaseOK, Drain, HeaderFields, Count
  <2>3. avail \in Nat /\ left \in Nat
    BY <2>2 DEF TypeOK
  <2> HIDE DEF avail, left
  <2>4. take \in Nat /\ take <= avail /\ take <= left
    BY <2>3
  <2> HIDE DEF take
  <2> QED BY <2>1, <2>4 DEF avail, left
<1>2. /\ pos \in Nat /\ Len(buf) \in Nat /\ pos <= Len(buf) /\ Len(acc) \in Nat
      /\ acc \in Seq(Byte) /\ buf \in Seq(Byte) /\ pos + k <= Len(buf)
      /\ kpos \in 0 .. Len(wire) /\ Count \in Nat
      /\ UNCHANGED <<conn, wire, written, starts, wdone, kpos, buf, rphase, hdr, block,
                     delivered, rc, mark, synced>>
      /\ InBlock
  <2>1. hdr \in HeaderFields /\ Count \in Nat
    BY LengthAssumption DEF PhaseOK, Drain, HeaderFields, Count
  <2> QED BY <1>1, <2>1 DEF TypeOK, Drain, writerVars
<1>3. /\ acc' \in Seq(Byte) /\ Len(acc') = Len(acc) + k
      /\ \A i \in 1 .. Len(acc) : acc'[i] = acc[i]
      /\ \A i \in 1 .. k : acc'[Len(acc) + i] = buf[pos + i]
  <2>1. /\ k \in Nat /\ pos \in Nat /\ pos + k <= Len(buf)
        /\ acc \in Seq(Byte) /\ buf \in Seq(Byte)
        /\ acc' = acc \o SubSeq(buf, pos + 1, pos + k)
    BY <1>1, <1>2
  <2>2. PICK x : x = acc'
    OBVIOUS
  <2>3. x = acc \o SubSeq(buf, pos + 1, pos + k)
    BY <2>1, <2>2
  <2>4. /\ x \in Seq(Byte) /\ Len(x) = Len(acc) + k
        /\ \A i \in 1 .. Len(acc) : x[i] = acc[i]
        /\ \A i \in 1 .. k : x[Len(acc) + i] = buf[pos + i]
    BY <2>1, <2>3, ExtendFacts
  <2> QED BY <2>2, <2>4
<1>4. Cursor' = Cursor + k /\ Cursor = kpos - (Len(buf) - pos)
  BY <1>1, <1>2 DEF Cursor
<1>5. \A i \in (pos + 1) .. Len(buf) : buf[i] = wire[kpos - Len(buf) + i]
  BY DEF BytesInOrder
<1>6. \A i \in 1 .. k : buf[pos + i] = wire[Cursor + i]
  <2> TAKE i \in 1 .. k
  <2>1. pos + i \in (pos + 1) .. Len(buf) /\ kpos - Len(buf) + (pos + i) = Cursor + i
    BY <1>2, <1>4
  <2> QED BY <2>1, <1>5
<1>7. Advance(k)
  <2>1. /\ pos' \in 0 .. Len(buf')
        /\ \A i \in (pos' + 1) .. Len(buf') : i \in (pos + 1) .. Len(buf)
    BY <1>1, <1>2
  <2>2. \A i \in (pos' + 1) .. Len(buf') : buf'[i] = wire[kpos' - Len(buf') + i]
    BY <2>1, <1>2, <1>5
  <2>3. Len(buf') <= ReadBufSize /\ Len(acc) + k <= Count
    BY <1>1, <1>2 DEF BytesInOrder
  <2>4. rphase \notin {"idle", "line"}
    BY <1>2 DEF InBlock
  <2>5. kpos' \in 0 .. Len(wire) /\ buf' \in Seq(Byte)
    BY <1>2
  <2>6. \A i \in 1 .. k : acc'[Len(acc) + i] = wire[Cursor + i]
    BY <1>3, <1>6
  <2> QED BY <1>2, <1>3, <1>4, <2>1, <2>2, <2>3, <2>4, <2>5, <2>6 DEF Advance
<1> QED BY <1>7, AdvanceStep

\* Reading block bytes past the iobuf (event.c:104-108) preserves the
\* invariant.
LEMMA ReadDirectStep ==
  ASSUME IndInv, NEW n \in 1 .. SockBuf, ReadDirect(n)
  PROVE  IndInv'
<1> USE DEF IndInv
<1>1. /\ n \in Nat /\ kpos \in Nat /\ Len(wire) \in Nat /\ kpos + n <= Len(wire)
      /\ n <= Count - Len(acc) /\ Len(acc) \in Nat
      /\ wire \in Seq(Byte) /\ acc \in Seq(Byte) /\ buf \in Seq(Byte)
      /\ pos = Len(buf) /\ Len(buf) \in Nat /\ kpos' = kpos + n
      /\ acc' = acc \o SubSeq(wire, kpos + 1, kpos + n)
      /\ UNCHANGED <<conn, wire, written, starts, wdone, buf, pos, rphase, hdr, block,
                     delivered, rc, mark, synced>>
      /\ InBlock
  BY SizeAssumption DEF TypeOK, ReadDirect, AtRead, Unread, writerVars
<1>2. Count \in Nat
  BY <1>1, LengthAssumption DEF PhaseOK, HeaderFields, Count
<1>3. /\ acc' \in Seq(Byte) /\ Len(acc') = Len(acc) + n
      /\ \A i \in 1 .. Len(acc) : acc'[i] = acc[i]
      /\ \A i \in 1 .. n : acc'[Len(acc) + i] = wire[kpos + i]
  <2>1. /\ n \in Nat /\ kpos \in Nat /\ kpos + n <= Len(wire)
        /\ acc \in Seq(Byte) /\ wire \in Seq(Byte)
        /\ acc' = acc \o SubSeq(wire, kpos + 1, kpos + n)
    BY <1>1
  <2> QED BY <2>1, ExtendFacts
<1>4. Cursor = kpos /\ Cursor' = kpos + n
  BY <1>1 DEF Cursor
<1>5. Advance(n)
  <2>1. /\ kpos' \in 0 .. Len(wire) /\ pos' \in 0 .. Len(buf') /\ buf' \in Seq(Byte)
        /\ (pos' + 1) .. Len(buf') = {}
    BY <1>1
  <2>2. Len(buf') <= ReadBufSize /\ Len(acc) + n <= Count
    BY <1>1, <1>2 DEF BytesInOrder
  <2>3. rphase \notin {"idle", "line"}
    BY <1>1 DEF InBlock
  <2>4. Cursor' = Cursor + n /\ \A i \in 1 .. n : acc'[Len(acc) + i] = wire[Cursor + i]
    BY <1>3, <1>4
  <2> QED BY <1>1, <1>3, <2>1, <2>2, <2>3, <2>4 DEF Advance
<1> QED BY <1>1, <1>5, AdvanceStep

\* A failing call.  A parse error must find the reader out of step.
LEMMA FailStep ==
  ASSUME IndInv, NEW code \in {"eof", "io", "parse", "nomem"}, Fail(code),
         UNCHANGED <<conn, wire, written, starts, wdone>>,
         kpos' = kpos, buf' \in Seq(Byte), pos' \in 0 .. Len(buf'),
         Len(buf') <= ReadBufSize, Cursor' \in Nat,
         \A i \in (pos' + 1) .. Len(buf') : buf'[i] = wire[kpos - Len(buf') + i],
         code = "parse" => ~synced,
         code = "eof" => conn # "open" /\ Cursor' = Len(wire)
  PROVE  IndInv'
<1> USE DEF IndInv
<1>1. /\ rphase' = "idle" /\ rc' = code /\ acc' = <<>> /\ hdr' = NoHeader /\ block' = <<>>
      /\ mark' = Cursor' /\ delivered' = delivered
      /\ synced' = (synced /\ (code = "parse" \/ Cursor' = mark))
  BY DEF Fail, Return
<1>2. Len(acc') = 0 /\ acc' \in Seq(Byte)
  BY <1>1
<1>3. TypeOK'
  BY <1>1, <1>2 DEF TypeOK, RCodes
<1>4. BytesInOrder'
  <2>1. Len(acc') <= Cursor' /\ wire' = wire /\ 1 .. Len(acc') = {}
    BY <1>2
  <2> QED BY <2>1 DEF BytesInOrder
<1>5. PhaseOK' /\ WireOK'
  BY <1>1 DEF PhaseOK, WireOK, InBlock
<1>6. EofOK'
  BY <1>1 DEF EofOK
<1>7. SyncOK'
  <2> SUFFICES ASSUME synced' PROVE SyncOK'
    BY DEF SyncOK
  <2>1. synced /\ mark' = mark /\ rc' # "parse"
    BY <1>1 DEF TypeOK
  <2> QED BY <1>1, <2>1 DEF SyncOK, Writing, InBlock
<1> QED BY <1>3, <1>4, <1>5, <1>6, <1>7

\* A failed allocation preserves the invariant.
LEMMA NoMemStep ==
  ASSUME IndInv, NoMem
  PROVE  IndInv'
<1> USE DEF IndInv
<1>1. /\ Fail("nomem") /\ UNCHANGED <<conn, wire, written, starts, wdone, kpos, buf, pos>>
  BY DEF NoMem, writerVars, bufVars
<1>2. Cursor' \in Nat
  BY <1>1 DEF TypeOK, BytesInOrder, Cursor
<1>3. /\ buf' \in Seq(Byte) /\ pos' \in 0 .. Len(buf') /\ Len(buf') <= ReadBufSize
      /\ \A i \in (pos' + 1) .. Len(buf') : buf'[i] = wire[kpos - Len(buf') + i]
  BY <1>1 DEF TypeOK, BytesInOrder
<1> QED BY <1>1, <1>2, <1>3, FailStep

\* So does an allocation that fails in cJSON_Parse (event.c:155, 200).
LEMMA ParseNoMemStep ==
  ASSUME IndInv, ParseNoMem
  PROVE  IndInv'
<1> USE DEF IndInv
<1>1. /\ UNCHANGED <<conn, wire, written, starts, wdone, kpos, buf, pos, delivered>>
      /\ rphase' = "idle" /\ rc' = "parse" /\ acc' = <<>> /\ hdr' = NoHeader
      /\ block' = <<>> /\ mark' = Cursor' /\ synced' = FALSE
  BY DEF ParseNoMem, Return, writerVars, bufVars
<1>2. Cursor' = Cursor /\ Cursor \in Nat
  BY <1>1 DEF TypeOK, BytesInOrder, Cursor
<1>3. Len(acc') = 0 /\ acc' \in Seq(Byte)
  BY <1>1
<1>4. TypeOK'
  BY <1>1, <1>2, <1>3 DEF TypeOK, RCodes
<1>5. BytesInOrder'
  <2>1. Len(acc') <= Cursor' /\ 1 .. Len(acc') = {}
    BY <1>2, <1>3
  <2> QED BY <1>1, <2>1 DEF BytesInOrder
<1>6. PhaseOK' /\ WireOK'
  BY <1>1 DEF PhaseOK, WireOK, InBlock
<1>7. SyncOK' /\ EofOK'
  BY <1>1 DEF SyncOK, EofOK
<1> QED BY <1>4, <1>5, <1>6, <1>7

\* A failed read() (event.c:78-86, 109-113) preserves the invariant.
LEMMA ReadErrorStep ==
  ASSUME IndInv, NEW code \in {"eof", "io"}, ReadError(code),
         code = "eof" => conn = "closed" /\ Unread = 0
  PROVE  IndInv'
<1> USE DEF IndInv
<1>1. /\ Fail(code) /\ UNCHANGED <<conn, wire, written, starts, wdone, kpos>>
      /\ pos = Len(buf)
      /\ (buf' = <<>> /\ pos' = 0) \/ UNCHANGED <<buf, pos>>
  BY DEF ReadError, writerVars, AtRead
<1>2. /\ buf' \in Seq(Byte) /\ Len(buf') \in Nat /\ pos' = Len(buf') /\ pos' \in 0 .. Len(buf')
      /\ Len(buf') <= ReadBufSize
  <2>1. CASE buf' = <<>> /\ pos' = 0
    <3>1. buf' \in Seq(Byte) /\ Len(buf') = 0
      BY <2>1
    <3> QED BY <3>1, <2>1, SizeAssumption
  <2>2. CASE UNCHANGED <<buf, pos>>
    BY <2>2, <1>1 DEF TypeOK, BytesInOrder
  <2> QED BY <1>1, <2>1, <2>2
<1>3. Cursor' = kpos /\ kpos \in Nat
  BY <1>1, <1>2 DEF Cursor, TypeOK
<1>4. \A i \in (pos' + 1) .. Len(buf') : buf'[i] = wire[kpos - Len(buf') + i]
  BY <1>2
<1>5. code = "eof" => conn # "open" /\ Cursor' = Len(wire)
  BY <1>3 DEF Unread, TypeOK
<1> QED BY <1>1, <1>2, <1>3, <1>4, <1>5, FailStep

\* A reader in step that finds bytes beyond mark finds the next frame there.
LEMMA NextFrame ==
  ASSUME IndInv, synced, mark < Len(wire),
         NEW d, d = Len(delivered)
  PROVE  /\ d \in Nat /\ d < Len(written) /\ written[d + 1] \in Event
         /\ mark = starts[d + 1] /\ mark \in Nat
         /\ \A i \in 1 .. Len(Frame(written[d + 1])) :
              mark + i <= Len(wire) => wire[mark + i] = Frame(written[d + 1])[i]
<1> USE DEF IndInv
<1>1. /\ d \in Nat /\ written \in Seq(Event) /\ Len(written) \in Nat
      /\ mark \in Nat /\ Len(wire) \in Nat
  BY DEF TypeOK
<1>2. /\ d <= Len(written)
      /\ d = Len(written) => mark = Len(wire)
      /\ d < Len(written) => mark = starts[d + 1]
  BY DEF SyncOK
<1>3. d < Len(written) /\ mark = starts[d + 1] /\ d + 1 \in 1 .. Len(written)
  BY <1>1, <1>2
<1>4. written[d + 1] \in Event
  BY <1>1, <1>3
<1> QED BY <1>1, <1>3, <1>4 DEF WireOK

\* iobuf_read_line finds its newline k bytes into the buffer.
LineAt(line, k) ==
  /\ rphase = "line"
  /\ pos + k + 1 <= Len(buf) /\ buf[pos + k + 1] = NL
  /\ \A j \in 1 .. k : buf[pos + j] # NL
  /\ line \in Seq(Byte) /\ Len(line) = Len(acc) + k
  /\ \A j \in 1 .. Len(acc) : line[j] = acc[j]
  /\ \A j \in 1 .. k : line[Len(acc) + j] = buf[pos + j]

\* What a line is in terms of the wire: the bytes from Cursor - Len(acc) on,
\* none a newline, with a newline after them.
LEMMA LineOnWire ==
  ASSUME IndInv, NEW k \in Nat, NEW line, LineAt(line, k),
         NEW b, b = Cursor - Len(acc)
  PROVE  /\ b \in Nat
         /\ \A j \in 1 .. Len(line) : line[j] = wire[b + j] /\ line[j] # NL
         /\ wire[b + Len(line) + 1] = NL /\ b + Len(line) + 1 <= Len(wire)
         /\ Cursor + k + 1 = b + Len(line) + 1
<1> USE DEF IndInv, LineAt
<1>1. /\ pos \in Nat /\ Len(buf) \in Nat /\ Len(acc) \in Nat
      /\ kpos \in Nat /\ Len(wire) \in Nat /\ kpos <= Len(wire)
  BY DEF TypeOK
<1>2. /\ \A j \in (pos + 1) .. Len(buf) : buf[j] = wire[kpos - Len(buf) + j]
      /\ \A j \in 1 .. Len(acc) : acc[j] = wire[b + j]
      /\ Len(acc) <= Cursor
  BY DEF BytesInOrder
<1>3. \A j \in 1 .. Len(acc) : acc[j] # NL
  BY DEF PhaseOK
<1>4. Cursor = kpos - Len(buf) + pos /\ Cursor \in Int
  BY <1>1 DEF Cursor
<1>5. b \in Nat /\ b + Len(acc) = kpos - Len(buf) + pos
  <2>1. b = Cursor - Len(acc) /\ Len(acc) <= Cursor /\ Len(acc) \in Nat
    BY <1>1, <1>2
  <2> QED BY ONLY <2>1, <1>4
<1>6. \A j \in 1 .. k : line[Len(acc) + j] = wire[b + (Len(acc) + j)]
  <2> TAKE j \in 1 .. k
  <2>a. j \in 1 .. k /\ k \in Nat /\ pos + k + 1 <= Len(buf)
    OBVIOUS
  <2>1. pos + j \in (pos + 1) .. Len(buf) /\ kpos - Len(buf) + (pos + j) = b + (Len(acc) + j)
    BY ONLY <1>1, <1>5, <2>a
  <2>2. line[Len(acc) + j] = buf[pos + j]
    BY <2>a
  <2>3. buf[pos + j] = wire[kpos - Len(buf) + (pos + j)]
    <3>1. \A i \in (pos + 1) .. Len(buf) : buf[i] = wire[kpos - Len(buf) + i]
      BY <1>2
    <3> QED BY ONLY <2>1, <3>1
  <2> QED BY ONLY <2>1, <2>2, <2>3
<1>7. \A j \in 1 .. Len(line) : line[j] = wire[b + j] /\ line[j] # NL
  <2> TAKE j \in 1 .. Len(line)
  <2>1. CASE j <= Len(acc)
    <3>1. j \in 1 .. Len(acc)
      BY <2>1, <1>1
    <3>2. line[j] = acc[j]
      BY <3>1
    <3>3. acc[j] # NL /\ acc[j] = wire[b + j]
      BY <3>1, <1>2, <1>3
    <3> QED BY <3>2, <3>3
  <2>2. CASE ~(j <= Len(acc))
    <3>1. j - Len(acc) \in 1 .. k /\ Len(acc) + (j - Len(acc)) = j
      BY <2>2, <1>1
    <3>2. line[Len(acc) + (j - Len(acc))] = wire[b + (Len(acc) + (j - Len(acc)))]
      BY <3>1, <1>6
    <3>3. line[Len(acc) + (j - Len(acc))] # NL
      BY <3>1
    <3> QED BY <3>1, <3>2, <3>3
  <2> QED BY <2>1, <2>2
<1>8. /\ b + Len(line) + 1 = kpos - Len(buf) + (pos + k + 1)
      /\ pos + k + 1 \in (pos + 1) .. Len(buf)
      /\ b + Len(line) + 1 <= Len(wire)
      /\ Cursor + k + 1 = b + Len(line) + 1
  BY <1>1, <1>4, <1>5
<1>9. wire[b + Len(line) + 1] = NL
  BY <1>2, <1>8
<1> QED BY <1>5, <1>7, <1>8, <1>9

\* Newline-terminated bytes at the start of a frame are its header.
LEMMA LineIsHeader ==
  ASSUME IndInv, synced, NEW line \in Seq(Byte), mark \in Nat,
         \A j \in 1 .. Len(line) : line[j] = wire[mark + j] /\ line[j] # NL,
         wire[mark + Len(line) + 1] = NL, mark + Len(line) + 1 <= Len(wire),
         NEW d, d = Len(delivered)
  PROVE  /\ d \in Nat /\ d < Len(written) /\ written[d + 1] \in Event
         /\ line = Header(Fields(written[d + 1]))
<1>1. Len(wire) \in Nat /\ Len(line) \in Nat
  BY DEF IndInv, TypeOK
<1>2. /\ d \in Nat /\ d < Len(written) /\ written[d + 1] \in Event
      /\ \A j \in 1 .. Len(Frame(written[d + 1])) :
           mark + j <= Len(wire) => wire[mark + j] = Frame(written[d + 1])[j]
  <2>1. mark < Len(wire)
    BY <1>1
  <2> QED BY <2>1, NextFrame
<1>3. PICK e \in Event : e = written[d + 1]
  BY <1>2
<1>4. PICK h : h = Header(Fields(e))
  OBVIOUS
<1>5. /\ h \in Seq(Byte) /\ Len(h) \in Nat
      /\ Len(Frame(e)) \in Nat /\ Len(h) + 1 <= Len(Frame(e))
      /\ \A j \in 1 .. Len(h) : Frame(e)[j] = h[j] /\ Frame(e)[j] # NL
      /\ Frame(e)[Len(h) + 1] = NL
  <2>1. /\ HLen(e) \in Nat /\ Len(e.data) \in Nat /\ Len(e.payload) \in Nat
        /\ Header(Fields(e)) \in Seq(Byte)
        /\ Len(Frame(e)) = HLen(e) + 1 + Len(e.data) + Len(e.payload)
        /\ \A j \in 1 .. HLen(e) : Frame(e)[j] = Header(Fields(e))[j] /\ Frame(e)[j] # NL
        /\ Frame(e)[HLen(e) + 1] = NL
    BY FrameProperties
  <2>2. HLen(e) = Len(h)
    BY <1>4 DEF HLen
  <2>3. Len(Frame(e)) \in Nat /\ HLen(e) + 1 <= Len(Frame(e))
    BY <2>1
  <2> QED BY <1>4, <2>1, <2>2, <2>3
<1>6. \A j \in 1 .. Len(Frame(e)) : mark + j <= Len(wire) => wire[mark + j] = Frame(e)[j]
  BY <1>2, <1>3
<1>7. Len(line) = Len(h)
  <2>1. ~(Len(line) < Len(h))
    <3> SUFFICES ASSUME Len(line) < Len(h) PROVE FALSE
      OBVIOUS
    <3>1. /\ Len(line) + 1 \in 1 .. Len(h) /\ Len(line) + 1 \in 1 .. Len(Frame(e))
          /\ mark + (Len(line) + 1) = mark + Len(line) + 1
      BY <1>1, <1>5
    <3> QED BY <3>1, <1>5, <1>6
  <2>2. ~(Len(line) > Len(h))
    <3> SUFFICES ASSUME Len(line) > Len(h) PROVE FALSE
      OBVIOUS
    <3>1. /\ Len(h) + 1 \in 1 .. Len(line) /\ Len(h) + 1 \in 1 .. Len(Frame(e))
          /\ mark + (Len(h) + 1) <= Len(wire)
      BY <1>1, <1>5
    <3> QED BY <3>1, <1>5, <1>6
  <2> QED BY <2>1, <2>2, <1>1, <1>5
<1>8. \A j \in 1 .. Len(line) : line[j] = h[j]
  <2> TAKE j \in 1 .. Len(line)
  <2>1. /\ j \in 1 .. Len(Frame(e)) /\ mark + j <= Len(wire) /\ j \in 1 .. Len(h)
    BY <1>1, <1>5, <1>7
  <2> QED BY <2>1, <1>5, <1>6
<1>9. line = h
  BY <1>5, <1>7, <1>8, SeqEqual
<1> QED BY <1>2, <1>3, <1>4, <1>9

\* cJSON_Parse recovers the fields of a header it is given.
LEMMA HeaderParses ==
  ASSUME NEW g \in HeaderFields
  PROVE  ParsedHeaders(Header(g)) = {g}
<1>1. IsPrefix(Header(g), Header(g))
  <2>1. Len(Header(g)) \in Nat
    BY HeaderAssumption
  <2> QED BY <2>1 DEF IsPrefix
<1>2. \A h \in HeaderFields : IsPrefix(Header(h), Header(g)) => h = g
  BY HeaderAssumption
<1> QED BY <1>1, <1>2 DEF ParsedHeaders

\* Returning a line and parsing its header (event.c:29-52, 155-184)
\* preserves the invariant: in step, the line is the next event's header.
LEMMA ScanLineStep ==
  ASSUME IndInv, ScanLine
  PROVE  IndInv'
<1> DEFINE d == Len(delivered)
<1>1. PICK i, line :
        /\ i \in (pos + 1) .. Len(buf)
        /\ NewlineAt(i) /\ pos' = i /\ line = acc \o SubSeq(buf, pos + 1, i - 1)
        /\ buf' = buf /\ kpos' = kpos
        /\ \/ ParsedHeaders(line) = {} /\ Fail("parse")
           \/ \E h \in ParsedHeaders(line) :
                /\ rphase' = "data" /\ hdr' = h /\ acc' = <<>>
                /\ UNCHANGED <<block, delivered, rc, mark, synced>>
  BY DEF ScanLine
<1>2. /\ UNCHANGED <<conn, wire, written, starts, wdone>> /\ rphase = "line"
  BY DEF ScanLine, writerVars
<1>3. /\ pos \in Nat /\ Len(buf) \in Nat /\ Len(acc) \in Nat /\ acc \in Seq(Byte)
      /\ buf \in Seq(Byte) /\ kpos \in Nat /\ mark \in Nat /\ d \in Nat
  BY DEF IndInv, TypeOK
<1>4. PICK k \in Nat : i = pos + k + 1 /\ pos + k <= Len(buf) /\ i - 1 = pos + k
  <2>1. /\ i - pos - 1 \in Nat /\ i = pos + (i - pos - 1) + 1
        /\ pos + (i - pos - 1) <= Len(buf) /\ i - 1 = pos + (i - pos - 1)
    BY <1>1, <1>3
  <2> QED BY <2>1
<1>5. /\ line \in Seq(Byte) /\ Len(line) = Len(acc) + k
      /\ \A j \in 1 .. Len(acc) : line[j] = acc[j]
      /\ \A j \in 1 .. k : line[Len(acc) + j] = buf[pos + j]
  <2>1. line = acc \o SubSeq(buf, pos + 1, pos + k)
    BY <1>1, <1>4
  <2> QED BY <2>1, <1>3, <1>4, ExtendFacts
<1>6. /\ pos + k + 1 <= Len(buf) /\ buf[pos + k + 1] = NL
      /\ \A j \in 1 .. k : buf[pos + j] # NL
  <2>1. \A j \in 1 .. k : pos + j \in (pos + 1) .. (i - 1)
    BY <1>3, <1>4
  <2>2. buf[i] = NL /\ \A j \in (pos + 1) .. (i - 1) : buf[j] # NL
    BY <1>1 DEF NewlineAt
  <2> QED BY <2>1, <2>2, <1>1, <1>3, <1>4
<1>b. PICK b : b = Cursor - Len(acc)
  OBVIOUS
<1>7. /\ b \in Nat
      /\ \A j \in 1 .. Len(line) : line[j] = wire[b + j] /\ line[j] # NL
      /\ wire[b + Len(line) + 1] = NL /\ b + Len(line) + 1 <= Len(wire)
      /\ Cursor + k + 1 = b + Len(line) + 1
  <2>1. LineAt(line, k)
    BY <1>2, <1>5, <1>6 DEF LineAt
  <2> QED BY <1>b, <2>1, LineOnWire
<1>8. Cursor' = Cursor + k + 1 /\ Cursor' \in Nat
  <2>1. Cursor' = Cursor + k + 1
    BY <1>1, <1>3, <1>4 DEF Cursor
  <2> QED BY <2>1, <1>5, <1>7
<1>9. synced => /\ d < Len(written) /\ written[d + 1] \in Event
                /\ line = Header(Fields(written[d + 1]))
                /\ Cursor' = mark + HLen(written[d + 1]) + 1
  <2> SUFFICES ASSUME synced
               PROVE  /\ d < Len(written) /\ written[d + 1] \in Event
                      /\ line = Header(Fields(written[d + 1]))
                      /\ Cursor' = mark + HLen(written[d + 1]) + 1
    OBVIOUS
  <2>1. b = mark
    BY <1>b, <1>2 DEF IndInv, SyncOK
  <2>2. /\ \A j \in 1 .. Len(line) : line[j] = wire[mark + j] /\ line[j] # NL
        /\ wire[mark + Len(line) + 1] = NL /\ mark + Len(line) + 1 <= Len(wire)
        /\ Cursor + k + 1 = mark + Len(line) + 1
    BY <2>1, <1>7
  <2> HIDE DEF d
  <2>3. /\ d < Len(written) /\ written[d + 1] \in Event
        /\ line = Header(Fields(written[d + 1]))
    BY <2>2, <1>3, <1>5, LineIsHeader DEF d
  <2> QED BY <2>2, <2>3, <1>8 DEF HLen
<1>10. /\ Len(buf') <= ReadBufSize /\ pos' \in 0 .. Len(buf')
       /\ \A j \in (pos' + 1) .. Len(buf') : buf'[j] = wire[kpos' - Len(buf') + j]
  <2>1. pos' \in 0 .. Len(buf') /\ \A j \in (pos' + 1) .. Len(buf') : j \in (pos + 1) .. Len(buf)
    BY <1>1, <1>3
  <2> QED BY <1>1, <2>1 DEF IndInv, BytesInOrder
<1> HIDE DEF d
<1>11. CASE ParsedHeaders(line) = {} /\ Fail("parse")
  <2>1. ~synced
    <3> SUFFICES ASSUME synced PROVE FALSE
      OBVIOUS
    <3>1. Fields(written[d + 1]) \in HeaderFields
      BY <1>9, FrameProperties
    <3>2. ParsedHeaders(line) = {Fields(written[d + 1])}
      BY <3>1, <1>9, HeaderParses
    <3> QED BY <3>2, <1>11
  <2>2. buf' \in Seq(Byte) /\ kpos' = kpos
    BY <1>1, <1>3
  <2> QED BY <2>1, <2>2, <1>2, <1>8, <1>10, <1>11, FailStep
<1>12. ASSUME NEW h \in ParsedHeaders(line),
              rphase' = "data" /\ hdr' = h /\ acc' = <<>>,
              UNCHANGED <<block, delivered, rc, mark, synced>>
       PROVE  IndInv'
  <2>1. h \in HeaderFields /\ h.dlen \in Nat /\ h.plen \in Nat
    BY LengthAssumption DEF ParsedHeaders, HeaderFields
  <2>2. Len(acc') = 0 /\ acc' \in Seq(Byte)
    BY <1>12
  <2>3. TypeOK'
    BY <1>1, <1>2, <1>10, <1>12, <2>1, <2>2 DEF IndInv, TypeOK
  <2>4. BytesInOrder'
    <3>1. Len(acc') <= Cursor' /\ 1 .. Len(acc') = {} /\ wire' = wire
      BY <1>2, <1>8, <2>2
    <3> QED BY <3>1, <1>10 DEF BytesInOrder
  <2>5. PhaseOK'
    <3>1. Count' = h.dlen
      BY <1>12 DEF Count
    <3> QED BY <3>1, <1>12, <2>1, <2>2 DEF PhaseOK
  <2>6. WireOK' /\ EofOK'
    BY <1>2, <1>12 DEF IndInv, WireOK, EofOK
  <2>7. SyncOK'
    <3> SUFFICES ASSUME synced PROVE SyncOK'
      BY <1>12 DEF SyncOK
    <3>1. h = Fields(written[d + 1])
      <4>1. Fields(written[d + 1]) \in HeaderFields
        BY <1>9, FrameProperties
      <4> QED BY <4>1, <1>9, HeaderParses
    <3>2. Consumed(written[d + 1])' = HLen(written'[d' + 1]) + 1
      BY <1>12 DEF Consumed
    <3>3. written' = written /\ d' = d
      BY <1>2, <1>12 DEF d
    <3>4. Cursor' - Len(acc') = mark' + Consumed(written[d + 1])'
      <4>1. HLen(written[d + 1]) \in Nat /\ mark \in Nat
        BY <1>3, <1>9, FrameProperties
      <4>2. Cursor' = mark + HLen(written[d + 1]) + 1 /\ mark' = mark
        BY <1>9, <1>12
      <4> QED BY <4>1, <4>2, <2>2, <3>2, <3>3
    <3> QED BY <1>2, <1>9, <1>12, <3>1, <3>3, <3>4 DEF IndInv, SyncOK, Writing, d
  <2> QED BY <2>3, <2>4, <2>5, <2>6, <2>7 DEF IndInv
<1> QED BY <1>1, <1>11, <1>12

\* The document at the front of a text that is one document is that text.
LEMMA DocParses ==
  ASSUME NEW c \in JsonDoc
  PROVE  ParsedDocs(c) = {c}
<1>1. IsPrefix(c, c)
  <2>1. Len(c) \in Nat
    BY JsonAssumption
  <2> QED BY <2>1 DEF IsPrefix
<1>2. \A g \in JsonDoc : IsPrefix(g, c) => g = c
  BY JsonAssumption
<1> QED BY <1>1, <1>2 DEF ParsedDocs

\* A block read in full by a reader in step: m is its offset in the frame.
LEMMA BlockIsSegment ==
  ASSUME IndInv, synced, NEW m \in Nat, NEW e \in Event, NEW s \in Seq(Byte),
         Len(delivered) < Len(written), e = written[Len(delivered) + 1],
         Cursor - Len(acc) = mark + m, Len(acc) = Len(s),
         m + Len(s) <= Len(Frame(e)),
         \A i \in 1 .. Len(s) : Frame(e)[m + i] = s[i]
  PROVE  acc = s
<1>1. /\ acc \in Seq(Byte) /\ Len(acc) \in Nat /\ mark \in Nat /\ Len(wire) \in Nat
      /\ Len(delivered) \in Nat /\ Cursor <= Len(wire) /\ Cursor \in Int
  <2>1. /\ acc \in Seq(Byte) /\ Len(acc) \in Nat /\ mark \in Nat /\ wire \in Seq(Byte)
        /\ Len(wire) \in Nat /\ Len(delivered) \in Nat
    BY DEF IndInv, TypeOK
  <2>2. kpos \in 0 .. Len(wire) /\ pos \in 0 .. Len(buf) /\ Len(buf) \in Nat
    BY DEF IndInv, TypeOK
  <2>3. Cursor <= Len(wire) /\ Cursor \in Int
    BY ONLY <2>1, <2>2 DEF Cursor
  <2> QED BY <2>1, <2>3
<1>2. \A i \in 1 .. Len(acc) : acc[i] = wire[mark + m + i]
  BY DEF IndInv, BytesInOrder
<1>3. mark + m + Len(s) <= Len(wire)
  BY <1>1
<1>4. \A i \in 1 .. Len(acc) : acc[i] = s[i]
  <2> TAKE i \in 1 .. Len(acc)
  <2>1. /\ m + i \in 1 .. Len(Frame(e)) /\ mark + (m + i) <= Len(wire)
        /\ mark + (m + i) = mark + m + i /\ mark < Len(wire)
    <3>1. Len(Frame(e)) \in Nat
      BY FrameProperties
    <3> QED BY <3>1, <1>1, <1>3
  <2>2. wire[mark + (m + i)] = Frame(e)[m + i]
    BY <2>1, NextFrame
  <2> QED BY <2>1, <2>2, <1>2
<1> QED BY <1>1, <1>4, SeqEqual

\* What a reader in step knows in the data and in the payload phase.
LEMMA InStepBlock ==
  ASSUME IndInv, synced, InBlock, NEW d, d = Len(delivered)
  PROVE  /\ d \in Nat /\ d < Len(written) /\ written[d + 1] \in Event
         /\ hdr = Fields(written[d + 1])
         /\ Cursor - Len(acc) = mark + Consumed(written[d + 1])
<1>1. d \in Nat /\ written \in Seq(Event) /\ Len(written) \in Nat
  BY DEF IndInv, TypeOK
<1>2. /\ d < Len(written) /\ hdr = Fields(written[d + 1])
      /\ Cursor - Len(acc) = mark + Consumed(written[d + 1])
  BY DEF IndInv, SyncOK
<1>3. written[d + 1] \in Event
  BY <1>1, <1>2
<1> QED BY <1>1, <1>2, <1>3

\* Parsing the data block (event.c:187-206) preserves the invariant.
LEMMA FinishDataStep ==
  ASSUME IndInv, FinishData
  PROVE  IndInv'
<1>1. /\ rphase = "data" /\ Len(acc) = hdr.dlen /\ InBlock
      /\ UNCHANGED <<conn, wire, written, starts, wdone, kpos, buf, pos>>
  BY DEF FinishData, InBlock, writerVars, bufVars, Fail, Return
<1>2. /\ Cursor' = Cursor /\ Cursor \in Nat /\ acc \in Seq(Byte) /\ Len(acc) \in Nat
      /\ hdr \in HeaderFields /\ hdr.plen \in Nat
  <2>1. Cursor' = Cursor
    BY <1>1 DEF Cursor
  <2>2. Cursor \in Nat /\ acc \in Seq(Byte) /\ Len(acc) \in Nat
    BY DEF IndInv, TypeOK, BytesInOrder, Cursor
  <2>3. hdr \in HeaderFields
    BY <1>1 DEF IndInv, PhaseOK
  <2> QED BY <2>1, <2>2, <2>3, LengthAssumption DEF HeaderFields
<1>3. ASSUME synced
      PROVE  /\ acc = written[Len(delivered) + 1].data
             /\ acc \in JsonDoc \cup {<<>>}
             /\ Cursor = mark + HLen(written[Len(delivered) + 1]) + 1
                             + Len(written[Len(delivered) + 1].data)
  <2>1. PICK d : d = Len(delivered)
    OBVIOUS
  <2>2. /\ d \in Nat /\ d < Len(written) /\ written[d + 1] \in Event
        /\ hdr = Fields(written[d + 1])
        /\ Cursor - Len(acc) = mark + Consumed(written[d + 1])
    BY <1>1, <1>3, <2>1, InStepBlock
  <2>3. PICK e \in Event : e = written[d + 1]
    BY <2>2
  <2>4. PICK s : s = e.data
    OBVIOUS
  <2>5. /\ s \in Seq(Byte) /\ Len(s) \in Nat /\ HLen(e) \in Nat /\ mark \in Nat
        /\ (HLen(e) + 1) + Len(s) <= Len(Frame(e))
        /\ \A i \in 1 .. Len(s) : Frame(e)[(HLen(e) + 1) + i] = s[i]
    <3>1. /\ HLen(e) \in Nat /\ Len(e.payload) \in Nat /\ s \in Seq(Byte) /\ Len(s) \in Nat
          /\ Len(Frame(e)) = HLen(e) + 1 + Len(s) + Len(e.payload)
          /\ \A i \in 1 .. Len(s) : Frame(e)[HLen(e) + 1 + i] = s[i]
      BY <2>4, FrameProperties
    <3>2. mark \in Nat
      BY DEF IndInv, TypeOK
    <3>3. (HLen(e) + 1) + Len(s) <= Len(Frame(e))
      BY <3>1
    <3> QED BY <3>1, <3>2, <3>3
  <2>6. Len(acc) = Len(s)
    BY <1>1, <2>2, <2>3, <2>4 DEF Fields
  <2>7. Cursor - Len(acc) = mark + (HLen(e) + 1)
    BY <1>1, <2>2, <2>3 DEF Consumed
  <2>8. PICK m \in Nat : m = HLen(e) + 1
    BY <2>5
  <2>9. acc = s
    <3>1. /\ Cursor - Len(acc) = mark + m /\ m + Len(s) <= Len(Frame(e))
          /\ \A i \in 1 .. Len(s) : Frame(e)[m + i] = s[i]
          /\ Len(delivered) < Len(written) /\ e = written[Len(delivered) + 1]
      BY <2>1, <2>2, <2>3, <2>5, <2>7, <2>8
    <3> QED BY <1>3, <2>5, <2>6, <3>1, BlockIsSegment
  <2>10. acc \in JsonDoc \cup {<<>>}
    BY <2>4, <2>9, EventAssumption
  <2>11. Cursor = mark + HLen(e) + 1 + Len(s)
    BY <1>2, <2>5, <2>6, <2>7
  <2> QED BY <2>1, <2>3, <2>4, <2>9, <2>10, <2>11
<1>4. CASE hdr.dlen > 0 /\ ParsedDocs(acc) = {} /\ Fail("parse")
  <2>1. ~synced
    <3> SUFFICES ASSUME synced PROVE FALSE
      OBVIOUS
    <3>1. acc # <<>>
      BY <1>1, <1>4
    <3>2. acc \in JsonDoc
      BY <1>3, <3>1
    <3> QED BY <3>2, <1>4, DocParses
  <2>2. /\ buf' \in Seq(Byte) /\ pos' \in 0 .. Len(buf') /\ Len(buf') <= ReadBufSize
        /\ \A j \in (pos' + 1) .. Len(buf') : buf'[j] = wire[kpos - Len(buf') + j]
    BY <1>1 DEF IndInv, TypeOK, BytesInOrder
  <2> QED BY <2>1, <2>2, <1>1, <1>2, <1>4, FailStep
<1>5. CASE /\ block' \in (IF hdr.dlen = 0 THEN {<<>>} ELSE ParsedDocs(acc))
           /\ rphase' = "payload" /\ acc' = <<>>
           /\ UNCHANGED <<hdr, delivered, rc, mark, synced>>
  <2>1. Len(acc') = 0 /\ acc' \in Seq(Byte)
    BY <1>5
  <2>2. block' \in JsonDoc \cup {<<>>}
    BY <1>5 DEF ParsedDocs
  <2>3. TypeOK'
    BY <1>1, <1>5, <2>1, <2>2 DEF IndInv, TypeOK
  <2>4. BytesInOrder'
    <3>1. Len(acc') <= Cursor' /\ 1 .. Len(acc') = {}
      BY <1>2, <2>1
    <3> QED BY <1>1, <3>1 DEF IndInv, BytesInOrder
  <2>5. PhaseOK'
    <3>1. Count' = hdr.plen
      BY <1>5 DEF Count
    <3> QED BY <3>1, <1>2, <1>5, <2>1 DEF PhaseOK
  <2>6. WireOK' /\ EofOK'
    BY <1>1, <1>5 DEF IndInv, WireOK, EofOK
  <2>7. SyncOK'
    <3> SUFFICES ASSUME synced PROVE SyncOK'
      BY <1>5 DEF SyncOK
    <3>1. PICK d : d = Len(delivered)
      OBVIOUS
    <3>2. /\ d \in Nat /\ d < Len(written) /\ written[d + 1] \in Event
          /\ hdr = Fields(written[d + 1])
      BY <1>1, <3>1, InStepBlock
    <3>3. PICK e \in Event : e = written[d + 1]
      BY <3>2
    <3>4. /\ acc = e.data /\ acc \in JsonDoc \cup {<<>>}
          /\ Cursor = mark + HLen(e) + 1 + Len(e.data)
      BY <1>3, <3>1, <3>3
    <3>5. block' = e.data
      <4>1. CASE hdr.dlen = 0
        <5>1. acc = <<>>
          BY <4>1, <1>1, <1>2
        <5> QED BY <4>1, <5>1, <1>5, <3>4
      <4>2. CASE hdr.dlen # 0
        <5>1. acc # <<>>
          BY <4>2, <1>1
        <5>2. ParsedDocs(acc) = {acc}
          BY <5>1, <3>4, DocParses
        <5> QED BY <4>2, <5>2, <1>5, <3>4
      <4> QED BY <4>1, <4>2
    <3>6. /\ HLen(e) \in Nat /\ Len(e.data) \in Nat /\ mark \in Nat
      BY FrameProperties DEF IndInv, TypeOK
    <3>7. /\ written' = written /\ Len(delivered') = d /\ written'[d + 1] = e
          /\ mark' = mark /\ synced' = synced /\ rc' = rc /\ hdr' = hdr
      BY <1>1, <1>5, <3>1, <3>3
    <3>8. Consumed(e)' = HLen(e) + 1 + Len(e.data)
      BY <1>5 DEF Consumed
    <3>9. Cursor' - Len(acc') = mark' + Consumed(e)'
      <4>1. PICK x \in Nat, y \in Nat : x = HLen(e) /\ y = Len(e.data)
        BY <3>6
      <4>2. Cursor' = mark + x + 1 + y /\ Consumed(e)' = x + 1 + y
        BY <4>1, <1>2, <3>4, <3>8
      <4> QED BY <4>2, <2>1, <3>6, <3>7
    <3> QED BY <1>1, <1>5, <3>1, <3>2, <3>3, <3>5, <3>7, <3>9 DEF IndInv, SyncOK, Writing
  <2> QED BY <2>3, <2>4, <2>5, <2>6, <2>7 DEF IndInv
<1> QED BY <1>1, <1>4, <1>5 DEF FinishData

\* The event returned by a reader in step is the next one written.
LEMMA DeliversNext ==
  ASSUME IndInv, synced, FinishPayload, NEW d, d = Len(delivered)
  PROVE  /\ d \in Nat /\ d < Len(written) /\ written[d + 1] \in Event
         /\ [type |-> hdr.type, data |-> block, payload |-> acc] = written[d + 1]
         /\ Cursor = mark + Len(Frame(written[d + 1]))
<1>1. rphase = "payload" /\ Len(acc) = hdr.plen /\ InBlock
  BY DEF FinishPayload, InBlock
<1>2. /\ d \in Nat /\ d < Len(written) /\ written[d + 1] \in Event
      /\ hdr = Fields(written[d + 1])
      /\ Cursor - Len(acc) = mark + Consumed(written[d + 1])
  BY <1>1, InStepBlock
<1>3. block = written[d + 1].data
  BY <1>1 DEF IndInv, SyncOK
<1>4. PICK e \in Event : e = written[d + 1]
  BY <1>2
<1>5. PICK s : s = e.payload
  OBVIOUS
<1>6. PICK m : m = HLen(e) + 1 + Len(e.data)
  OBVIOUS
<1>7. /\ m \in Nat /\ s \in Seq(Byte) /\ Len(s) \in Nat
      /\ Len(Frame(e)) = m + Len(s)
      /\ \A i \in 1 .. Len(s) : Frame(e)[m + i] = s[i]
  <2>1. /\ HLen(e) \in Nat /\ Len(e.data) \in Nat /\ s \in Seq(Byte) /\ Len(s) \in Nat
        /\ Len(Frame(e)) = HLen(e) + 1 + Len(e.data) + Len(s)
        /\ \A i \in 1 .. Len(s) : Frame(e)[HLen(e) + 1 + Len(e.data) + i] = s[i]
    BY <1>5, FrameProperties
  <2> QED BY <2>1, <1>6
<1>8. Len(acc) = Len(s)
  BY <1>1, <1>2, <1>4, <1>5 DEF Fields
<1>9. Cursor - Len(acc) = mark + m
  BY <1>1, <1>2, <1>4, <1>6 DEF Consumed
<1>10. acc = s
  <2>1. m + Len(s) <= Len(Frame(e))
    BY <1>7
  <2>2. Len(delivered) < Len(written) /\ e = written[Len(delivered) + 1]
    BY <1>2, <1>4
  <2> QED BY <1>7, <1>8, <1>9, <2>1, <2>2, BlockIsSegment
<1>11. Cursor = mark + Len(Frame(e))
  <2>1. mark \in Nat /\ Cursor \in Int
    BY DEF IndInv, TypeOK, Cursor
  <2> QED BY <2>1, <1>7, <1>8, <1>9
<1>12. [type |-> hdr.type, data |-> block, payload |-> acc] = e
  <2>1. e = [type |-> e.type, data |-> e.data, payload |-> e.payload]
    BY EventAssumption
  <2>2. hdr.type = e.type
    BY <1>2, <1>4 DEF Fields
  <2> QED BY <2>1, <2>2, <1>3, <1>4, <1>5, <1>10
<1> QED BY <1>2, <1>4, <1>11, <1>12

\* Returning the event (event.c:209-223) preserves the invariant.
LEMMA FinishPayloadStep ==
  ASSUME IndInv, FinishPayload
  PROVE  IndInv'
<1>1. PICK v : v = [type |-> hdr.type, data |-> block, payload |-> acc]
  OBVIOUS
<1>2. /\ rphase = "payload" /\ delivered' = Append(delivered, v)
      /\ UNCHANGED <<conn, wire, written, starts, wdone, kpos, buf, pos, synced>>
      /\ rphase' = "idle" /\ rc' = "ok" /\ acc' = <<>> /\ hdr' = NoHeader /\ block' = <<>>
      /\ mark' = Cursor'
  BY <1>1 DEF FinishPayload, writerVars, bufVars, Return, IndInv, TypeOK
<1>3. /\ Cursor' = Cursor /\ Cursor \in Nat /\ Len(acc') = 0 /\ acc' \in Seq(Byte)
  <2>1. Cursor' = Cursor
    BY <1>2 DEF Cursor
  <2>2. Cursor \in Nat
    BY DEF IndInv, TypeOK, BytesInOrder, Cursor
  <2> QED BY <1>2, <2>1, <2>2
<1>4. PICK T : T = [type : Type, data : JsonDoc \cup {<<>>}, payload : Seq(Byte)]
  OBVIOUS
<1>5. v \in T /\ delivered \in Seq(T)
  <2>1. hdr \in HeaderFields
    BY <1>2 DEF IndInv, PhaseOK, InBlock
  <2> QED BY <1>1, <1>4, <2>1 DEF HeaderFields, IndInv, TypeOK
<1>6. /\ delivered' \in Seq(T) /\ Len(delivered) \in Nat
      /\ Len(delivered') = Len(delivered) + 1
      /\ \A i \in 1 .. Len(delivered) : delivered'[i] = delivered[i]
      /\ delivered'[Len(delivered) + 1] = v
  <2>1. delivered' = Append(delivered, v)
    BY <1>2
  <2> QED BY <2>1, <1>5, AppendFacts
<1>7. TypeOK'
  <2>1. rc' \in RCodes /\ hdr' \in HeaderFields \cup {NoHeader} /\ mark' \in Nat
    BY <1>2, <1>3 DEF RCodes
  <2>2. delivered' \in Seq([type : Type, data : JsonDoc \cup {<<>>}, payload : Seq(Byte)])
    BY <1>4, <1>6
  <2> QED BY <1>2, <1>3, <2>1, <2>2 DEF IndInv, TypeOK
<1>8. BytesInOrder'
  <2>1. Len(acc') <= Cursor' /\ 1 .. Len(acc') = {}
    BY <1>3
  <2> QED BY <1>2, <2>1 DEF IndInv, BytesInOrder
<1>9. PhaseOK' /\ WireOK' /\ EofOK'
  BY <1>2 DEF IndInv, PhaseOK, WireOK, EofOK, InBlock
<1>10. SyncOK'
  <2> SUFFICES ASSUME synced PROVE SyncOK'
    BY <1>2 DEF SyncOK
  <2>1. PICK d : d = Len(delivered)
    OBVIOUS
  <2>2. /\ d \in Nat /\ d < Len(written) /\ written[d + 1] \in Event
        /\ v = written[d + 1] /\ Cursor = mark + Len(Frame(written[d + 1]))
    BY <1>1, <2>1, DeliversNext
  <2>3. /\ mark = starts[d + 1] /\ \A k \in 1 .. d : delivered[k] = written[k]
    BY <2>1, <2>2 DEF IndInv, SyncOK
  <2>4. Len(delivered') = d + 1 /\ \A k \in 1 .. d + 1 : delivered'[k] = written[k]
    BY <1>6, <2>1, <2>2, <2>3
  <2>5. /\ Len(written) \in Nat /\ d + 1 \in 1 .. Len(written)
        /\ wdone \in Nat /\ Cursor <= Len(wire) /\ starts[d + 1] \in Nat
        /\ Len(Frame(written[d + 1])) \in Nat
    <3>1. /\ Len(written) \in Nat /\ wdone \in Nat /\ Cursor <= Len(wire)
          /\ starts \in Seq(Nat) /\ Len(starts) = Len(written)
      BY DEF IndInv, TypeOK, Cursor
    <3>2. Frame(written[d + 1]) \in Seq(Byte)
      BY <2>2, FrameProperties
    <3> QED BY <3>1, <3>2, <2>2
  <2>6. d + 1 = Len(written) => Cursor = Len(wire) /\ ~Writing
    <3> SUFFICES ASSUME d + 1 = Len(written) PROVE Cursor = Len(wire) /\ ~Writing
      OBVIOUS
    <3>1. /\ wdone <= Len(Frame(written[d + 1])) /\ Len(wire) = starts[d + 1] + wdone
      <4>1. written # <<>>
        BY <2>5
      <4> QED BY <4>1 DEF IndInv, WireOK
    <3>2. wdone = Len(Frame(written[d + 1])) /\ Cursor = Len(wire)
      BY <3>1, <2>2, <2>3, <2>5
    <3> QED BY <3>2, <2>5 DEF Writing
  <2>7. d + 1 < Len(written) => Cursor = starts[d + 1 + 1]
    <3> SUFFICES ASSUME d + 1 < Len(written) PROVE Cursor = starts[d + 1 + 1]
      OBVIOUS
    <3>1. d + 1 \in 1 .. Len(written) - 1
      BY <2>2, <2>5
    <3> QED BY <3>1, <2>2, <2>3 DEF IndInv, WireOK
  <2>8. Writing' = Writing /\ mark' = Cursor
    BY <1>2, <1>3 DEF Writing
  <2> QED BY <1>2, <2>2, <2>4, <2>5, <2>6, <2>7, <2>8 DEF SyncOK, InBlock
<1> QED BY <1>7, <1>8, <1>9, <1>10 DEF IndInv

\* Every step of writer, reader and kernel preserves the invariant.
LEMMA NextIndInv == IndInv /\ [Next]_vars => IndInv'
<1> SUFFICES ASSUME IndInv, [Next]_vars PROVE IndInv'
  OBVIOUS
<1>1. CASE Writer
  BY <1>1, BeginWriteStep, WriteSomeStep DEF Writer
<1>2. CASE Reader
  BY <1>2, CallStep, FillStep, SaveStep, ScanLineStep, DrainStep, ReadDirectStep,
     FinishDataStep, FinishPayloadStep DEF Reader
<1>3. CASE Faults
  <2>1. CASE Close \/ Reset
    BY <2>1, ConnStep
  <2>2. CASE ReadEof
    BY <2>2, ReadErrorStep DEF ReadEof
  <2>3. CASE ReadIoError
    BY <2>3, ReadErrorStep DEF ReadIoError
  <2>4. CASE NoMem
    BY <2>4, NoMemStep
  <2>5. CASE ParseNoMem
    BY <2>5, ParseNoMemStep
  <2> QED BY <1>3, <2>1, <2>2, <2>3, <2>4, <2>5 DEF Faults
<1>4. CASE UNCHANGED vars
  <2>1. UNCHANGED <<conn, wire, written, starts, wdone, kpos, buf, pos, rphase, acc, hdr,
                   block, delivered, rc, mark, synced>>
    BY <1>4 DEF vars, writerVars, bufVars, callVars
  <2>2. TypeOK' /\ WireOK'
    BY <2>1 DEF IndInv, TypeOK, WireOK
  <2>3. BytesInOrder' /\ PhaseOK'
    BY <2>1 DEF IndInv, BytesInOrder, PhaseOK, Cursor, InBlock, Count
  <2>4. SyncOK' /\ EofOK'
    BY <2>1 DEF IndInv, SyncOK, EofOK, Writing, Cursor, InBlock, Consumed
  <2> QED BY <2>2, <2>3, <2>4 DEF IndInv
<1> QED BY <1>1, <1>2, <1>3, <1>4 DEF Next

\* The inductive invariant holds in every reachable state.
THEOREM Invariance == Spec => []IndInv
<1> QED BY InitIndInv, NextIndInv, PTL DEF Spec

\* Type correctness of the byte stream, its buffer and its reader.
THEOREM TypeCorrect == Spec => []TypeOK
<1>1. IndInv => TypeOK
  BY DEF IndInv
<1> QED BY <1>1, Invariance, PTL

\* event.c:55-115: no byte is skipped, repeated or reordered between read()
\* and the line or block being assembled, and io->buf is never overrun.
THEOREM ReaderKeepsBytesInOrder == Spec => []BytesInOrder
<1>1. IndInv => BytesInOrder
  BY DEF IndInv
<1> QED BY <1>1, Invariance, PTL

\* event.c:142-224 against 244-296: until a failed read drops bytes, the
\* events returned are the events written, and nothing fails to parse.
THEOREM ReaderDeliversInOrder == Spec => []DeliveredInOrder
<1>1. IndInv => DeliveredInOrder
  <2> SUFFICES ASSUME IndInv, synced
               PROVE  IsPrefix(delivered, written) /\ rc # "parse"
    BY DEF DeliveredInOrder
  <2>1. PICK d : d = Len(delivered)
    OBVIOUS
  <2>2. /\ rc # "parse" /\ d <= Len(written) /\ d \in Nat
        /\ \A k \in 1 .. d : delivered[k] = written[k]
    BY <2>1 DEF IndInv, SyncOK, TypeOK
  <2>3. SubSeq(delivered, 1, d) = SubSeq(written, 1, d)
    BY <2>2 DEF IndInv, TypeOK
  <2> QED BY <2>1, <2>2, <2>3 DEF IsPrefix
<1> QED BY <1>1, Invariance, PTL

\* event.c:78-81, 109-110: an end of file that drops nothing comes after the
\* last event.
THEOREM EofComesLast == Spec => []EofAfterLastEvent
<1>1. IndInv => EofAfterLastEvent
  <2> SUFFICES ASSUME IndInv, synced, rc = "eof"
               PROVE  Len(delivered) = Len(written) - (IF Writing THEN 1 ELSE 0)
    BY DEF EofAfterLastEvent
  <2>1. PICK d, n : d = Len(delivered) /\ n = Len(written)
    OBVIOUS
  <2>2. /\ d \in Nat /\ n \in Nat /\ d <= n /\ wdone \in Nat
        /\ mark = Len(wire)
        /\ d = n => ~Writing
        /\ d < n => mark = starts[d + 1]
    <3>1. d \in Nat /\ n \in Nat /\ wdone \in Nat
      BY <2>1 DEF IndInv, TypeOK
    <3>2. mark = Len(wire)
      BY DEF IndInv, EofOK
    <3>3. /\ d <= n
          /\ d = n => ~Writing
          /\ d < n => mark = starts[d + 1]
      BY <2>1 DEF IndInv, SyncOK
    <3> QED BY <3>1, <3>2, <3>3
  <2>3. CASE d = n
    BY <2>1, <2>2, <2>3
  <2>4. CASE d < n
    <3>1. d + 1 \in 1 .. n /\ n \in 1 .. n /\ written # <<>>
      BY <2>1, <2>2, <2>4
    <3>2. Len(wire) = starts[n] + wdone /\ Len(wire) = starts[d + 1]
      BY <2>1, <2>2, <2>4, <3>1 DEF IndInv, WireOK
    <3>3. \A k \in 1 .. n : starts[k] \in Nat /\ Len(Frame(written[k])) \in Nat
                            /\ Len(Frame(written[k])) >= 1
      <4> TAKE k \in 1 .. n
      <4>1. written[k] \in Event /\ starts[k] \in Nat
        BY <2>1 DEF IndInv, TypeOK
      <4>2. /\ HLen(written[k]) \in Nat /\ Len(written[k].data) \in Nat
            /\ Len(written[k].payload) \in Nat
            /\ Len(Frame(written[k])) = HLen(written[k]) + 1 + Len(written[k].data)
                                          + Len(written[k].payload)
        BY <4>1, FrameProperties
      <4> QED BY <4>1, <4>2
    <3>4. d + 1 < n => starts[d + 1] + Len(Frame(written[d + 1])) <= starts[n]
      BY <2>1, <3>1 DEF IndInv, WireOK
    <3>5. d + 1 = n /\ wdone = 0
      BY <2>2, <2>4, <3>1, <3>2, <3>3, <3>4
    <3>6. Writing
      BY <2>1, <3>1, <3>3, <3>5 DEF Writing
    <3> QED BY <2>1, <2>2, <3>5, <3>6
  <2> QED BY <2>2, <2>3, <2>4
<1> QED BY <1>1, Invariance, PTL

\* The byte-level writer and reader of event.c implement the channel of
\* whole events.
THEOREM StreamImplementsChannel == Spec => ImplementsChannel
<1>1. Init => Channel!Init
  BY DEF Init, Channel!Init
<1>2. IndInv /\ [Next]_vars => [Channel!Next]_(Channel!vars)
  <2> SUFFICES ASSUME IndInv, [Next]_vars,
                      ~(UNCHANGED <<written, delivered, synced>>)
               PROVE  Channel!Next
    BY DEF Channel!vars
  <2>1. ASSUME NEW e \in Event, BeginWrite(e) PROVE Channel!Send
    BY <2>1 DEF BeginWrite, Channel!Send, callVars
  <2>2. ASSUME Fail("parse") \/ Fail("eof") \/ Fail("io") \/ Fail("nomem"),
               written' = written
        PROVE  Channel!LoseSync
    <3>1. delivered' = delivered /\ (synced' => synced)
      BY <2>2 DEF Fail, Return
    <3>2. synced \in BOOLEAN /\ synced' \in BOOLEAN
      BY <2>2 DEF IndInv, TypeOK, Fail, Return
    <3> QED BY <3>1, <3>2, <2>2 DEF Channel!LoseSync
  <2>3. ASSUME FinishPayload PROVE Channel!Receive \/ Channel!ReceiveUnsynced
    <3>1. PICK v, d : /\ v = [type |-> hdr.type, data |-> block, payload |-> acc]
                      /\ d = Len(delivered)
      OBVIOUS
    <3>2. /\ delivered' = Append(delivered, v) /\ written' = written
          /\ synced' = synced
      BY <2>3, <3>1 DEF FinishPayload, Return, writerVars, IndInv, TypeOK
    <3>3. CASE synced
      <4>1. d < Len(written) /\ v = written[d + 1]
        BY <2>3, <3>1, <3>3, DeliversNext
      <4> QED BY <3>1, <3>2, <3>3, <4>1 DEF Channel!Receive
    <3>4. CASE ~synced
      <4>1. /\ Len(delivered') = Len(delivered) + 1
            /\ SubSeq(delivered', 1, Len(delivered)) = delivered
        BY <3>2 DEF IndInv, TypeOK
      <4> QED BY <3>2, <3>4, <4>1 DEF Channel!ReceiveUnsynced
    <3> QED BY <3>3, <3>4
  <2>4. CASE Writer
    BY <2>4, <2>1 DEF Writer, WriteSome, callVars, Channel!Next
  <2>5. CASE Reader
    <3>1. CASE Call \/ Save \/ Drain
      BY <3>1 DEF Call, Save, Drain, writerVars
    <3>2. CASE (\E n \in 1 .. ReadBufSize : Fill(n)) \/ (\E n \in 1 .. SockBuf : ReadDirect(n))
      BY <3>2 DEF Fill, ReadDirect, writerVars, callVars
    <3>3. CASE ScanLine
      BY <3>3, <2>2 DEF ScanLine, writerVars, Channel!Next
    <3>4. CASE FinishData
      BY <3>4, <2>2 DEF FinishData, writerVars, Channel!Next
    <3>5. CASE FinishPayload
      BY <3>5, <2>3 DEF Channel!Next
    <3> QED BY <2>5, <3>1, <3>2, <3>3, <3>4, <3>5 DEF Reader
  <2>6. CASE Faults
    <3>1. CASE ParseNoMem
      <4>1. written' = written /\ delivered' = delivered /\ synced' = FALSE
        BY <3>1 DEF ParseNoMem, Return, writerVars
      <4>2. synced \in BOOLEAN
        BY DEF IndInv, TypeOK
      <4> QED BY <4>1, <4>2 DEF Channel!LoseSync, Channel!Next
    <3>2. CASE Close \/ Reset \/ ReadEof \/ ReadIoError \/ NoMem
      BY <3>2, <2>2 DEF Close, Reset, ReadEof, ReadIoError, ReadError, NoMem,
                        writerVars, callVars, Channel!Next
    <3> QED BY <2>6, <3>1, <3>2 DEF Faults
  <2>7. CASE UNCHANGED vars
    BY <2>7 DEF vars, writerVars, callVars
  <2> QED BY <2>4, <2>5, <2>6, <2>7 DEF Next
<1> QED BY <1>1, <1>2, Invariance, PTL DEF Spec, ImplementsChannel, Channel!Spec

=============================================================================
