------------------------ MODULE WyomingSession_proofs -----------------------
(***************************************************************************)
(* Proofs about WyomingSession: SessionInv is inductive, hence for every   *)
(* size of the two queues, number of calls and set of callbacks a client   *)
(* reads the answers to its own requests until a call fails or a partial   *)
(* transcript that lost its mark is taken for the final one.               *)
(***************************************************************************)
EXTENDS WyomingSession, ClientHandler_proofs

(* Queues.                                                                 *)

\* The rest of a queue.
LEMMA TailOf ==
  ASSUME NEW S, NEW s \in Seq(S), s # <<>>
  PROVE  /\ Len(s) \in Nat \ {0} /\ Head(s) = s[1] /\ s[1] \in S
         /\ Tail(s) \in Seq(S) /\ Len(Tail(s)) = Len(s) - 1
         /\ \A j \in 1 .. Len(s) - 1 : Tail(s)[j] = s[j + 1]
  OBVIOUS

\* A queue with one event more.
LEMMA AppendTo ==
  ASSUME NEW S, NEW s \in Seq(S), NEW x \in S
  PROVE  /\ Len(s) \in Nat /\ Append(s, x) \in Seq(S)
         /\ Len(Append(s, x)) = Len(s) + 1 /\ Append(s, x)[Len(s) + 1] = x
         /\ \A j \in 1 .. Len(s) : Append(s, x)[j] = s[j]
  OBVIOUS

\* The elements of a sequence are in its set.
LEMMA ElementsOf ==
  ASSUME NEW S, NEW s \in Seq(S) PROVE \A j \in 1 .. Len(s) : s[j] \in S
  OBVIOUS

\* Short scripts and their rests.
LEMMA TailOfPair ==
  ASSUME NEW a, NEW b
  PROVE  /\ Tail(<<a, b>>) = <<b>> /\ <<a, b>>[1] = a /\ <<a, b>> # <<b>>
         /\ Tail(<<a>>) = <<>> /\ <<a>>[1] = a
  OBVIOUS

\* Two sequences, one after the other.
LEMMA ConcatTo ==
  ASSUME NEW S, NEW a \in Seq(S), NEW b \in Seq(S)
  PROVE  /\ a \o b \in Seq(S) /\ Len(a \o b) = Len(a) + Len(b)
         /\ \A i \in 1 .. Len(a) + Len(b) :
              (a \o b)[i] = IF i <= Len(a) THEN a[i] ELSE b[i - Len(a)]
  OBVIOUS

\* Every event of the library is one the handler may be given.
LEMMA MessageType == ASSUME NEW t \in Types PROVE Message(t) \in Events
<1>1. (IF t = "audio-chunk" THEN 2 ELSE 0) \in Bytes
  BY SessionAssumption
<1>2. (t = "synthesize") \in BOOLEAN
  OBVIOUS
<1> QED BY <1>1, <1>2, Zenon DEF Message, Events

-----------------------------------------------------------------------------
(* The handler's own invariant.                                            *)

\* The handler's invariant survives its steps in a session.
LEMMA ServerReadsHandler == HandlerInv /\ TypeOK /\ ServerReads => HandlerInv'
<1> SUFFICES ASSUME HandlerInv, TypeOK, ServerReads PROVE HandlerInv'
  OBVIOUS
<1>1. PICK e : /\ e = Message(Head(toServer).type)
               /\ \/ Dispatch(e) \/ BatchStart(e) \/ BatchRead(e)
                  \/ StreamStart(e) \/ StreamRead(e) \/ StreamDrain
  BY DEF ServerReads
<1>2. Head(toServer) \in [type : Types, id : Nat]
  BY TailOf DEF TypeOK, ServerReads
<1>3. e \in Events
  BY <1>1, <1>2, MessageType
<1> QED BY <1>1, <1>3, DispatchStep, BatchStep, StreamStep DEF Batch, Stream

\* A failing read.
LEMMA ServerReadFailsHandler == HandlerInv /\ ServerReadFails => HandlerInv'
  BY DispatchStep, BatchStep, StreamStep DEF ServerReadFails, Batch, Stream

\* A step that neither reads nor writes.
LEMMA ServerComputesHandler == HandlerInv /\ ServerComputes => HandlerInv'
  BY DispatchStep, BatchStep, StreamStep DEF ServerComputes, Batch, Stream

\* A step of the client.
LEMMA HandlerUnchanged == HandlerInv /\ UNCHANGED handlerVars => HandlerInv'
  BY NextHandlerInv

-----------------------------------------------------------------------------
(* What the steps do to the protocol's state.                              *)

\* A read of the handler that returns the event at the front of its queue.
LEMMA ServerReadsEffect ==
  ASSUME HandlerInv, TypeOK, ServerReads
  PROVE  /\ toServer # <<>> /\ toServer' = Tail(toServer) /\ todo = <<>>
         /\ UNCHANGED <<toClient, copen, call, sending, gotStart, streaming, rc,
                        ncalls, req, clean, stray, peer, room>>
         /\ serving' = IF pc = "read" THEN toServer[1].id ELSE serving
         /\ LET t == toServer[1].type
            IN  \/ /\ pc = "read" /\ pc' = "loop" /\ gotStop' = gotStop
                   /\ \/ t \notin Requests /\ todo' = <<>>
                      \/ t = "describe" /\ todo' = <<"info">>
                      \/ /\ t = "synthesize"
                         /\ todo' = <<>> \/ \E n \in Nat : todo' = Speech(n)
                \/ /\ pc = "read" /\ todo' = <<>> /\ gotStop' = gotStop
                   /\ \/ t = "transcribe" /\ pc' \in {"loop", "batch-start"}
                      \/ t = "transcribe-start" /\ pc' \in {"loop", "stream-start"}
                \/ /\ pc = "batch-start" /\ pc' \in {"batch-head", "closed"}
                   /\ gotStop' = "no" /\ todo' = <<>>
                \/ /\ pc = "batch-read" /\ pc' \in {"batch-head", "batch-done"}
                   /\ gotStop' = gotStop \/ t = "audio-stop"
                   /\ todo' = <<>>
                \/ /\ pc = "stream-start" /\ todo' = <<>> /\ gotStop' = "no"
                   /\ \/ pc' = "closed"
                      \/ t = "audio-start" /\ pc' \in {"loop", "stream-head"}
                \/ /\ pc = "stream-read" /\ pc' = "stream-head"
                   /\ todo' = <<>> \/ todo' = <<"partial">>
                   /\ gotStop' = IF t \in {"audio-stop", "transcribe-stop"}
                                 THEN t ELSE gotStop
                \/ /\ pc = "stream-drain" /\ pc' = "stream-destroy"
                   /\ todo' = <<>> /\ gotStop' = gotStop
<1>1. PICK m : m = toServer[1]
  OBVIOUS
<1>2. PICK e : e = Message(m.type)
  OBVIOUS
<1>3. toServer # <<>> /\ Head(toServer) = m
  BY <1>1, TailOf DEF ServerReads, TypeOK
<1>4. e.type = m.type
  BY <1>2 DEF Message
<1>5. /\ \/ Dispatch(e) \/ BatchStart(e) \/ BatchRead(e)
         \/ StreamStart(e) \/ StreamRead(e)
         \/ StreamDrain /\ nread' = nread + 1
      /\ serving' = IF pc = "read" THEN m.id ELSE serving
      /\ toServer' = Tail(toServer)
      /\ UNCHANGED <<toClient, copen, call, sending, gotStart, streaming, rc,
                     ncalls, req, clean, stray>>
  BY <1>2, <1>3 DEF ServerReads, clientVars
<1>6. nread \in Nat /\ pc \in Pcs
  BY DEF HandlerInv, HandlerTypeOK
<1> USE DEF At, peerVars, outVars, batchVars, readVars
<1>7. CASE Dispatch(e)
  <2>1. pc = "read" /\ todo = <<>> /\ UNCHANGED <<peer, room, gotStop>>
    BY <1>7 DEF Dispatch, Describe, Synthesize, Transcribe, TranscribeStart,
                IgnoreEvent, Respond, Enter, Read
  <2>2. CASE Describe(e)
    BY <1>1, <1>3, <1>4, <1>5, <2>1, <2>2 DEF Describe, Respond
  <2>3. CASE Synthesize(e)
    <3>1. \A n \in 0 .. MaxChunks : n \in Nat
      BY HandlerAssumption
    <3> QED BY <1>1, <1>3, <1>4, <1>5, <2>1, <2>3, <3>1 DEF Synthesize, Respond
  <2>4. CASE Transcribe(e)
    BY <1>1, <1>3, <1>4, <1>5, <2>1, <2>4 DEF Transcribe, Enter
  <2>5. CASE TranscribeStart(e)
    BY <1>1, <1>3, <1>4, <1>5, <2>1, <2>5 DEF TranscribeStart, Enter
  <2>6. CASE IgnoreEvent(e)
    BY <1>1, <1>3, <1>4, <1>5, <2>1, <2>6 DEF IgnoreEvent, Respond, Requests
  <2> QED BY <1>7, <2>2, <2>3, <2>4, <2>5, <2>6 DEF Dispatch
<1>8. CASE BatchStart(e)
  BY <1>1, <1>3, <1>4, <1>5, <1>8 DEF BatchStart, Read
<1>9. CASE BatchRead(e)
  <2>1. /\ pc = "batch-read" /\ todo = <<>> /\ UNCHANGED <<peer, room, todo>>
        /\ gotStop' = gotStop \/ m.type = "audio-stop"
        /\ pc' \in {"batch-head", "batch-done"}
    BY <1>4, <1>9 DEF BatchRead, Read, AppendPcm
  <2> QED BY <1>1, <1>3, <1>5, <2>1
<1>10. CASE StreamStart(e)
  BY <1>1, <1>3, <1>4, <1>5, <1>10 DEF StreamStart, Read
<1>11. CASE StreamRead(e)
  BY <1>1, <1>3, <1>4, <1>5, <1>11 DEF StreamRead, Read
<1>12. CASE StreamDrain /\ nread' = nread + 1
  <2>1. UNCHANGED <<peer, room>>
    BY <1>6, <1>12 DEF StreamDrain, Read, ReadFails
  <2> QED BY <1>1, <1>3, <1>5, <1>12, <2>1 DEF StreamDrain
<1> QED BY <1>5, <1>7, <1>8, <1>9, <1>10, <1>11, <1>12

\* Steps of the handler that only move it: a failed read, or a loop's head.
Moves(p, q, g) ==
  \/ p = "loop" /\ q \in {"read", "closed"}
  \/ p = "read" /\ q = "closed"
  \/ p = "batch-start" /\ q = "closed"
  \/ p = "batch-head" /\ q \in {"batch-read", "batch-done"}
  \/ p = "batch-read" /\ q = "batch-done"
  \/ p = "stream-start" /\ q = "closed"
  \/ p = "stream-head" /\ q = "stream-read" /\ g = "no"
  \/ p = "stream-head" /\ q = "stream-final"
  \/ p = "stream-read" /\ q = "stream-final"
  \/ p = "stream-drain" /\ q = "stream-destroy"
  \/ p = "stream-destroy" /\ q = "loop"

\* What a failing read does to the session.
LEMMA ServerReadFailsEffect ==
  ASSUME ServerReadFails
  PROVE  /\ Moves(pc, pc', gotStop)
         /\ UNCHANGED <<todo, gotStop, room, toServer, toClient, serving, copen, call,
                        sending, gotStart, streaming, rc, ncalls, req, clean, stray>>
         /\ todo = <<>> /\ (peer' = "reset" <=> peer = "reset")
<1> USE DEF At, peerVars, outVars, batchVars, readVars
<1>1. /\ UNCHANGED <<toServer, toClient, serving, copen, call,
                     sending, gotStart, streaming, rc, ncalls, req, clean, stray>>
      /\ peer' = IF peer = "up" /\ ~copen THEN "eof" ELSE peer
  BY DEF ServerReadFails, queueVars, clientVars
<1>2. CASE RequestFails
  BY <1>1, <1>2 DEF RequestFails, ReadFails, Moves
<1>3. CASE BatchStartFails
  BY <1>1, <1>3 DEF BatchStartFails, ReadFails, Moves
<1>4. CASE BatchReadFails
  BY <1>1, <1>4 DEF BatchReadFails, ReadFails, Moves
<1>5. CASE StreamStartFails
  BY <1>1, <1>5 DEF StreamStartFails, ReadFails, Moves
<1>6. CASE StreamReadFails
  BY <1>1, <1>6 DEF StreamReadFails, ReadFails, Moves
<1>7. CASE StreamDrain
  BY <1>1, <1>7 DEF StreamDrain, ReadFails, Read, Moves
<1> QED BY <1>2, <1>3, <1>4, <1>5, <1>6, <1>7 DEF ServerReadFails

\* What a step of the handler does that neither reads nor writes.
LEMMA ServerComputesEffect ==
  ASSUME ServerComputes
  PROVE  /\ UNCHANGED <<peer, gotStop, room, toServer, toClient, serving, copen, call,
                        sending, gotStart, streaming, rc, ncalls, req, clean, stray>>
         /\ todo = <<>>
         /\ \/ Moves(pc, pc', gotStop) /\ todo' = todo
            \/ /\ pc = "batch-done" /\ pc' = "loop"
               /\ todo' = todo \/ (todo' = <<"final">> /\ gotStop # "no")
            \/ /\ pc = "stream-final" /\ todo' = <<"final">>
               /\ pc' = IF gotStop = "no" THEN "stream-destroy" ELSE "stream-drain"
<1> USE DEF At, peerVars, outVars, batchVars, readVars
<1>1. UNCHANGED <<toServer, toClient, serving, copen, call,
                  sending, gotStart, streaming, rc, ncalls, req, clean, stray>>
  BY DEF ServerComputes, queueVars, clientVars
<1>2. CASE LoopHead
  BY <1>1, <1>2 DEF LoopHead, Moves
<1>3. CASE BatchHead
  BY <1>1, <1>3 DEF BatchHead, Moves
<1>4. CASE BatchDone
  BY <1>1, <1>4 DEF BatchDone
<1>5. CASE StreamHead
  BY <1>1, <1>5 DEF StreamHead, Moves
<1>6. CASE StreamFinal
  BY <1>1, <1>6 DEF StreamFinal
<1>7. CASE StreamDestroy
  BY <1>1, <1>7 DEF StreamDestroy, Moves
<1> QED BY <1>2, <1>3, <1>4, <1>5, <1>6, <1>7 DEF ServerComputes

\* A write, or one that fails, takes the next event of the answer.
LEMMA ServerWritesEffect ==
  ASSUME ServerWrites \/ ServerWriteFails
  PROVE  /\ todo # <<>> /\ todo' = Tail(todo)
         /\ UNCHANGED <<pc, peer, gotStop, toServer, serving, copen, call,
                        sending, gotStart, streaming, rc, ncalls, req, clean, stray>>
         /\ \/ toClient' = toClient /\ (room' = room \/ peer = "reset" \/ ~copen)
            \/ /\ \E k \in Forms(Head(todo)) :
                    toClient' = Append(toClient, [kind |-> k, id |-> serving])
               /\ peer # "reset" /\ copen /\ room > 0 /\ room' = room - 1
<1>1. NextEvent /\ UNCHANGED <<toServer, serving, copen, call,
                  sending, gotStart, streaming, rc, ncalls, req, clean, stray>>
  BY DEF ServerWrites, ServerWriteFails, Write, WriteFails, queueVars, clientVars
<1>2. todo # <<>> /\ todo' = Tail(todo) /\ UNCHANGED <<pc, peer, gotStop>>
  BY <1>1 DEF NextEvent
<1>3. \/ toClient' = toClient /\ (room' = room \/ peer = "reset" \/ ~copen)
      \/ /\ \E k \in Forms(Head(todo)) :
              toClient' = Append(toClient, [kind |-> k, id |-> serving])
         /\ peer # "reset" /\ copen /\ room > 0 /\ room' = room - 1
  BY DEF ServerWrites, ServerWriteFails, Write, WriteFails, queueVars
<1> QED BY <1>1, <1>2, <1>3

-----------------------------------------------------------------------------
(* The steps of the handler keep to the protocol.                          *)

\* Moving on without an answer.
LEMMA MovesProtocol ==
  ASSUME Protocol, Moves(pc, pc', gotStop),
         UNCHANGED <<todo, gotStop, toServer, toClient, serving, call, sending,
                     streaming, req>>
  PROVE  Protocol'
<1> USE DEF Protocol
<1>1. /\ pc' \in BatchPcs => pc \in BatchPcs
      /\ pc' \in StreamPcs => pc \in StreamPcs
      /\ pc' \in {"batch-head", "batch-read", "batch-done"}
           => pc \in {"batch-head", "batch-read", "batch-done"}
      /\ pc' \in {"stream-head", "stream-read", "stream-final"}
           => pc \in {"stream-head", "stream-read", "stream-final"}
      /\ pc' = "stream-read" => gotStop = "no"
      /\ pc' \notin {"stream-start", "stream-drain"} /\ pc # "closed"
      /\ pc' \in {"stream-head", "stream-final"} /\ gotStop # "no"
           => pc \in {"stream-head", "stream-final"} \/ pc = "stream-read"
  BY DEF Moves, BatchPcs, StreamPcs
<1>2. Queued' = Queued /\ Unsent' = Unsent /\ Idle' = Idle /\ InStream' = InStream
      /\ StopIsNext' = StopIsNext
  BY DEF Queued, Unsent, Idle, InStream, StopIsNext
<1>3. QuietInv'
  BY <1>1, <1>2 DEF QuietInv, Quiet
<1>4. EndInv'
  BY <1>1 DEF EndInv
<1>5. AnswerOwnInv'
  BY <1>1, <1>2 DEF AnswerOwnInv
<1>6. QueueInv'
  BY <1>1, <1>2 DEF QueueInv
<1>7. WriteInv'
  BY <1>1 DEF WriteInv
<1>8. DrainInv'
  <2>1. Feeding' => Feeding
    BY <1>1, <1>2 DEF Feeding
  <2> QED BY <1>1, <1>2, <2>1 DEF DrainInv
<1> QED BY <1>3, <1>4, <1>5, <1>6, <1>7, <1>8

\* The answer of a batch and the end of a stream: a final transcript.
LEMMA AnswersProtocol ==
  ASSUME Protocol, ClientInv, todo = <<>>,
         UNCHANGED <<gotStop, toServer, toClient, serving, call, sending,
                     streaming, req>>,
         \/ /\ pc = "batch-done" /\ pc' = "loop"
            /\ todo' = todo \/ (todo' = <<"final">> /\ gotStop # "no")
         \/ /\ pc = "stream-final" /\ todo' = <<"final">>
            /\ pc' = IF gotStop = "no" THEN "stream-destroy" ELSE "stream-drain"
  PROVE  Protocol'
<1> USE DEF Protocol
<1>1. /\ pc \in BatchPcs \cup StreamPcs /\ pc' \notin BatchPcs \cup StreamPcs
      /\ todo' = <<>> \/ todo' = <<"final">>
  BY DEF BatchPcs, StreamPcs
<1>2. Queued' = Queued /\ Unsent' = Unsent /\ Idle' = Idle /\ InStream' = InStream
      /\ StopIsNext' = StopIsNext
  BY DEF Queued, Unsent, Idle, InStream, StopIsNext
<1>3. ~Queued /\ ~Unsent /\ ~Idle
  BY <1>1 DEF QuietInv, Quiet
<1>4. QuietInv'
  BY <1>2, <1>3 DEF QuietInv
<1>5. \A j \in 1 .. Len(todo') : j = Len(todo') /\ todo'[j] = "final"
  <2>1. CASE todo' = <<>>
    BY <2>1
  <2>2. CASE todo' = <<"final">>
    <3>1. Len(todo') = 1 /\ todo'[1] = "final"
      BY <2>2
    <3> QED BY <3>1
  <2> QED BY <1>1, <2>1, <2>2
<1>6. EndInv'
  BY <1>1, <1>5 DEF EndInv
<1>7. AnswerOwnInv'
  BY <1>1, <1>2, <1>5 DEF AnswerOwnInv
<1>8. QueueInv'
  BY <1>1, <1>2 DEF QueueInv
<1>9. WriteInv'
  <2>1. call = "transcribe" /\ sending # <<>> => todo' = <<>>
    <3>1. call = "transcribe" => ~InStream
      BY DEF ClientInv, InStream
    <3>2. pc = "stream-final" => InStream
      BY DEF AnswerOwnInv, StreamPcs
    <3> QED BY <3>1, <3>2 DEF WriteInv
  <2>2. call = "start" /\ sending # <<>> => todo' = <<>>
    <3>1. pc = "batch-done" => call = "transcribe"
      BY DEF AnswerOwnInv, BatchPcs
    <3> QED BY <3>1 DEF WriteInv
  <2>3. pc' \notin {"batch-head", "batch-read", "batch-done", "stream-head",
                    "stream-read", "stream-final"}
    OBVIOUS
  <2> QED BY <2>1, <2>2, <2>3 DEF WriteInv
<1>10. DrainInv'
  <2>1. ~Feeding'
    BY <1>2, <1>3 DEF Feeding
  <2>2. pc' = "stream-drain" => StopIsNext
    BY DEF DrainInv
  <2> QED BY <1>2, <2>1, <2>2 DEF DrainInv
<1> QED BY <1>4, <1>6, <1>7, <1>8, <1>9, <1>10

\* The forms an event of the answer may take.
LEMMA FormsOf ==
  ASSUME NEW kind \in Responses, NEW k \in Forms(kind)
  PROVE  /\ k \in Received /\ (k \in Ends => k = kind)
         /\ k \in {"partial", "unmarked"} => kind = "partial"
<1>1. CASE kind = "partial"
  BY <1>1 DEF Forms, Received, Ends, Responses
<1>2. CASE kind = "final"
  BY <1>2 DEF Forms, Received, Ends, Responses
<1>3. CASE kind \notin {"partial", "final"}
  BY <1>3 DEF Forms, Received, Responses
<1> QED BY <1>1, <1>2, <1>3

\* A write, which may fail.
LEMMA WritesProtocol ==
  ASSUME Protocol, TypeOK, todo # <<>>, todo' = Tail(todo),
         UNCHANGED <<pc, gotStop, toServer, serving, call, sending, streaming, req>>,
         \/ toClient' = toClient
         \/ \E k \in Forms(Head(todo)) :
              toClient' = Append(toClient, [kind |-> k, id |-> serving])
  PROVE  Protocol'
<1> USE DEF Protocol
<1>1. PICK n \in Nat \ {0} :
        /\ n = Len(todo) /\ Head(todo) = todo[1] /\ todo[1] \in Responses
        /\ Len(todo') = n - 1 /\ \A j \in 1 .. n - 1 : todo'[j] = todo[j + 1]
        /\ todo' \in Seq(Responses)
  BY TailOf DEF TypeOK, HandlerTypeOK
<1>2. serving = req
  BY DEF AnswerOwnInv
<1>3. Queued' = Queued /\ Unsent' = Unsent /\ Idle' = Idle /\ InStream' = InStream
      /\ StopIsNext' = StopIsNext /\ Feeding' = Feeding
  BY DEF Queued, Unsent, Idle, InStream, StopIsNext, Feeding
<1>4. ~Queued /\ ~Unsent /\ ~Idle
  BY DEF QuietInv, Quiet
<1>5. QuietInv' /\ QueueInv' /\ DrainInv'
  BY <1>3, <1>4 DEF QuietInv, QueueInv, DrainInv
<1>6. WriteInv'
  <2>1. ~(call = "transcribe" /\ sending # <<>>) /\ ~(call = "start" /\ sending # <<>>)
    BY DEF WriteInv
  <2> QED BY <2>1 DEF WriteInv
<1>7. PICK k : /\ k \in Forms(todo[1])
               /\ \/ toClient' = toClient
                  \/ toClient' = Append(toClient, [kind |-> k, id |-> serving])
  <2>1. todo[1] \in Forms(todo[1])
    BY DEF Forms
  <2> QED BY <1>1, <2>1
<1>8. PICK m \in Nat : m = Len(toClient)
  BY DEF TypeOK
<1>9. PICK x : /\ x.kind = k /\ x.id = req
               /\ \/ toClient' = toClient
                  \/ /\ Len(toClient') = m + 1 /\ toClient'[m + 1] = x
                     /\ \A j \in 1 .. m : toClient'[j] = toClient[j]
  <2>1. toClient \in Seq([kind : Received, id : Nat]) /\ serving \in Nat
    BY DEF TypeOK
  <2>2. PICK x : x = [kind |-> k, id |-> serving]
    OBVIOUS
  <2>3. x \in [kind : Received, id : Nat]
    BY <1>1, <1>7, <2>1, <2>2, FormsOf
  <2>4. x.kind = k /\ x.id = req
    BY <1>2, <2>2
  <2>5. CASE toClient' = Append(toClient, x)
    BY <1>8, <2>1, <2>3, <2>4, <2>5, AppendTo
  <2> QED BY <1>7, <2>2, <2>4, <2>5
<1>10. 1 \in 1 .. n /\ \A j \in 1 .. n - 1 : j + 1 \in 1 .. n
  OBVIOUS
<1>11. /\ k \in Ends => todo[1] \in Ends
       /\ k \in {"partial", "unmarked"} => todo[1] = "partial"
  BY <1>1, <1>7, FormsOf
<1>12. EndInv'
  <2>1. \A j \in 1 .. Len(todo') : todo'[j] \in Ends =>
          j = Len(todo') /\ pc' \notin BatchPcs \cup StreamPcs
    BY <1>1, <1>10 DEF EndInv
  <2>2. \A j \in 1 .. m : toClient[j].kind \notin Ends
    BY <1>8 DEF EndInv
  <2>3. todo[1] \in Ends => n = 1 /\ pc \notin BatchPcs \cup StreamPcs
    BY <1>1, <1>10 DEF EndInv
  <2>4. n = 1 => todo' = <<>>
    BY <1>1
  <2>5. \A j \in 1 .. m + 1 : j \in 1 .. m \/ j = m + 1
    OBVIOUS
  <2>6. \A j \in 1 .. Len(toClient') : toClient'[j].kind \in Ends =>
          /\ j = Len(toClient') /\ todo' = <<>>
          /\ pc' \notin BatchPcs \cup StreamPcs
    BY <1>8, <1>9, <1>11, <2>2, <2>3, <2>4, <2>5
  <2> QED BY <2>1, <2>6 DEF EndInv
<1>13. AnswerOwnInv'
  <2>1. \A j \in 1 .. m + 1 : j \in 1 .. m \/ j = m + 1
    OBVIOUS
  <2>2. \A j \in 1 .. Len(toClient') : toClient'[j].id = req'
    BY <1>8, <1>9, <2>1 DEF AnswerOwnInv
  <2>3. todo[1] = "partial" => InStream
    BY <1>1, <1>10 DEF AnswerOwnInv
  <2>4. \A j \in 1 .. Len(toClient') :
          toClient'[j].kind \in {"partial", "unmarked"} => InStream
    BY <1>8, <1>9, <1>11, <2>1, <2>3 DEF AnswerOwnInv
  <2>5. \A j \in 1 .. Len(todo') : todo'[j] = "partial" => InStream
    BY <1>1, <1>10 DEF AnswerOwnInv
  <2> QED BY <1>2, <1>3, <2>2, <2>4, <2>5 DEF AnswerOwnInv
<1> QED BY <1>5, <1>6, <1>12, <1>13

\* The handler takes an event out of its queue.
LEMMA QueueShifts ==
  ASSUME TypeOK, toServer # <<>>, toServer' = Tail(toServer)
  PROVE  /\ Len(toServer) \in Nat \ {0} /\ Len(toServer') = Len(toServer) - 1
         /\ 1 \in 1 .. Len(toServer)
         /\ \A j \in 1 .. Len(toServer') :
              /\ j + 1 \in 1 .. Len(toServer) /\ j \in 1 .. Len(toServer)
              /\ toServer'[j] = toServer[j + 1]
         /\ Queued' => Queued
<1>1. PICK n \in Nat \ {0} :
        /\ n = Len(toServer) /\ Len(toServer') = n - 1
        /\ \A j \in 1 .. n - 1 : toServer'[j] = toServer[j + 1]
  BY TailOf DEF TypeOK
<1>2. 1 \in 1 .. n /\ \A j \in 1 .. n - 1 : j + 1 \in 1 .. n /\ j \in 1 .. n
  OBVIOUS
<1> QED BY <1>1, <1>2 DEF Queued

\* QueueInv when the handler takes an event.
LEMMA QueueShiftsInv ==
  ASSUME TypeOK, QueueInv, toServer # <<>>, toServer' = Tail(toServer),
         UNCHANGED <<call, sending, streaming, req>>,
         pc' \in BatchPcs \cup StreamPcs =>
           pc \in BatchPcs \cup StreamPcs \/ toServer[1].type \in Requests
  PROVE  QueueInv'
<1>1. PICK n \in Nat \ {0} : n = Len(toServer) /\ Len(toServer') = n - 1
  BY QueueShifts
<1>2. /\ 1 \in 1 .. n
      /\ \A j \in 1 .. n - 1 : j + 1 \in 1 .. n /\ toServer'[j] = toServer[j + 1]
  BY <1>1, QueueShifts
<1>3. Unsent' = Unsent /\ InStream' = InStream
  BY DEF Unsent, InStream
<1>4. \A j \in 1 .. n - 1 : toServer'[j].id <= req
  BY <1>1, <1>2 DEF QueueInv
<1>5. Unsent => \A j \in 1 .. n - 1 : toServer'[j].id # req
  BY <1>1, <1>2 DEF QueueInv
<1>6. pc' \in BatchPcs \cup StreamPcs => \A j \in 1 .. n - 1 : toServer'[j].id = req
  <2>1. CASE pc \in BatchPcs \cup StreamPcs
    BY <1>1, <1>2, <2>1 DEF QueueInv
  <2>2. CASE toServer[1].type \in Requests
    <3>1. \A i \in 1 .. n : ~(i < 1)
      OBVIOUS
    <3>2. \A i \in 1 .. n : toServer[i].id = req
      BY <1>1, <1>2, <2>2, <3>1 DEF QueueInv
    <3> QED BY <1>2, <3>2
  <2> QED BY <2>1, <2>2
<1>7. ASSUME NEW j \in 1 .. n - 1, toServer'[j].type \in Requests
      PROVE  /\ \A i \in 1 .. n - 1 :
                  IF i < j THEN toServer'[i].id # req ELSE toServer'[i].id = req
             /\ call = toServer'[j].type
                  \/ (toServer'[j].type = "transcribe-start" /\ InStream)
  <2>1. toServer[j + 1].type \in Requests /\ j + 1 \in 1 .. n
    BY <1>2, <1>7
  <2>2. \A i \in 1 .. n :
          IF i < j + 1 THEN toServer[i].id # req ELSE toServer[i].id = req
    BY <1>1, <2>1 DEF QueueInv
  <2>3. \A i \in 1 .. n - 1 : i < j <=> i + 1 < j + 1
    OBVIOUS
  <2>4. \A i \in 1 .. n - 1 :
          IF i < j THEN toServer'[i].id # req ELSE toServer'[i].id = req
    BY <1>2, <2>2, <2>3
  <2>5. call = toServer[j + 1].type
          \/ (toServer[j + 1].type = "transcribe-start" /\ InStream)
    BY <1>1, <2>1 DEF QueueInv
  <2> QED BY <1>2, <2>4, <2>5
<1>8. \A i, j \in 1 .. n - 1 :
        toServer'[i].type \in Requests /\ toServer'[j].type \in Requests => i = j
  <2> SUFFICES ASSUME NEW i \in 1 .. n - 1, NEW j \in 1 .. n - 1,
                      toServer'[i].type \in Requests, toServer'[j].type \in Requests
               PROVE  i = j
    OBVIOUS
  <2>1. i + 1 = j + 1
    BY <1>1, <1>2 DEF QueueInv
  <2> QED BY <2>1
<1> QED BY <1>1, <1>3, <1>4, <1>5, <1>6, <1>7, <1>8 DEF QueueInv

\* A call that still writes has not been answered, when the queue shifts.
LEMMA WriteShifts ==
  ASSUME TypeOK, WriteInv, toServer # <<>>, toServer' = Tail(toServer),
         UNCHANGED <<call, sending, req>>,
         call = "transcribe" /\ sending # <<>> =>
           /\ todo' = <<>>
           /\ pc' \in {"batch-head", "batch-read", "batch-done"} => gotStop' = "no",
         call = "start" /\ sending # <<>> =>
           todo' = <<>> /\ pc' \notin {"stream-head", "stream-read", "stream-final"}
  PROVE  WriteInv'
<1>1. \A j \in 1 .. Len(toServer') : \E i \in 1 .. Len(toServer) :
        toServer'[j] = toServer[i]
  BY QueueShifts
<1>2. call = "transcribe" /\ sending # <<>> =>
        \A j \in 1 .. Len(toServer') :
          toServer'[j].id = req => toServer'[j].type # "audio-stop"
  BY <1>1 DEF WriteInv
<1>3. call = "start" /\ sending # <<>> =>
        \A j \in 1 .. Len(toServer') :
          toServer'[j].id = req => toServer'[j].type # "audio-start"
  BY <1>1 DEF WriteInv
<1> QED BY <1>2, <1>3 DEF WriteInv

\* Audio-stop and transcribe-stop stay together, unless the audio-stop is
\* what was taken.
Together(q) ==
  /\ \A j \in 1 .. Len(q) : q[j].id = req /\ q[j].type = "transcribe-stop" =>
       j > 1 /\ q[j - 1].type = "audio-stop"
  /\ \A j \in 1 .. Len(q) : q[j].id = req /\ q[j].type = "audio-stop" =>
       IF j < Len(q) THEN q[j + 1].type = "transcribe-stop"
                     ELSE sending = <<"transcribe-stop">>
  /\ sending = <<"transcribe-stop">> => q # <<>> /\ q[Len(q)].type = "audio-stop"

\* The two ends of a stream stay together when an event before them is taken.
LEMMA TogetherShifts ==
  ASSUME TypeOK, toServer # <<>>, Together(toServer),
         Len(toServer) # 1 /\ toServer[1].type = "audio-stop" =>
           ~(toServer[2].id = req /\ toServer[2].type = "transcribe-stop"),
         Len(toServer) = 1 => toServer[1].type # "audio-stop"
  PROVE  Together(Tail(toServer))
<1>1. PICK n \in Nat \ {0} : n = Len(toServer)
  BY TailOf DEF TypeOK
<1>2. PICK q : q = Tail(toServer)
  OBVIOUS
<1>3. Len(q) = n - 1 /\ \A j \in 1 .. n - 1 : q[j] = toServer[j + 1]
  BY <1>1, <1>2, TailOf DEF TypeOK
<1>4. ASSUME NEW j \in 1 .. n - 1, q[j].id = req, q[j].type = "transcribe-stop"
      PROVE  j > 1 /\ q[j - 1].type = "audio-stop"
  <2>1. j + 1 \in 1 .. n /\ (j + 1) - 1 = j
    OBVIOUS
  <2>2. toServer[j].type = "audio-stop"
    BY <1>1, <1>3, <1>4, <2>1 DEF Together
  <2>3. j # 1
    <3>1. j = 1 => n # 1 /\ toServer[2].id = req
                     /\ toServer[2].type = "transcribe-stop"
      BY <1>3, <1>4
    <3> QED BY <1>1, <2>2, <3>1
  <2>4. j - 1 \in 1 .. n - 1 /\ (j - 1) + 1 = j
    BY <2>3
  <2> QED BY <1>3, <2>2, <2>3, <2>4
<1>5. ASSUME NEW j \in 1 .. n - 1, q[j].id = req, q[j].type = "audio-stop"
      PROVE  IF j < Len(q) THEN q[j + 1].type = "transcribe-stop"
                           ELSE sending = <<"transcribe-stop">>
  <2>1. j + 1 \in 1 .. n /\ toServer[j + 1].id = req
        /\ toServer[j + 1].type = "audio-stop"
    BY <1>3, <1>5
  <2>2. IF j + 1 < n THEN toServer[(j + 1) + 1].type = "transcribe-stop"
                     ELSE sending = <<"transcribe-stop">>
    BY <1>1, <2>1 DEF Together
  <2>3. j < n - 1 => j + 1 < n /\ j + 1 \in 1 .. n - 1
    OBVIOUS
  <2>4. ~(j < n - 1) => ~(j + 1 < n)
    OBVIOUS
  <2> QED BY <1>3, <2>2, <2>3, <2>4
<1>6. ASSUME sending = <<"transcribe-stop">>
      PROVE  q # <<>> /\ q[Len(q)].type = "audio-stop"
  <2>1. toServer[n].type = "audio-stop"
    BY <1>1, <1>6 DEF Together
  <2>2. n # 1
    BY <1>1, <2>1
  <2>3. n - 1 \in 1 .. n - 1 /\ (n - 1) + 1 = n
    BY <2>2
  <2> QED BY <1>3, <2>1, <2>3
<1> QED BY <1>2, <1>3, <1>4, <1>5, <1>6 DEF Together

\* The same in the next state, where the call has not moved.
LEMMA TogetherNext ==
  ASSUME Together(Tail(toServer)), toServer' = Tail(toServer),
         UNCHANGED <<req, sending>>
  PROVE  Together(toServer)'
  BY DEF Together

\* DrainInv in terms of Together.
LEMMA DrainTogether ==
  DrainInv <=> /\ pc = "stream-read" => gotStop = "no"
               /\ pc = "stream-drain" => StopIsNext
               /\ pc \in {"stream-head", "stream-final"} /\ gotStop # "no"
                    => StopIsNext
               /\ Feeding /\ InStream => Together(toServer)
  BY DEF DrainInv, Together

\* The handler drops an event: a leftover of an earlier request where it
\* waits for the next one, or the transcribe-stop where it drains a stream.
LEMMA DropsProtocol ==
  ASSUME TypeOK, Protocol, toServer # <<>>, toServer' = Tail(toServer),
         UNCHANGED <<todo, gotStop, toClient, call, sending, streaming, req>>,
         toServer[1].type \notin Requests, todo = <<>>,
         pc \in {"read", "stream-drain"}, pc' \in {"loop", "stream-destroy"}
  PROVE  Protocol'
<1> USE DEF Protocol
<1>1. pc \notin BatchPcs \cup StreamPcs /\ pc' \notin BatchPcs \cup StreamPcs
  BY DEF BatchPcs, StreamPcs
<1>2. Unsent' = Unsent /\ Idle' = Idle /\ InStream' = InStream
  BY DEF Unsent, Idle, InStream
<1>3. QuietInv'
  <2>1. Queued' => Queued
    BY QueueShifts
  <2> QED BY <1>1, <1>2, <2>1 DEF QuietInv, Quiet
<1>4. EndInv' /\ AnswerOwnInv'
  BY <1>1, <1>2 DEF EndInv, AnswerOwnInv
<1>5. QueueInv'
  BY <1>1, QueueShiftsInv
<1>6. WriteInv'
  BY WriteShifts
<1>7. DrainInv'
  <2> SUFFICES ASSUME Queued, InStream PROVE Together(toServer)'
    <3>1. Feeding' => Queued
      BY QueueShifts DEF Feeding
    <3> QED BY <1>2, <3>1 DEF DrainInv, Together
  <2>1. Together(toServer)
    BY DrainTogether DEF Feeding
  <2>2. PICK n \in Nat \ {0} : n = Len(toServer) /\ 1 \in 1 .. n
    BY QueueShifts
  <2>3. PICK j \in 1 .. n : toServer[j].type \in Requests
    BY <2>2 DEF Queued
  <2>4. j # 1
    BY <2>3
  <2>5. n # 1 /\ 2 \in 1 .. n /\ (j = 2 \/ 2 < j)
    BY <2>2, <2>4
  <2>6. toServer[2].id = req => toServer[2].type # "transcribe-stop"
    <3>1. 2 < j => toServer[2].id # req
      BY <2>2, <2>3, <2>5 DEF QueueInv
    <3> QED BY <2>3, <2>5, <3>1 DEF Requests
  <2>7. Together(Tail(toServer))
    BY <2>1, <2>2, <2>5, <2>6, TogetherShifts
  <2> QED BY <2>7, TogetherNext
<1> QED BY <1>3, <1>4, <1>5, <1>6, <1>7

\* The events of a synthesis: only the last one ends the answer.
LEMMA SpeechEnds ==
  ASSUME NEW n \in Nat
  PROVE  \A j \in 1 .. Len(Speech(n)) :
           /\ Speech(n)[j] \in Ends => j = Len(Speech(n))
           /\ Speech(n)[j] # "partial"
<1>1. PICK c : c = [i \in 1 .. n |-> "audio-chunk"]
  OBVIOUS
<1>2. c \in Seq(Responses) /\ Len(c) = n /\ \A i \in 1 .. n : c[i] = "audio-chunk"
  BY <1>1 DEF Responses
<1>3. PICK s : s = <<"audio-start">> \o c \o <<"audio-stop">>
  OBVIOUS
<1>4. /\ Len(s) = n + 2 /\ s[1] = "audio-start" /\ s[n + 2] = "audio-stop"
      /\ \A i \in 2 .. n + 1 : s[i] = c[i - 1]
  BY <1>2, <1>3
<1>5. \A i \in 1 .. n + 2 : i = 1 \/ i = n + 2 \/ (i \in 2 .. n + 1 /\ i - 1 \in 1 .. n)
  OBVIOUS
<1>6. \A i \in 1 .. n + 2 : (s[i] \in Ends => i = n + 2) /\ s[i] # "partial"
  BY <1>2, <1>4, <1>5 DEF Ends
<1>7. Speech(n) = s
  BY <1>1, <1>3 DEF Speech
<1> QED BY <1>4, <1>6, <1>7

\* The handler reads the request of the current call.
LEMMA RequestProtocol ==
  ASSUME TypeOK, ClientInv, Protocol, toServer # <<>>, toServer' = Tail(toServer),
         UNCHANGED <<gotStop, toClient, call, sending, streaming, req>>,
         pc = "read", serving' = toServer[1].id, toServer[1].type \in Requests,
         \/ /\ pc' = "loop"
            /\ \/ todo' = <<>>
               \/ toServer[1].type = "describe" /\ todo' = <<"info">>
               \/ /\ toServer[1].type = "synthesize"
                  /\ \E n \in Nat : todo' = Speech(n)
         \/ toServer[1].type = "transcribe" /\ pc' = "batch-start" /\ todo' = <<>>
         \/ toServer[1].type = "transcribe-start" /\ pc' = "stream-start" /\ todo' = <<>>
  PROVE  Protocol'
<1> USE DEF Protocol
<1>1. PICK n \in Nat \ {0} : n = Len(toServer) /\ Len(toServer') = n - 1 /\ 1 \in 1 .. n
  BY QueueShifts
<1>2. /\ \A j \in 1 .. n - 1 : toServer'[j] = toServer[j + 1] /\ j + 1 \in 1 .. n
      /\ \A j \in 1 .. n - 1 : j + 1 # 1
  BY <1>1, QueueShifts
<1>3. Queued
  BY <1>1 DEF Queued
<1>4. ~Idle /\ ~Unsent /\ toClient = <<>>
  BY <1>3 DEF QuietInv, Quiet
<1>5. ~Queued'
  <2>1. \A j \in 1 .. n : toServer[j].type \in Requests => j = 1
    BY <1>1 DEF QueueInv
  <2> QED BY <1>1, <1>2, <2>1 DEF Queued
<1>6. Unsent' = Unsent /\ Idle' = Idle /\ InStream' = InStream
  BY DEF Unsent, Idle, InStream
<1>7. serving' = req
  <2>1. ~(1 < 1)
    OBVIOUS
  <2> QED BY <1>1, <2>1 DEF QueueInv
<1>8. /\ call = toServer[1].type \/ (toServer[1].type = "transcribe-start" /\ InStream)
      /\ call # "transcribe-start"
  BY <1>1 DEF QueueInv, TypeOK, Calls
<1>9. \A j \in 1 .. Len(todo') :
        (todo'[j] \in Ends => j = Len(todo')) /\ todo'[j] # "partial"
  <2>1. CASE todo' = <<>>
    BY <2>1
  <2>2. CASE todo' = <<"info">>
    <3>1. Len(todo') = 1 /\ todo'[1] = "info"
      BY <2>2
    <3> QED BY <3>1
  <2>3. CASE \E k \in Nat : todo' = Speech(k)
    BY <2>3, SpeechEnds
  <2> QED BY <2>1, <2>2, <2>3
<1>10. todo' # <<>> => pc' \notin BatchPcs \cup StreamPcs
  BY DEF BatchPcs, StreamPcs
<1>11. QuietInv'
  BY <1>4, <1>5, <1>6 DEF QuietInv
<1>12. EndInv'
  <2>1. toClient' = <<>>
    BY <1>4
  <2>2. \A j \in 1 .. Len(todo') : todo' # <<>>
    OBVIOUS
  <2> QED BY <1>9, <1>10, <2>1, <2>2 DEF EndInv
<1>13. AnswerOwnInv'
  <2>1. toClient' = <<>>
    BY <1>4
  <2>2. pc' \in BatchPcs => call = "transcribe"
    BY <1>8 DEF BatchPcs
  <2>3. pc' \in StreamPcs => InStream
    BY <1>8 DEF StreamPcs
  <2> QED BY <1>6, <1>7, <1>9, <2>1, <2>2, <2>3 DEF AnswerOwnInv
<1>14. QueueInv'
  BY QueueShiftsInv
<1>15. WriteInv'
  <2>1. call \in {"transcribe", "start"} => todo' = <<>>
    <3>1. call = "transcribe" => ~InStream
      BY DEF ClientInv, InStream
    <3> QED BY <1>8, <3>1
  <2> QED BY <2>1, WriteShifts
<1>16. DrainInv'
  <2> SUFFICES ASSUME pc' = "stream-start" PROVE Together(toServer)'
    <3>1. Feeding' => pc' = "stream-start"
      BY <1>5 DEF Feeding
    <3> QED BY <3>1 DEF DrainInv, Together
  <2>1. toServer[1].type = "transcribe-start" /\ InStream
    BY <1>8
  <2>2. Together(toServer)
    BY <1>3, <2>1, DrainTogether DEF Feeding
  <2>3. Together(Tail(toServer))
    BY <2>1, <2>2, TogetherShifts
  <2> QED BY <2>3, TogetherNext
<1> QED BY <1>11, <1>12, <1>13, <1>14, <1>15, <1>16

\* The handler reads in a loop of its own: no request is in its queue.
LEMMA BusyReads ==
  ASSUME TypeOK, Protocol, toServer # <<>>, toServer' = Tail(toServer),
         UNCHANGED <<toClient, call, sending, streaming, req, serving>>,
         pc \in BatchPcs \cup StreamPcs,
         pc' \in BatchPcs => pc \in BatchPcs,
         pc' \in StreamPcs => pc \in StreamPcs,
         todo' = <<>> \/ (todo' = <<"partial">> /\ pc \in StreamPcs)
  PROVE  /\ QuietInv' /\ EndInv' /\ AnswerOwnInv' /\ QueueInv'
         /\ toServer[1].id = req /\ ~Queued' /\ InStream' = InStream
<1> USE DEF Protocol
<1>1. ~Idle /\ ~Unsent /\ ~Queued
  BY DEF QuietInv, Quiet
<1>2. Unsent' = Unsent /\ Idle' = Idle /\ InStream' = InStream
  BY DEF Unsent, Idle, InStream
<1>3. ~Queued'
  BY <1>1, QueueShifts
<1>4. QuietInv'
  BY <1>1, <1>2, <1>3 DEF QuietInv
<1>5. \A j \in 1 .. Len(todo') : todo'[j] = "partial" /\ pc \in StreamPcs
  <2>1. CASE todo' = <<>>
    BY <2>1
  <2>2. CASE todo' = <<"partial">> /\ pc \in StreamPcs
    <3>1. Len(todo') = 1 /\ todo'[1] = "partial"
      BY <2>2
    <3> QED BY <2>2, <3>1
  <2> QED BY <2>1, <2>2
<1>6. EndInv'
  <2>1. \A j \in 1 .. Len(toClient) : toClient[j].kind \notin Ends
    BY DEF EndInv
  <2>2. "partial" \notin Ends
    BY DEF Ends
  <2> QED BY <1>5, <2>1, <2>2 DEF EndInv
<1>7. AnswerOwnInv'
  <2>1. serving = req /\ (pc \in StreamPcs => InStream)
    BY DEF AnswerOwnInv
  <2> QED BY <1>2, <1>5, <2>1 DEF AnswerOwnInv
<1>8. QueueInv'
  BY QueueShiftsInv
<1>9. toServer[1].id = req
  BY QueueShifts DEF QueueInv
<1> QED BY <1>2, <1>3, <1>4, <1>6, <1>7, <1>8, <1>9

\* The handler reads the audio of a batch.
LEMMA BatchProtocol ==
  ASSUME TypeOK, ClientInv, Protocol, toServer # <<>>, toServer' = Tail(toServer),
         UNCHANGED <<toClient, call, sending, streaming, req, serving>>,
         todo' = <<>>,
         \/ /\ pc = "batch-start" /\ pc' \in {"batch-head", "closed"}
            /\ gotStop' = "no"
         \/ /\ pc = "batch-read" /\ pc' \in {"batch-head", "batch-done"}
            /\ gotStop' = gotStop \/ toServer[1].type = "audio-stop"
  PROVE  Protocol'
<1> USE DEF Protocol
<1>1. pc \in BatchPcs /\ pc' \notin StreamPcs
  BY DEF BatchPcs, StreamPcs
<1>2. /\ QuietInv' /\ EndInv' /\ AnswerOwnInv' /\ QueueInv'
      /\ toServer[1].id = req /\ ~Queued'
  BY <1>1, BusyReads
<1>3. call = "transcribe"
  BY <1>1 DEF AnswerOwnInv
<1>4. WriteInv'
  <2>1. sending # <<>> => toServer[1].type # "audio-stop"
    BY <1>2, <1>3, QueueShifts DEF WriteInv
  <2>2. sending # <<>> => gotStop' = "no"
    BY <1>3, <2>1 DEF WriteInv
  <2> QED BY <1>3, <2>2, WriteShifts
<1>5. DrainInv'
  BY <1>2 DEF DrainInv, Feeding
<1> QED BY <1>2, <1>4, <1>5

\* The handler reads the event behind transcribe-start.
LEMMA StreamStartProtocol ==
  ASSUME TypeOK, ClientInv, Protocol, toServer # <<>>, toServer' = Tail(toServer),
         UNCHANGED <<toClient, call, sending, streaming, req, serving>>,
         todo' = <<>>, gotStop' = "no", pc = "stream-start",
         \/ pc' = "closed"
         \/ toServer[1].type = "audio-start" /\ pc' \in {"loop", "stream-head"}
  PROVE  Protocol'
<1> USE DEF Protocol
<1>1. pc \in StreamPcs /\ pc' \notin BatchPcs
  BY DEF BatchPcs, StreamPcs
<1>2. /\ QuietInv' /\ EndInv' /\ AnswerOwnInv' /\ QueueInv'
      /\ toServer[1].id = req /\ ~Queued'
  BY <1>1, BusyReads
<1>3. InStream /\ call # "transcribe"
  BY <1>1 DEF AnswerOwnInv, ClientInv, InStream
<1>4. WriteInv'
  <2>1. call = "start" /\ sending # <<>> => toServer[1].type # "audio-start"
    BY <1>2, QueueShifts DEF WriteInv
  <2> QED BY <1>3, <2>1, WriteShifts
<1>5. DrainInv'
  <2> SUFFICES ASSUME pc' = "stream-head" PROVE Together(toServer)'
    <3>1. Feeding' => pc' = "stream-head"
      BY <1>2 DEF Feeding
    <3> QED BY <3>1 DEF DrainInv, Together
  <2>1. Together(toServer)
    BY <1>3, DrainTogether DEF Feeding
  <2>2. Together(Tail(toServer))
    BY <2>1, TogetherShifts
  <2> QED BY <2>2, TogetherNext
<1> QED BY <1>2, <1>4, <1>5

\* The handler reads in the stream loop; it never meets transcribe-stop there.
LEMMA StreamReadProtocol ==
  ASSUME TypeOK, ClientInv, Protocol, toServer # <<>>, toServer' = Tail(toServer),
         UNCHANGED <<toClient, call, sending, streaming, req, serving>>,
         todo' = <<>> \/ todo' = <<"partial">>,
         pc = "stream-read", pc' = "stream-head",
         gotStop' = IF toServer[1].type \in {"audio-stop", "transcribe-stop"}
                    THEN toServer[1].type ELSE gotStop
  PROVE  Protocol'
<1> USE DEF Protocol
<1>1. pc \in StreamPcs /\ pc' \notin BatchPcs
  BY DEF BatchPcs, StreamPcs
<1>2. /\ QuietInv' /\ EndInv' /\ AnswerOwnInv' /\ QueueInv'
      /\ toServer[1].id = req /\ ~Queued' /\ InStream' = InStream
  BY <1>1, BusyReads
<1>3. InStream /\ call # "transcribe"
  BY <1>1 DEF AnswerOwnInv, ClientInv, InStream
<1>4. WriteInv'
  <2>1. ~(call = "start" /\ sending # <<>>)
    BY DEF WriteInv
  <2> QED BY <1>3, <2>1, WriteShifts
<1>5. gotStop = "no" /\ Together(toServer)
  BY <1>3, DrainTogether DEF Feeding
<1>6. PICK n \in Nat \ {0} : n = Len(toServer) /\ 1 \in 1 .. n /\ Len(toServer') = n - 1
  BY QueueShifts
<1>7. toServer[1].type # "transcribe-stop"
  <2>1. ~(1 > 1)
    OBVIOUS
  <2> QED BY <1>2, <1>5, <1>6, <2>1 DEF Together
<1>8. CASE toServer[1].type = "audio-stop"
  <2>1. ~Feeding'
    BY <1>2, <1>8 DEF Feeding
  <2>2. IF 1 < n THEN toServer[1 + 1].type = "transcribe-stop"
                 ELSE sending = <<"transcribe-stop">>
    BY <1>2, <1>5, <1>6, <1>8 DEF Together
  <2>3. StopIsNext'
    <3>1. CASE n = 1
      <4>1. toServer' = <<>>
        <5>1. toServer' \in Seq([type : Types, id : Nat]) /\ Len(toServer') = 0
          BY <3>1, <1>6, TailOf DEF TypeOK
        <5> QED BY <5>1
      <4> QED BY <2>2, <3>1, <4>1 DEF StopIsNext
    <3>2. CASE n # 1
      <4>1. 1 < n /\ 1 \in 1 .. n - 1 /\ 1 + 1 = 2
        BY <3>2
      <4>2. toServer'[1].type = "transcribe-stop"
        BY <1>6, <2>2, <4>1, QueueShifts
      <4>3. toServer' # <<>>
        <5>1. Len(toServer') # 0
          BY <1>6, <4>1
        <5>2. Len(<<>>) = 0
          OBVIOUS
        <5> QED BY <5>1, <5>2
      <4> QED BY <4>2, <4>3 DEF StopIsNext
    <3> QED BY <3>1, <3>2
  <2> QED BY <1>2, <1>4, <2>1, <2>3 DEF DrainInv
<1>9. CASE toServer[1].type # "audio-stop"
  <2>1. gotStop' = "no"
    BY <1>5, <1>7, <1>9
  <2>2. Together(Tail(toServer))
    BY <1>5, <1>9, TogetherShifts
  <2>3. Together(toServer)'
    BY <2>2, TogetherNext
  <2>4. DrainInv'
    BY <2>1, <2>3 DEF DrainInv, Together
  <2> QED BY <1>2, <1>4, <2>4
<1> QED BY <1>8, <1>9

\* The handler's reads keep to the protocol.
LEMMA ServerReadsProtocol ==
  ASSUME HandlerInv, TypeOK, ClientInv, Protocol, ServerReads
  PROVE  Protocol'
<1>1. PICK t : t = toServer[1].type
  OBVIOUS
<1>2. /\ toServer # <<>> /\ toServer' = Tail(toServer) /\ todo = <<>>
      /\ UNCHANGED <<toClient, call, sending, streaming, req>>
      /\ serving' = IF pc = "read" THEN toServer[1].id ELSE serving
  BY ServerReadsEffect
<1>3. \/ /\ pc = "read" /\ pc' = "loop" /\ gotStop' = gotStop
         /\ \/ t \notin Requests /\ todo' = <<>>
            \/ t = "describe" /\ todo' = <<"info">>
            \/ /\ t = "synthesize"
               /\ todo' = <<>> \/ \E n \in Nat : todo' = Speech(n)
      \/ /\ pc = "read" /\ todo' = <<>> /\ gotStop' = gotStop
         /\ \/ t = "transcribe" /\ pc' \in {"loop", "batch-start"}
            \/ t = "transcribe-start" /\ pc' \in {"loop", "stream-start"}
      \/ /\ pc = "batch-start" /\ pc' \in {"batch-head", "closed"}
         /\ gotStop' = "no" /\ todo' = <<>>
      \/ /\ pc = "batch-read" /\ pc' \in {"batch-head", "batch-done"}
         /\ gotStop' = gotStop \/ t = "audio-stop"
         /\ todo' = <<>>
      \/ /\ pc = "stream-start" /\ todo' = <<>> /\ gotStop' = "no"
         /\ \/ pc' = "closed"
            \/ t = "audio-start" /\ pc' \in {"loop", "stream-head"}
      \/ /\ pc = "stream-read" /\ pc' = "stream-head"
         /\ todo' = <<>> \/ todo' = <<"partial">>
         /\ gotStop' = IF t \in {"audio-stop", "transcribe-stop"}
                       THEN t ELSE gotStop
      \/ /\ pc = "stream-drain" /\ pc' = "stream-destroy"
         /\ todo' = <<>> /\ gotStop' = gotStop
  BY <1>1, ServerReadsEffect
<1>4. CASE pc = "read" /\ t \notin Requests
  <2>1. pc' = "loop" /\ todo' = <<>> /\ gotStop' = gotStop
    BY <1>3, <1>4 DEF Requests
  <2> QED BY <1>1, <1>2, <1>4, <2>1, DropsProtocol
<1>5. CASE pc = "stream-drain"
  <2>1. pc' = "stream-destroy" /\ todo' = <<>> /\ gotStop' = gotStop
    BY <1>3, <1>5
  <2>2. t \notin Requests
    BY <1>1, <1>2, <1>5 DEF Protocol, DrainInv, StopIsNext, Requests
  <2> QED BY <1>1, <1>2, <1>5, <2>1, <2>2, DropsProtocol
<1>6. CASE pc = "read" /\ t \in Requests
  <2>1. /\ gotStop' = gotStop /\ serving' = toServer[1].id
        /\ \/ /\ pc' = "loop"
              /\ \/ todo' = <<>>
                 \/ t = "describe" /\ todo' = <<"info">>
                 \/ t = "synthesize" /\ \E n \in Nat : todo' = Speech(n)
           \/ t = "transcribe" /\ pc' = "batch-start" /\ todo' = <<>>
           \/ t = "transcribe-start" /\ pc' = "stream-start" /\ todo' = <<>>
    BY <1>2, <1>3, <1>6
  <2> QED BY <1>1, <1>2, <1>6, <2>1, RequestProtocol
<1>7. CASE pc \in {"batch-start", "batch-read"}
  <2>1. /\ serving' = serving /\ todo' = <<>>
        /\ \/ /\ pc = "batch-start" /\ pc' \in {"batch-head", "closed"}
              /\ gotStop' = "no"
           \/ /\ pc = "batch-read" /\ pc' \in {"batch-head", "batch-done"}
              /\ gotStop' = gotStop \/ t = "audio-stop"
    BY <1>2, <1>3, <1>7
  <2> QED BY <1>1, <1>2, <2>1, BatchProtocol
<1>8. CASE pc = "stream-start"
  <2>1. /\ serving' = serving /\ todo' = <<>> /\ gotStop' = "no"
        /\ \/ pc' = "closed"
           \/ t = "audio-start" /\ pc' \in {"loop", "stream-head"}
    BY <1>2, <1>3, <1>8
  <2> QED BY <1>1, <1>2, <1>8, <2>1, StreamStartProtocol
<1>9. CASE pc = "stream-read"
  <2>1. /\ serving' = serving /\ (todo' = <<>> \/ todo' = <<"partial">>)
        /\ pc' = "stream-head"
        /\ gotStop' = IF t \in {"audio-stop", "transcribe-stop"}
                      THEN t ELSE gotStop
    BY <1>2, <1>3, <1>9
  <2> QED BY <1>1, <1>2, <1>9, <2>1, StreamReadProtocol
<1> QED BY <1>3, <1>4, <1>5, <1>6, <1>7, <1>8, <1>9

-----------------------------------------------------------------------------
(* The steps of the library keep to the protocol.                          *)

\* What a call sets out to write.
LEMMA ScriptOf ==
  ASSUME NEW c \in Calls, NEW s \in Scripts(c)
  PROVE  /\ s \in Seq(Types) /\ s # <<>>
         /\ c = "describe" => s = <<"describe">>
         /\ c = "synthesize" => s = <<"synthesize">>
         /\ c = "start" => s = <<"transcribe-start", "audio-start">>
         /\ c = "chunk" => s = <<"audio-chunk">>
         /\ c = "stop" => s = <<"audio-stop", "transcribe-stop">>
         /\ c = "transcribe" =>
              /\ s[1] = "transcribe"
              /\ \A j \in 1 .. Len(s) :
                   /\ s[j] \in {"transcribe", "audio-start", "audio-chunk", "audio-stop"}
                   /\ s[j] = "transcribe" => j = 1
                   /\ s[j] = "audio-stop" => j = Len(s)
<1>1. CASE c # "transcribe"
  <2>1. \/ c = "describe" /\ s = <<"describe">>
        \/ c = "synthesize" /\ s = <<"synthesize">>
        \/ c = "start" /\ s = <<"transcribe-start", "audio-start">>
        \/ c = "chunk" /\ s = <<"audio-chunk">>
        \/ c = "stop" /\ s = <<"audio-stop", "transcribe-stop">>
    BY <1>1 DEF Calls, Scripts, StopScript
  <2>2. s \in Seq(Types) /\ s # <<>>
    <3>1. {"describe", "synthesize", "transcribe-start", "audio-start",
           "audio-chunk", "audio-stop", "transcribe-stop"} \subseteq Types
      BY DEF Types
    <3>2. \A x, y \in Types : /\ <<x>> \in Seq(Types) /\ <<x, y>> \in Seq(Types)
                             /\ <<x>> # <<>> /\ <<x, y>> # <<>>
      OBVIOUS
    <3> QED BY <2>1, <3>1, <3>2
  <2> QED BY <1>1, <2>1, <2>2
<1>2. CASE c = "transcribe"
  <2>1. PICK n \in 1 .. MaxSamples :
          s = <<"transcribe", "audio-start">> \o [i \in 1 .. n |-> "audio-chunk"]
                \o <<"audio-stop">>
    BY <1>2 DEF Scripts
  <2>2. n \in Nat
    BY SessionAssumption
  <2>3. PICK k : k = [i \in 1 .. n |-> "audio-chunk"]
    OBVIOUS
  <2>4. k \in Seq(Types) /\ Len(k) = n /\ \A i \in 1 .. n : k[i] = "audio-chunk"
    BY <2>2, <2>3 DEF Types
  <2>5. PICK h : h = <<"transcribe", "audio-start">>
    OBVIOUS
  <2>6. h \in Seq(Types) /\ Len(h) = 2 /\ h[1] = "transcribe" /\ h[2] = "audio-start"
    BY <2>5 DEF Types
  <2>7. s = h \o k \o <<"audio-stop">>
    BY <2>1, <2>3, <2>5
  <2>8. "audio-stop" \in Types
    BY DEF Types
  <2>9. /\ s \in Seq(Types) /\ Len(s) = n + 3
        /\ s[1] = "transcribe" /\ s[2] = "audio-start" /\ s[n + 3] = "audio-stop"
        /\ \A i \in 3 .. n + 2 : s[i] = k[i - 2]
    <3>1. PICK u : u = h \o k
      OBVIOUS
    <3>2. /\ u \in Seq(Types) /\ Len(u) = n + 2 /\ u[1] = h[1] /\ u[2] = h[2]
          /\ \A i \in 3 .. n + 2 : u[i] = k[i - 2]
      <4>1. u \in Seq(Types) /\ Len(u) = Len(h) + Len(k)
        BY <2>4, <2>6, <3>1, ConcatTo
      <4>2. \A i \in 1 .. Len(h) + Len(k) :
              u[i] = IF i <= Len(h) THEN h[i] ELSE k[i - Len(h)]
        BY <2>4, <2>6, <3>1, ConcatTo
      <4>3. \A i \in 1 .. n + 2 : u[i] = IF i <= 2 THEN h[i] ELSE k[i - 2]
        BY <2>2, <2>4, <2>6, <4>2
      <4> QED BY <2>2, <2>4, <2>6, <4>1, <4>3
    <3>3. s = Append(u, "audio-stop")
      BY <2>7, <2>8, <3>1, <3>2
    <3>4. /\ s \in Seq(Types) /\ Len(s) = n + 3 /\ s[n + 3] = "audio-stop"
          /\ \A i \in 1 .. n + 2 : s[i] = u[i]
      BY <2>2, <2>8, <3>2, <3>3
    <3>5. 1 \in 1 .. n + 2 /\ 2 \in 1 .. n + 2 /\ 3 .. n + 2 \subseteq 1 .. n + 2
      BY <2>2
    <3> QED BY <2>6, <3>2, <3>4, <3>5
  <2>10. \A j \in 1 .. n + 3 : \/ j = 1 \/ j = 2 \/ j = n + 3
                               \/ j \in 3 .. n + 2 /\ j - 2 \in 1 .. n
    BY <2>2
  <2>11. \A j \in 1 .. n + 3 :
           /\ s[j] \in {"transcribe", "audio-start", "audio-chunk", "audio-stop"}
           /\ s[j] = "transcribe" => j = 1
           /\ s[j] = "audio-stop" => j = n + 3
    BY <2>4, <2>9, <2>10
  <2>12. s # <<>>
    BY <2>2, <2>9
  <2> QED BY <1>2, <2>9, <2>11, <2>12
<1> QED BY <1>1, <1>2

\* Nothing the protocol is about changes.
LEMMA ProtocolUnchanged ==
  ASSUME Protocol,
         UNCHANGED <<pc, todo, gotStop, toServer, toClient, serving, call, sending,
                     streaming, req>>
  PROVE  Protocol'
<1> USE DEF Protocol
<1>1. Queued' = Queued /\ Unsent' = Unsent /\ Idle' = Idle /\ InStream' = InStream
      /\ StopIsNext' = StopIsNext /\ Feeding' = Feeding
  BY DEF Queued, Unsent, Idle, InStream, StopIsNext, Feeding
<1>2. QuietInv' /\ EndInv' /\ AnswerOwnInv'
  BY <1>1 DEF QuietInv, Quiet, EndInv, AnswerOwnInv
<1>3. QueueInv' /\ WriteInv' /\ DrainInv'
  BY <1>1 DEF QueueInv, WriteInv, DrainInv
<1> QED BY <1>2, <1>3

\* A stop that nothing but the call's own events could be is in the queue
\* already when the call has nothing to write.
LEMMA StopQueued ==
  ASSUME StopIsNext, sending = <<>>, UNCHANGED toServer
  PROVE  StopIsNext'
<1>1. <<"transcribe-stop">> # <<>>
  OBVIOUS
<1> QED BY <1>1 DEF StopIsNext

\* A call begins: the next one of a stream, or a new request.
LEMMA BeginProtocol ==
  ASSUME TypeOK, ClientInv, Protocol, NEW c \in Calls, Begin(c)
  PROVE  Protocol'
<1> USE DEF Protocol
<1>1. /\ call = "none" /\ sending = <<>> /\ call' = c /\ sending' \in Scripts(c)
      /\ UNCHANGED <<pc, todo, gotStop, toServer, toClient, serving, streaming>>
      /\ streaming <=> c \in {"chunk", "stop"}
      /\ req' = IF streaming THEN req ELSE req + 1
  BY DEF Begin, ClientInv, handlerVars, connVars, outVars, queueVars
<1>2. ~Unsent /\ Queued' = Queued /\ Feeding' = Feeding /\ ~Idle'
  BY <1>1 DEF Unsent, Queued, Feeding, Idle, Calls
<1>3. pc \notin BatchPcs
  BY <1>1 DEF AnswerOwnInv
<1>4. StopIsNext => StopIsNext'
  BY <1>1, StopQueued
<1>5. CASE streaming
  <2>1. c \in {"chunk", "stop"} /\ req' = req /\ InStream /\ InStream'
    BY <1>1, <1>5 DEF InStream
  <2>2. /\ sending' = <<"audio-chunk">> \/ sending' = <<"audio-stop", "transcribe-stop">>
        /\ sending' # <<"transcribe-stop">> /\ ~Unsent'
    <3>1. sending' = <<"audio-chunk">> \/ sending' = <<"audio-stop", "transcribe-stop">>
      BY <1>1, <2>1, ScriptOf
    <3>2. sending'[1] \notin Requests
      BY <3>1 DEF Requests
    <3> QED BY <3>1, <3>2 DEF Unsent
  <2>3. QuietInv' /\ EndInv' /\ AnswerOwnInv'
    BY <1>1, <1>2, <1>3, <2>1, <2>2 DEF QuietInv, Quiet, EndInv, AnswerOwnInv
  <2>4. QueueInv'
    <3>1. "none" \notin Requests
      BY DEF Requests
    <3>2. \A j \in 1 .. Len(toServer) : toServer[j].type \in Requests =>
            toServer[j].type = "transcribe-start"
      BY <1>1, <3>1 DEF QueueInv
    <3> QED BY <1>1, <2>1, <2>2, <3>2 DEF QueueInv
  <2>5. WriteInv'
    BY <1>1, <2>1 DEF WriteInv
  <2>6. DrainInv'
    <3>1. Together(toServer) => Together(toServer)'
      <4>1. sending # <<"transcribe-stop">>
        BY <1>1
      <4> QED BY <1>1, <2>1, <2>2, <4>1 DEF Together
    <3> QED BY <1>1, <1>2, <1>4, <2>1, <3>1, DrainTogether DEF DrainInv, Together
  <2> QED BY <2>3, <2>4, <2>5, <2>6
<1>6. CASE ~streaming
  <2>1. Idle /\ Quiet /\ ~Queued /\ req' = req + 1 /\ c \notin {"chunk", "stop"}
    BY <1>1, <1>6 DEF Idle, QuietInv
  <2>2. toClient = <<>> /\ todo = <<>> /\ pc \notin BatchPcs \cup StreamPcs
    BY <2>1 DEF Quiet
  <2>3. QuietInv' /\ EndInv' /\ AnswerOwnInv'
    BY <1>1, <1>2, <2>1, <2>2 DEF QuietInv, Quiet, EndInv, AnswerOwnInv
  <2>4. \A j \in 1 .. Len(toServer) : toServer[j].id <= req' /\ toServer[j].id # req'
    <3>1. req \in Nat /\ \A j \in 1 .. Len(toServer) : toServer[j].id \in Nat
      <4>1. \A j \in 1 .. Len(toServer) : toServer[j] \in [type : Types, id : Nat]
        <5>1. toServer \in Seq([type : Types, id : Nat])
          BY DEF TypeOK
        <5> QED BY <5>1, ElementsOf
      <4> QED BY <4>1 DEF TypeOK
    <3>2. \A j \in 1 .. Len(toServer) : toServer[j].id <= req
      BY DEF QueueInv
    <3> QED BY <2>1, <3>1, <3>2
  <2>5. QueueInv'
    <3>1. \A j \in 1 .. Len(toServer) : toServer[j].type \notin Requests
      BY <2>1 DEF Queued
    <3> QED BY <1>1, <2>2, <2>4, <3>1 DEF QueueInv
  <2>6. WriteInv'
    BY <1>1, <2>2, <2>4 DEF WriteInv, BatchPcs, StreamPcs
  <2>7. DrainInv'
    <3>1. ~Feeding
      BY <2>1, <2>2 DEF Feeding, StreamPcs
    <3> QED BY <1>1, <1>2, <1>4, <2>2, <3>1 DEF DrainInv, StreamPcs
  <2> QED BY <2>3, <2>5, <2>6, <2>7
<1> QED BY <1>5, <1>6

\* What a call has left to write, before and after its next event.
LEMMA SendFacts ==
  ASSUME TypeOK, ClientInv, sending # <<>>, sending' = Tail(sending),
         UNCHANGED <<call, streaming, copen>>
  PROVE  /\ sending' \in Seq(Types) /\ ClientInv' /\ call # "none" /\ ~Unsent'
         /\ Head(sending) = sending[1] /\ sending[1] \in Types
         /\ sending[1] \in Requests =>
              \/ call = sending[1]
              \/ call = "start" /\ sending[1] = "transcribe-start"
         /\ sending[1] = "transcribe-stop" <=> sending = <<"transcribe-stop">>
         /\ sending' = <<"transcribe-stop">> => sending[1] = "audio-stop"
         /\ sending[1] = "audio-stop" =>
              \/ call = "transcribe" /\ sending' = <<>>
              \/ call = "stop" /\ sending' = <<"transcribe-stop">>
         /\ call = "start" /\ sending' # <<>> => sending[1] = "transcribe-start"
<1>1. PICK s, r : s = sending /\ r = sending'
  OBVIOUS
<1>2. s \in Seq(Types) /\ s # <<>> /\ r = Tail(s) /\ call \in Calls
  <2>1. call # "none"
    BY DEF ClientInv
  <2> QED BY <1>1, <2>1 DEF TypeOK
<1>3. PICK n \in Nat \ {0} :
        /\ n = Len(s) /\ Head(s) = s[1] /\ s[1] \in Types
        /\ r \in Seq(Types) /\ Len(r) = n - 1
        /\ \A j \in 1 .. n - 1 : r[j] = s[j + 1]
  BY <1>2, TailOf
<1>4. n = 1 => r = <<>>
  BY <1>3
<1>5. CASE call \in {"describe", "synthesize", "chunk"}
  <2>1. \/ call = "describe" /\ s = <<"describe">>
        \/ call = "synthesize" /\ s = <<"synthesize">>
        \/ call = "chunk" /\ s = <<"audio-chunk">>
    BY <1>1, <1>2, <1>5 DEF ClientInv
  <2>2. r = <<>> /\ s # <<"transcribe-stop">> /\ r # <<"transcribe-stop">>
    BY <1>2, <2>1
  <2>3. \/ call = "describe" /\ s[1] = "describe"
        \/ call = "synthesize" /\ s[1] = "synthesize"
        \/ call = "chunk" /\ s[1] = "audio-chunk"
    BY <2>1
  <2>4. ClientInv'
    BY <1>1, <1>5, <2>2 DEF ClientInv
  <2>5. ~Unsent'
    BY <1>1, <2>2 DEF Unsent
  <2> QED BY <1>1, <1>3, <2>2, <2>3, <2>4, <2>5 DEF Requests
<1>6. CASE call = "start"
  <2>1. s = <<"transcribe-start", "audio-start">> \/ s = <<"audio-start">>
    BY <1>1, <1>2, <1>6 DEF ClientInv
  <2>2. \/ r = <<"audio-start">> /\ s[1] = "transcribe-start"
        \/ r = <<>> /\ s[1] = "audio-start"
    <3>1. CASE s = <<"transcribe-start", "audio-start">>
      BY <1>2, <3>1, TailOfPair
    <3>2. CASE s = <<"audio-start">>
      BY <1>2, <3>2, TailOfPair
    <3> QED BY <2>1, <3>1, <3>2
  <2>3. s # <<"transcribe-stop">> /\ r # <<"transcribe-stop">>
    BY <2>1, <2>2
  <2>4. ClientInv'
    BY <1>1, <1>6, <2>2 DEF ClientInv
  <2>5. ~Unsent'
    <3>1. r # <<>> => r[1] = "audio-start"
      BY <2>2
    <3> QED BY <1>1, <3>1 DEF Unsent, Requests
  <2> QED BY <1>1, <1>3, <1>6, <2>2, <2>3, <2>4, <2>5 DEF Requests
<1>7. CASE call = "stop"
  <2>1. s = <<"audio-stop", "transcribe-stop">> \/ s = <<"transcribe-stop">>
    BY <1>1, <1>2, <1>7 DEF ClientInv
  <2>2. \/ r = <<"transcribe-stop">> /\ s[1] = "audio-stop" /\ s # <<"transcribe-stop">>
        \/ r = <<>> /\ s[1] = "transcribe-stop" /\ s = <<"transcribe-stop">>
    BY <1>2, <2>1, TailOfPair
  <2>3. r = <<"transcribe-stop">> => r # <<>> /\ r[1] = "transcribe-stop"
    OBVIOUS
  <2>4. ClientInv'
    BY <1>1, <1>7, <2>2 DEF ClientInv
  <2>5. ~Unsent'
    BY <1>1, <2>2, <2>3 DEF Unsent, Requests
  <2> QED BY <1>1, <1>3, <1>7, <2>2, <2>3, <2>4, <2>5 DEF Requests
<1>8. CASE call = "transcribe"
  <2>1. \A j \in 1 .. n :
          /\ s[j] \in {"transcribe", "audio-start", "audio-chunk", "audio-stop"}
          /\ s[j] = "transcribe" => j = 1
          /\ s[j] = "audio-stop" => j = n
    BY <1>1, <1>3, <1>8 DEF ClientInv
  <2>2. 1 \in 1 .. n /\ \A j \in 1 .. n - 1 : j + 1 \in 1 .. n /\ j + 1 # 1
    OBVIOUS
  <2>3. \A j \in 1 .. n - 1 :
          /\ r[j] \in {"audio-start", "audio-chunk", "audio-stop"}
          /\ r[j] = "audio-stop" => j = n - 1
    BY <1>3, <2>1, <2>2
  <2>4. ClientInv'
    BY <1>1, <1>3, <1>8, <2>3 DEF ClientInv
  <2>5. ~Unsent'
    <3>1. r # <<>> => 1 \in 1 .. n - 1
      BY <1>3, <1>4
    <3> QED BY <1>1, <2>3, <3>1 DEF Unsent, Requests
  <2>6. s # <<"transcribe-stop">>
    <3>1. s = <<"transcribe-stop">> => s[1] = "transcribe-stop"
      OBVIOUS
    <3> QED BY <2>1, <2>2, <3>1
  <2>7. r # <<"transcribe-stop">>
    <3>1. r = <<"transcribe-stop">> => r # <<>> /\ r[1] = "transcribe-stop"
      OBVIOUS
    <3>2. r # <<>> => 1 \in 1 .. n - 1
      BY <1>3, <1>4
    <3> QED BY <2>3, <3>1, <3>2
  <2>8. s[1] = "audio-stop" => r = <<>>
    BY <1>4, <2>1, <2>2
  <2> QED BY <1>1, <1>3, <1>8, <2>1, <2>2, <2>4, <2>5, <2>6, <2>7, <2>8 DEF Requests
<1> QED BY <1>2, <1>5, <1>6, <1>7, <1>8 DEF Calls

\* An event goes into the server's queue.
LEMMA SendsProtocol ==
  ASSUME TypeOK, ClientInv, Protocol, SendEvent
  PROVE  Protocol'
<1> USE DEF Protocol
<1>1. /\ sending # <<>> /\ sending' = Tail(sending)
      /\ \/ toServer' = Append(toServer, [type |-> Head(sending), id |-> req])
         \/ pc = "closed" /\ UNCHANGED toServer
      /\ UNCHANGED <<pc, todo, gotStop, toClient, serving, call, streaming, req, copen>>
  BY DEF SendEvent, handlerVars, connVars, outVars
<1>2. PICK h : h = sending[1]
  OBVIOUS
<1>3. /\ ClientInv' /\ call # "none" /\ ~Unsent' /\ Head(sending) = h /\ h \in Types
      /\ h \in Requests => call = h \/ (call = "start" /\ h = "transcribe-start")
      /\ h = "transcribe-stop" <=> sending = <<"transcribe-stop">>
      /\ sending' = <<"transcribe-stop">> => h = "audio-stop"
      /\ h = "audio-stop" => \/ call = "transcribe" /\ sending' = <<>>
                             \/ call = "stop" /\ sending' = <<"transcribe-stop">>
      /\ call = "start" /\ sending' # <<>> => h = "transcribe-start"
  BY <1>1, <1>2, SendFacts
<1>4. ~Idle /\ ~Idle' /\ InStream' = InStream /\ (Unsent <=> h \in Requests)
      /\ Quiet' = Quiet
  BY <1>1, <1>2, <1>3 DEF Idle, InStream, Unsent, Quiet
<1>5. EndInv' /\ AnswerOwnInv'
  BY <1>1, <1>4 DEF EndInv, AnswerOwnInv
<1>6. CASE pc = "closed" /\ UNCHANGED toServer
  <2>1. Queued' = Queued /\ ~Feeding'
    BY <1>1, <1>6 DEF Queued, Feeding
  <2>2. QuietInv'
    BY <1>3, <1>4, <2>1 DEF QuietInv
  <2>3. QueueInv'
    BY <1>1, <1>3, <1>4, <1>6 DEF QueueInv
  <2>4. WriteInv'
    BY <1>1, <1>6 DEF WriteInv
  <2>5. DrainInv'
    BY <1>1, <1>6, <2>1 DEF DrainInv
  <2> QED BY <1>5, <2>2, <2>3, <2>4, <2>5
<1>7. ASSUME toServer' = Append(toServer, [type |-> Head(sending), id |-> req])
      PROVE  Protocol'
  <2>1. PICK x : x = [type |-> h, id |-> req]
    OBVIOUS
  <2>2. x \in [type : Types, id : Nat] /\ x.type = h /\ x.id = req
    BY <1>3, <2>1 DEF TypeOK
  <2>3. PICK n \in Nat :
          /\ n = Len(toServer) /\ Len(toServer') = n + 1 /\ toServer'[n + 1] = x
          /\ \A j \in 1 .. n : toServer'[j] = toServer[j]
    <3>1. toServer \in Seq([type : Types, id : Nat]) /\ toServer' = Append(toServer, x)
      BY <1>3, <1>7, <2>1 DEF TypeOK
    <3> QED BY <2>2, <3>1, AppendTo
  <2>4. /\ \A j \in 1 .. n + 1 : j \in 1 .. n \/ j = n + 1
        /\ \A j \in 1 .. n : j \in 1 .. n + 1 /\ j < n + 1 /\ ~(n + 1 < j) /\ j # n + 1
        /\ n + 1 \in 1 .. n + 1 /\ ~(n + 1 < n + 1)
    OBVIOUS
  <2>5. Queued' <=> Queued \/ h \in Requests
    BY <2>2, <2>3, <2>4 DEF Queued
  <2>6. QuietInv'
    BY <1>3, <1>4, <2>5 DEF QuietInv
  <2>7. QueueInv'
    <3>1. \A j \in 1 .. n + 1 : toServer'[j].id <= req
      <4>1. req <= req
        BY DEF TypeOK
      <4> QED BY <2>2, <2>3, <2>4, <4>1 DEF QueueInv
    <3>2. pc \in BatchPcs \cup StreamPcs => \A j \in 1 .. n + 1 : toServer'[j].id = req
      BY <2>2, <2>3, <2>4 DEF QueueInv
    <3>3. ASSUME NEW j \in 1 .. n + 1, toServer'[j].type \in Requests
          PROVE  /\ \A i \in 1 .. n + 1 :
                      IF i < j THEN toServer'[i].id # req ELSE toServer'[i].id = req
                 /\ \/ call = toServer'[j].type
                    \/ toServer'[j].type = "transcribe-start" /\ InStream
      <4>1. CASE j = n + 1
        <5>1. h \in Requests
          BY <2>2, <2>3, <3>3, <4>1
        <5>2. \A i \in 1 .. n : toServer[i].id # req
          BY <1>4, <2>3, <5>1 DEF QueueInv
        <5>3. \A i \in 1 .. n + 1 :
                IF i < n + 1 THEN toServer'[i].id # req ELSE toServer'[i].id = req
          BY <2>2, <2>3, <2>4, <5>2
        <5>4. call = "start" => InStream
          BY DEF InStream
        <5> QED BY <1>3, <2>2, <2>3, <4>1, <5>1, <5>3, <5>4
      <4>2. CASE j \in 1 .. n
        <5>1. toServer[j].type \in Requests /\ toServer'[j] = toServer[j]
          BY <2>3, <3>3, <4>2
        <5>2. \A i \in 1 .. n :
                IF i < j THEN toServer[i].id # req ELSE toServer[i].id = req
          BY <2>3, <4>2, <5>1 DEF QueueInv
        <5>3. \A i \in 1 .. n + 1 :
                IF i < j THEN toServer'[i].id # req ELSE toServer'[i].id = req
          BY <2>2, <2>3, <2>4, <4>2, <5>2
        <5>4. call = toServer[j].type \/ (toServer[j].type = "transcribe-start" /\ InStream)
          BY <2>3, <4>2, <5>1 DEF QueueInv
        <5> QED BY <5>1, <5>3, <5>4
      <4> QED BY <2>4, <4>1, <4>2
    <3>4. \A i, j \in 1 .. n + 1 :
            toServer'[i].type \in Requests /\ toServer'[j].type \in Requests => i = j
      <4>1. h \in Requests => \A i \in 1 .. n : toServer[i].type \notin Requests
        BY <1>4, <2>3 DEF QuietInv, Queued
      <4>2. \A i, j \in 1 .. n :
              toServer[i].type \in Requests /\ toServer[j].type \in Requests => i = j
        BY <2>3 DEF QueueInv
      <4> QED BY <2>2, <2>3, <2>4, <4>1, <4>2
    <3> QED BY <1>1, <1>3, <1>4, <2>3, <3>1, <3>2, <3>3, <3>4 DEF QueueInv
  <2>8. WriteInv'
    <3>1. call = "transcribe" /\ sending' # <<>> => h # "audio-stop"
      BY <1>3
    <3>2. call = "start" /\ sending' # <<>> => h # "audio-start"
      BY <1>3
    <3> QED BY <1>1, <2>2, <2>3, <2>4, <3>1, <3>2 DEF WriteInv
  <2>9. StopIsNext => StopIsNext'
    <3>1. CASE toServer = <<>>
      <4>1. n = 0 /\ toServer'[1] = x /\ Len(toServer') = 1
        BY <2>3, <3>1
      <4>2. toServer' # <<>>
        BY <4>1
      <4> QED BY <1>3, <2>2, <3>1, <4>1, <4>2 DEF StopIsNext
    <3>2. CASE toServer # <<>>
      <4>1. n # 0
        BY <2>3, <3>2 DEF TypeOK
      <4>2. 1 \in 1 .. n /\ Len(toServer') # 0 /\ Len(<<>>) = 0
        BY <2>3, <4>1
      <4>3. toServer' # <<>> /\ toServer'[1] = toServer[1]
        BY <2>3, <4>2
      <4> QED BY <3>2, <4>3 DEF StopIsNext
    <3> QED BY <3>1, <3>2
  <2>10. Feeding' /\ InStream' => Together(toServer)'
    <3> SUFFICES ASSUME Feeding', InStream PROVE Together(toServer)'
      BY <1>4
    <3>1. CASE h \in Requests
      <4>1. \A i \in 1 .. n : toServer[i].id # req
        BY <1>4, <2>3, <3>1 DEF QueueInv
      <4>2. h \notin {"audio-stop", "transcribe-stop"}
        BY <3>1 DEF Requests
      <4>3. sending' # <<"transcribe-stop">>
        BY <1>3, <4>2
      <4> QED BY SMTT(30), <1>1, <2>2, <2>3, <2>4, <4>1, <4>2, <4>3 DEF Together
    <3>2. CASE h \notin Requests
      <4>1. Together(toServer)
        <5>1. Feeding
          BY <1>1, <2>5, <3>2 DEF Feeding
        <5> QED BY <5>1, DrainTogether
      <4>2. h = "audio-stop" => sending' = <<"transcribe-stop">>
        <5>1. call = "transcribe" => ~InStream
          BY DEF ClientInv, InStream
        <5> QED BY <1>3, <5>1
      <4>3. ASSUME NEW j \in 1 .. n + 1, toServer'[j].id = req,
                   toServer'[j].type = "transcribe-stop"
            PROVE  j > 1 /\ toServer'[j - 1].type = "audio-stop"
        <5>1. CASE j = n + 1
          <6>1. toServer # <<>> /\ toServer[n].type = "audio-stop"
            BY <1>3, <2>2, <2>3, <4>1, <4>3, <5>1 DEF Together
          <6>2. n # 0
            BY <2>3, <6>1 DEF TypeOK
          <6>3. n \in 1 .. n /\ j > 1 /\ j - 1 = n
            BY <5>1, <6>2
          <6> QED BY <2>3, <6>1, <6>3
        <5>2. CASE j \in 1 .. n
          <6>1. j > 1 /\ toServer[j - 1].type = "audio-stop"
            BY <2>3, <4>1, <4>3, <5>2 DEF Together
          <6>2. j - 1 \in 1 .. n
            BY <5>2, <6>1
          <6> QED BY <2>3, <6>1, <6>2
        <5> QED BY <2>4, <5>1, <5>2
      <4>4. ASSUME NEW j \in 1 .. n + 1, toServer'[j].id = req,
                   toServer'[j].type = "audio-stop"
            PROVE  IF j < n + 1 THEN toServer'[j + 1].type = "transcribe-stop"
                                ELSE sending' = <<"transcribe-stop">>
        <5>1. CASE j = n + 1
          BY <2>2, <2>3, <2>4, <4>2, <4>4, <5>1
        <5>2. CASE j \in 1 .. n /\ j < n
          <6>1. j + 1 \in 1 .. n
            BY <5>2
          <6> QED BY <2>3, <2>4, <4>1, <4>4, <5>2, <6>1 DEF Together
        <5>3. CASE j \in 1 .. n /\ j = n
          <6>1. ~(n < n)
            OBVIOUS
          <6>2. sending = <<"transcribe-stop">>
            BY <2>3, <4>1, <4>4, <5>3, <6>1 DEF Together
          <6> QED BY <1>3, <2>2, <2>3, <5>3, <6>2
        <5>4. j = n + 1 \/ (j \in 1 .. n /\ j < n) \/ (j \in 1 .. n /\ j = n)
          OBVIOUS
        <5> QED BY <5>1, <5>2, <5>3, <5>4
      <4>5. sending' = <<"transcribe-stop">> =>
              toServer' # <<>> /\ toServer'[n + 1].type = "audio-stop"
        <5>1. Len(toServer') # 0 /\ Len(<<>>) = 0
          BY <2>3
        <5>2. toServer' # <<>>
          BY <5>1
        <5> QED BY <1>3, <2>2, <2>3, <5>2
      <4> QED BY <1>1, <2>3, <4>3, <4>4, <4>5 DEF Together
    <3> QED BY <3>1, <3>2
  <2>11. DrainInv'
    BY <1>1, <2>9, <2>10 DEF DrainInv, Together
  <2> QED BY <1>5, <2>6, <2>7, <2>8, <2>11
<1> QED BY <1>1, <1>6, <1>7

\* A call of a stream that reads nothing returns: the stream goes on.
LEMMA DoneProtocol ==
  ASSUME TypeOK, ClientInv, Protocol, SendDone
  PROVE  Protocol'
<1> USE DEF Protocol
<1>1. /\ call \in {"start", "chunk"} /\ sending = <<>> /\ call' = "none"
      /\ sending' = <<>> /\ streaming' = TRUE
      /\ UNCHANGED <<pc, todo, gotStop, toServer, toClient, serving, req>>
  BY DEF SendDone, Return, ReturnAs, handlerVars, connVars, outVars, queueVars
<1>2. InStream /\ InStream' /\ ~Idle /\ ~Idle' /\ ~Unsent /\ ~Unsent'
  BY <1>1 DEF InStream, Idle, Unsent, ClientInv
<1>3. /\ Queued' = Queued /\ Feeding' = Feeding /\ Quiet' = Quiet
      /\ StopIsNext' = StopIsNext
  BY <1>1 DEF Queued, Feeding, Quiet, StopIsNext
<1>4. QuietInv' /\ EndInv' /\ AnswerOwnInv'
  BY <1>1, <1>2, <1>3 DEF QuietInv, EndInv, AnswerOwnInv
<1>5. QueueInv'
  <2>1. call \notin Requests
    BY <1>1 DEF Requests
  <2>2. \A j \in 1 .. Len(toServer) : toServer[j].type \in Requests =>
          toServer[j].type = "transcribe-start"
    BY <2>1 DEF QueueInv
  <2> QED BY <1>1, <1>2, <2>2 DEF QueueInv
<1>6. WriteInv'
  BY <1>1 DEF WriteInv
<1>7. DrainInv'
  BY <1>1, <1>2, <1>3 DEF DrainInv
<1> QED BY <1>4, <1>5, <1>6, <1>7

\* A call takes an answer, and goes on or returns.
LEMMA ReadAnswerEffect ==
  ASSUME TypeOK, ReadAnswer
  PROVE  /\ call \in Reading /\ sending = <<>> /\ sending' = <<>>
         /\ toClient # <<>> /\ toClient' = Tail(toClient)
         /\ UNCHANGED <<pc, peer, todo, gotStop, toServer, serving, copen, ncalls, req>>
         /\ \/ UNCHANGED <<call, streaming, rc, clean>>
            \/ /\ call' = "none" /\ streaming' = FALSE
               /\ rc' \in {"ok", "proto", "nomem"} /\ (clean' => clean) /\ clean' \in BOOLEAN
               /\ clean' => \/ toClient[1].kind \in Ends
                            \/ /\ toClient[1].kind \in {"partial", "unmarked"}
                               /\ call = "transcribe"
         /\ gotStart' \in BOOLEAN
         /\ stray' = (stray \/ (clean /\ toClient[1].id # req))
         /\ IF pc # "closed" /\ peer # "reset" THEN PeerReads ELSE UNCHANGED handlerVars
<1>1. PICK k : k = toClient[1].kind
  OBVIOUS
<1>2. toClient # <<>> /\ Head(toClient) = toClient[1]
  BY TailOf DEF TypeOK, ReadAnswer
<1>3. /\ call \in Reading /\ sending = <<>> /\ toClient' = Tail(toClient)
      /\ UNCHANGED <<toServer, serving>>
      /\ stray' = (stray \/ (clean /\ toClient[1].id # req))
      /\ IF pc # "closed" /\ peer # "reset" THEN PeerReads ELSE UNCHANGED handlerVars
  BY <1>2 DEF ReadAnswer, TakeOut
<1>4. UNCHANGED <<pc, peer, todo, gotStop>>
  BY <1>3 DEF PeerReads, handlerVars, connVars, peerVars, outVars
<1>5. \/ call = "describe" /\ TakeInfo(k)
      \/ call = "synthesize" /\ TakeAudio(k)
      \/ call = "transcribe" /\ TakeTranscript(k)
      \/ call = "stop" /\ TakeFinal(k)
  BY <1>1, <1>2 DEF ReadAnswer
<1>6. gotStart \in BOOLEAN
  BY DEF TypeOK
<1>7. /\ UNCHANGED <<copen, ncalls, req>> /\ gotStart' \in BOOLEAN /\ sending' = <<>>
      /\ \/ UNCHANGED <<call, streaming, rc, clean>>
         \/ \E code \in {"ok", "proto", "nomem"}, sound \in BOOLEAN :
              /\ ReturnAs(code, sound)
              /\ sound => \/ k \in Ends
                          \/ k \in {"partial", "unmarked"} /\ call = "transcribe"
  <2>1. CASE call = "describe" /\ TakeInfo(k)
    BY <1>3, <1>6, <2>1 DEF TakeInfo, Return, ReturnAs, Ends
  <2>2. CASE call = "synthesize" /\ TakeAudio(k)
    BY <1>3, <1>6, <2>2 DEF TakeAudio, Return, ReturnAs, GoOn, Ends
  <2>3. CASE call = "transcribe" /\ TakeTranscript(k)
    BY <1>3, <1>6, <2>3 DEF TakeTranscript, Return, ReturnAs, GoOn, Ends
  <2>4. CASE call = "stop" /\ TakeFinal(k)
    BY <1>3, <1>6, <2>4 DEF TakeFinal, Return, ReturnAs, GoOn, Ends
  <2> QED BY <1>5, <2>1, <2>2, <2>3, <2>4
<1>8. CASE UNCHANGED <<call, streaming, rc, clean>>
  BY <1>2, <1>3, <1>4, <1>7, <1>8
<1>9. CASE \E code \in {"ok", "proto", "nomem"}, sound \in BOOLEAN :
             /\ ReturnAs(code, sound)
             /\ sound => \/ k \in Ends
                         \/ k \in {"partial", "unmarked"} /\ call = "transcribe"
  <2>1. PICK code \in {"ok", "proto", "nomem"}, sound \in BOOLEAN :
             /\ ReturnAs(code, sound)
             /\ sound => \/ k \in Ends
                         \/ k \in {"partial", "unmarked"} /\ call = "transcribe"
    BY <1>9
  <2>2. /\ call' = "none" /\ streaming' = FALSE
        /\ rc' \in {"ok", "proto", "nomem"} /\ clean' = (clean /\ sound)
    BY <1>3, <2>1 DEF ReturnAs, Reading
  <2>3. /\ clean' => clean /\ sound
        /\ clean' \in BOOLEAN
    BY <2>2, Zenon
  <2> QED BY <1>1, <1>2, <1>3, <1>4, <1>7, <2>1, <2>2, <2>3
<1> QED BY <1>7, <1>8, <1>9

\* The client takes an answer.
LEMMA ReadAnswerProtocol ==
  ASSUME TypeOK, ClientInv, Protocol, ReadAnswer, clean'
  PROVE  Protocol'
<1> USE DEF Protocol
<1>1. /\ call \in Reading /\ sending = <<>> /\ sending' = <<>>
      /\ toClient # <<>> /\ toClient' = Tail(toClient)
      /\ UNCHANGED <<pc, todo, gotStop, toServer, serving, req>>
      /\ \/ UNCHANGED <<call, streaming>>
         \/ /\ call' = "none" /\ streaming' = FALSE
            /\ \/ toClient[1].kind \in Ends
               \/ /\ toClient[1].kind \in {"partial", "unmarked"}
                  /\ call = "transcribe"
  BY ReadAnswerEffect
<1>2. PICK n \in Nat \ {0} :
        /\ n = Len(toClient) /\ Len(toClient') = n - 1 /\ 1 \in 1 .. n
        /\ \A j \in 1 .. n - 1 : /\ toClient'[j] = toClient[j + 1]
                                 /\ j + 1 \in 1 .. n /\ (j + 1 = n => j = n - 1)
        /\ n = 1 => toClient' = <<>>
  <2>1. toClient \in Seq([kind : Received, id : Nat])
    BY DEF TypeOK
  <2>2. PICK n \in Nat \ {0} :
        /\ n = Len(toClient) /\ Len(toClient') = n - 1
        /\ \A j \in 1 .. n - 1 : toClient'[j] = toClient[j + 1]
        /\ toClient' \in Seq([kind : Received, id : Nat])
    BY <1>1, <2>1, TailOf
  <2>3. n = 1 => toClient' = <<>>
    BY <2>2
  <2>4. 1 \in 1 .. n /\ \A j \in 1 .. n - 1 : j + 1 \in 1 .. n /\ (j + 1 = n => j = n - 1)
    OBVIOUS
  <2> QED BY <2>2, <2>3, <2>4
<1>3. ~Idle /\ ~Unsent /\ ~Queued /\ ~Queued' /\ ~Unsent'
  <2>1. ~Idle /\ ~Unsent /\ ~Queued
    BY <1>1 DEF QuietInv, Quiet
  <2> QED BY <1>1, <2>1 DEF Queued, Unsent
<1>4. StopIsNext' = StopIsNext /\ Feeding' = Feeding
  BY <1>1, <1>3 DEF StopIsNext, Feeding
<1>5. CASE UNCHANGED <<call, streaming>>
  <2>1. Idle' = Idle /\ InStream' = InStream
    BY <1>5 DEF Idle, InStream
  <2>2. QuietInv'
    BY <1>3, <2>1 DEF QuietInv
  <2>3. EndInv'
    BY <1>1, <1>2 DEF EndInv
  <2>4. AnswerOwnInv'
    BY <1>1, <1>2, <1>5, <2>1 DEF AnswerOwnInv
  <2>5. QueueInv' /\ WriteInv' /\ DrainInv'
    BY <1>1, <1>3, <1>4, <1>5, <2>1 DEF QueueInv, WriteInv, DrainInv
  <2> QED BY <2>2, <2>3, <2>4, <2>5
<1>6. CASE /\ call' = "none" /\ streaming' = FALSE
           /\ \/ toClient[1].kind \in Ends
              \/ toClient[1].kind \in {"partial", "unmarked"} /\ call = "transcribe"
  <2>1. toClient[1].kind \in Ends
    <3>1. toClient[1].kind \in {"partial", "unmarked"} => InStream
      BY <1>2 DEF AnswerOwnInv
    <3>2. call = "transcribe" => ~InStream
      BY DEF ClientInv, InStream
    <3> QED BY <1>6, <3>1, <3>2
  <2>2. n = 1 /\ todo = <<>> /\ pc \notin BatchPcs \cup StreamPcs
    BY <1>2, <2>1 DEF EndInv
  <2>3. toClient' = <<>> /\ todo' = <<>> /\ pc' \notin BatchPcs \cup StreamPcs
    BY <1>1, <1>2, <2>2
  <2>4. QuietInv' /\ EndInv' /\ AnswerOwnInv'
    BY <1>3, <2>3 DEF QuietInv, Quiet, EndInv, AnswerOwnInv
  <2>5. QueueInv'
    <3>1. \A j \in 1 .. Len(toServer) : toServer[j].type \notin Requests
      BY <1>3 DEF Queued
    <3> QED BY <1>1, <1>3, <2>3, <3>1 DEF QueueInv
  <2>6. WriteInv'
    BY <1>1 DEF WriteInv
  <2>7. DrainInv'
    <3>1. ~Feeding
      BY <1>3, <2>2 DEF Feeding, StreamPcs
    <3> QED BY <1>1, <1>4, <2>2, <3>1 DEF DrainInv, StreamPcs
  <2> QED BY <2>4, <2>5, <2>6, <2>7
<1> QED BY <1>1, <1>5, <1>6

\* The call reads an answer to its own request.
LEMMA ReadAnswerOwn ==
  ASSUME TypeOK, ReadAnswer, ~stray, clean => Protocol
  PROVE  ~stray'
<1>1. stray' = (stray \/ (clean /\ toClient[1].id # req)) /\ toClient # <<>>
  BY ReadAnswerEffect
<1>2. 1 \in 1 .. Len(toClient)
  BY <1>1, TailOf DEF TypeOK
<1> QED BY <1>1, <1>2 DEF Protocol, AnswerOwnInv

-----------------------------------------------------------------------------
(* Every step preserves the invariant.                                     *)

\* A fresh connection.
LEMMA InitSessionInv == Init => SessionInv
<1> SUFFICES ASSUME Init PROVE SessionInv
  OBVIOUS
<1>1. /\ HandlerInit /\ toServer = <<>> /\ toClient = <<>> /\ copen = TRUE
      /\ call = "none" /\ sending = <<>> /\ gotStart = FALSE /\ streaming = FALSE
      /\ rc = "none" /\ ncalls = 0 /\ req = 0 /\ serving = 0
      /\ clean = TRUE /\ stray = FALSE
  BY DEF Init
<1>2. HandlerInv
  BY <1>1, InitHandlerInv
<1>3. TypeOK
  <2>1. toServer \in Seq([type : Types, id : Nat]) /\ Len(toServer) <= InCap
    BY <1>1, SessionAssumption
  <2>2. toClient \in Seq([kind : Received, id : Nat]) /\ Len(toClient) <= OutCap
    BY <1>1, HandlerAssumption
  <2>3. sending \in Seq(Types) /\ ncalls \in 0 .. MaxCalls
    BY <1>1, SessionAssumption
  <2>4. HandlerTypeOK
    BY <1>2 DEF HandlerInv
  <2> QED BY <1>1, <2>1, <2>2, <2>3, <2>4 DEF TypeOK
<1>4. pc = "loop" /\ room = OutCap /\ todo = <<>> /\ peer = "up"
  BY <1>1 DEF HandlerInit, FreshConnection
<1>5. ClientInv /\ RoomInv
  BY <1>1, <1>4, HandlerAssumption DEF ClientInv, RoomInv
<1>6. ~Queued /\ ~Unsent /\ ~Feeding /\ pc \notin BatchPcs \cup StreamPcs
  BY <1>1, <1>4 DEF Queued, Unsent, Feeding, BatchPcs, StreamPcs
<1>7. QuietInv /\ EndInv /\ AnswerOwnInv
  BY <1>1, <1>4, <1>6 DEF QuietInv, Quiet, EndInv, AnswerOwnInv
<1>8. QueueInv /\ WriteInv /\ DrainInv
  BY <1>1, <1>4, <1>6 DEF QueueInv, WriteInv, DrainInv
<1> QED BY <1>1, <1>2, <1>3, <1>5, <1>7, <1>8 DEF SessionInv, Protocol

\* A step of the handler leaves the library alone.
LEMMA ClientUnchanged ==
  ASSUME TypeOK, ClientInv, HandlerInv',
         UNCHANGED <<copen, call, sending, gotStart, streaming, rc, ncalls, req,
                     clean, stray>>,
         toServer' \in Seq([type : Types, id : Nat]), Len(toServer') <= InCap,
         toClient' \in Seq([kind : Received, id : Nat]), Len(toClient') <= OutCap,
         serving' \in Nat
  PROVE  TypeOK' /\ ClientInv'
<1>1. TypeOK'
  BY DEF TypeOK, HandlerInv
<1> QED BY <1>1 DEF ClientInv

\* The handler reads an event.
LEMMA ServerReadsStep ==
  ASSUME SessionInv, ServerReads PROVE SessionInv'
<1> USE DEF SessionInv
<1>1. HandlerInv'
  BY ServerReadsHandler
<1>2. /\ toServer # <<>> /\ toServer' = Tail(toServer)
      /\ UNCHANGED <<toClient, copen, call, sending, gotStart, streaming, rc,
                     ncalls, req, clean, stray, peer, room>>
      /\ serving' = IF pc = "read" THEN toServer[1].id ELSE serving
      /\ pc # "closed" /\ (pc' = "closed" => todo' = <<>>)
  BY ServerReadsEffect
<1>3. /\ toServer \in Seq([type : Types, id : Nat]) /\ Len(toServer) <= InCap
      /\ InCap \in Nat /\ serving \in Nat
      /\ toClient \in Seq([kind : Received, id : Nat]) /\ Len(toClient) <= OutCap
  BY SessionAssumption DEF TypeOK
<1>4. /\ toServer' \in Seq([type : Types, id : Nat])
      /\ Len(toServer') = Len(toServer) - 1 /\ Len(toServer) \in Nat
      /\ toServer[1] \in [type : Types, id : Nat]
  BY <1>2, <1>3, TailOf
<1>5. Len(toServer') <= InCap /\ serving' \in Nat
  BY <1>2, <1>3, <1>4
<1>6. TypeOK' /\ ClientInv'
  BY <1>1, <1>2, <1>3, <1>4, <1>5, ClientUnchanged
<1>7. RoomInv'
  BY <1>2 DEF RoomInv
<1>8. clean' => Protocol'
  BY <1>2, ServerReadsProtocol
<1> QED BY <1>1, <1>2, <1>6, <1>7, <1>8

\* A read of the handler fails, or it goes on to the next place.
LEMMA ServerMovesStep ==
  ASSUME SessionInv, ServerReadFails \/ ServerComputes PROVE SessionInv'
<1> USE DEF SessionInv
<1>1. HandlerInv'
  BY ServerReadFailsHandler, ServerComputesHandler
<1>2. /\ UNCHANGED <<gotStop, room, toServer, toClient, serving, copen, call,
                     sending, gotStart, streaming, rc, ncalls, req, clean, stray>>
      /\ todo = <<>> /\ (peer' = "reset" <=> peer = "reset")
      /\ \/ Moves(pc, pc', gotStop) /\ todo' = todo
         \/ /\ pc = "batch-done" /\ pc' = "loop"
            /\ todo' = todo \/ (todo' = <<"final">> /\ gotStop # "no")
         \/ /\ pc = "stream-final" /\ todo' = <<"final">>
            /\ pc' = IF gotStop = "no" THEN "stream-destroy" ELSE "stream-drain"
  BY ServerReadFailsEffect, ServerComputesEffect
<1>3. TypeOK' /\ ClientInv'
  BY <1>1, <1>2, ClientUnchanged DEF TypeOK
<1>4. pc # "closed" /\ (pc' = "closed" => todo' = <<>>)
  BY <1>2 DEF Moves
<1>5. RoomInv'
  BY <1>2, <1>4 DEF RoomInv
<1>6. clean => Protocol'
  <2> SUFFICES ASSUME Protocol PROVE Protocol'
    OBVIOUS
  <2>1. CASE Moves(pc, pc', gotStop) /\ todo' = todo
    BY <1>2, <2>1, MovesProtocol
  <2>2. CASE ~(Moves(pc, pc', gotStop) /\ todo' = todo)
    BY <1>2, <2>2, AnswersProtocol
  <2> QED BY <2>1, <2>2
<1> QED BY <1>1, <1>2, <1>3, <1>5, <1>6

\* The handler writes an event of its answer, or fails to.
LEMMA ServerWritesStep ==
  ASSUME SessionInv, ServerWrites \/ ServerWriteFails PROVE SessionInv'
<1> USE DEF SessionInv
<1>1. HandlerInv'
  BY WriteStep DEF ServerWrites, ServerWriteFails
<1>2. /\ todo # <<>> /\ todo' = Tail(todo)
      /\ UNCHANGED <<pc, peer, gotStop, toServer, serving, copen, call,
                     sending, gotStart, streaming, rc, ncalls, req, clean, stray>>
      /\ \/ toClient' = toClient /\ (room' = room \/ peer = "reset" \/ ~copen)
         \/ /\ \E k \in Forms(Head(todo)) :
                 toClient' = Append(toClient, [kind |-> k, id |-> serving])
            /\ peer # "reset" /\ copen /\ room > 0 /\ room' = room - 1
  BY ServerWritesEffect
<1>3. pc # "closed"
  BY <1>2 DEF RoomInv
<1>4. /\ toClient \in Seq([kind : Received, id : Nat]) /\ Len(toClient) <= OutCap
      /\ serving \in Nat /\ todo \in Seq(Responses) /\ room \in Nat /\ OutCap \in Nat
  BY HandlerAssumption DEF TypeOK, HandlerTypeOK
<1>5. Head(todo) \in Responses
  BY <1>2, <1>4, TailOf
<1>6. PICK x : /\ \E k \in Forms(Head(todo)) : x = [kind |-> k, id |-> serving]
               /\ \/ toClient' = toClient /\ (room' = room \/ peer = "reset" \/ ~copen)
                  \/ /\ toClient' = Append(toClient, x)
                     /\ peer # "reset" /\ copen /\ room > 0 /\ room' = room - 1
  <2>1. Head(todo) \in Forms(Head(todo))
    BY DEF Forms
  <2> QED BY <1>2, <2>1
<1>7. x \in [kind : Received, id : Nat]
  BY <1>4, <1>5, <1>6, FormsOf
<1>8. /\ Append(toClient, x) \in Seq([kind : Received, id : Nat])
      /\ Len(toClient) \in Nat /\ Len(Append(toClient, x)) = Len(toClient) + 1
  BY <1>4, <1>7, AppendTo
<1>9. CASE toClient' = toClient /\ (room' = room \/ peer = "reset" \/ ~copen)
  <2>1. TypeOK' /\ ClientInv'
    BY <1>1, <1>2, <1>9, ClientUnchanged DEF TypeOK
  <2>2. RoomInv'
    BY <1>2, <1>3, <1>9 DEF RoomInv
  <2>3. clean' => Protocol'
    BY <1>2, WritesProtocol
  <2> QED BY <1>1, <1>2, <2>1, <2>2, <2>3
<1>10. CASE /\ toClient' = Append(toClient, x)
            /\ peer # "reset" /\ copen /\ room > 0 /\ room' = room - 1
  <2>1. room + Len(toClient) = OutCap
    BY <1>3, <1>10 DEF RoomInv
  <2>2. /\ toClient' \in Seq([kind : Received, id : Nat]) /\ Len(toClient') <= OutCap
        /\ room' + Len(toClient') = OutCap
    <3>1. Len(toClient') = Len(toClient) + 1
      BY <1>8, <1>10
    <3>2. \A m, r \in Nat : r + m = OutCap /\ r > 0 =>
            m + 1 <= OutCap /\ (r - 1) + (m + 1) = OutCap
      BY <1>4
    <3>3. Len(toClient') <= OutCap /\ room' + Len(toClient') = OutCap
      <4>1. room > 0 /\ room' = room - 1 /\ room \in Nat /\ Len(toClient) \in Nat
        BY <1>4, <1>8, <1>10
      <4> QED BY <2>1, <3>1, <3>2, <4>1, Zenon
    <3> QED BY <1>8, <1>10, <3>3
  <2>3. toServer' = toServer /\ serving' = serving
    BY <1>2
  <2>4. toServer' \in Seq([type : Types, id : Nat]) /\ Len(toServer') <= InCap
        /\ serving' \in Nat
    BY <2>3 DEF TypeOK
  <2>5. TypeOK' /\ ClientInv'
    BY <1>1, <1>2, <2>2, <2>4, ClientUnchanged
  <2>6. RoomInv'
    BY <1>2, <1>3, <2>2 DEF RoomInv
  <2>7. clean' => Protocol'
    BY <1>2, WritesProtocol
  <2> QED BY <1>1, <1>2, <2>5, <2>6, <2>7
<1> QED BY <1>6, <1>9, <1>10

\* The end of the connection and the stop touch neither queue nor call.
LEMMA EndingStep ==
  ASSUME SessionInv, CloseConn \/ Refused \/ ServerStops \/ Over \/ UNCHANGED vars
  PROVE  SessionInv'
<1> USE DEF SessionInv
<1>1. /\ UNCHANGED <<toServer, toClient, serving, call, sending, gotStart, streaming,
                     rc, ncalls, req, clean, stray>>
      /\ PeerResets \/ ClearRunning \/ UNCHANGED handlerVars
      /\ copen' = copen \/ (call = "none" /\ copen' = FALSE)
  BY DEF CloseConn, Refused, ServerStops, Over, vars, queueVars, clientVars
<1>2. HandlerInv'
  BY <1>1, EnvironmentStep, HandlerUnchanged
<1>3. UNCHANGED <<pc, room, todo, gotStop>> /\ (peer' = peer \/ peer' = "reset")
  BY <1>1 DEF PeerResets, ClearRunning, handlerVars, connVars, peerVars, outVars
<1>4. copen' \in BOOLEAN
  BY <1>1 DEF TypeOK
<1>5. TypeOK'
  BY <1>1, <1>2, <1>4 DEF TypeOK, HandlerInv
<1>6. ClientInv'
  BY <1>1 DEF ClientInv
<1>7. RoomInv'
  BY <1>1, <1>3 DEF RoomInv, TypeOK
<1>8. clean' => Protocol'
  BY <1>1, <1>3, ProtocolUnchanged
<1> QED BY <1>1, <1>2, <1>5, <1>6, <1>7, <1>8

\* A call begins.
LEMMA BeginStep ==
  ASSUME SessionInv, NEW c \in Calls, Begin(c) PROVE SessionInv'
<1> USE DEF SessionInv
<1>1. /\ copen /\ call = "none" /\ call' = c /\ sending' \in Scripts(c)
      /\ gotStart' = FALSE /\ ncalls < MaxCalls /\ ncalls' = ncalls + 1
      /\ streaming <=> c \in {"chunk", "stop"}
      /\ req' = IF streaming THEN req ELSE req + 1
      /\ UNCHANGED <<toServer, toClient, serving, copen, streaming, rc, clean, stray>>
      /\ UNCHANGED handlerVars
  BY DEF Begin, queueVars
<1>2. HandlerInv'
  BY <1>1, HandlerUnchanged
<1>3. /\ sending' \in Seq(Types)
      /\ c = "describe" => sending' = <<"describe">>
      /\ c = "synthesize" => sending' = <<"synthesize">>
      /\ c = "start" => sending' = <<"transcribe-start", "audio-start">>
      /\ c = "chunk" => sending' = <<"audio-chunk">>
      /\ c = "stop" => sending' = <<"audio-stop", "transcribe-stop">>
      /\ c = "transcribe" =>
           \A j \in 1 .. Len(sending') :
             /\ sending'[j] \in {"transcribe", "audio-start", "audio-chunk", "audio-stop"}
             /\ sending'[j] = "transcribe" => j = 1
             /\ sending'[j] = "audio-stop" => j = Len(sending')
  BY <1>1, ScriptOf
<1>4. TypeOK'
  <2>1. ncalls' \in 0 .. MaxCalls /\ req' \in Nat
    BY <1>1, SessionAssumption DEF TypeOK
  <2> QED BY <1>1, <1>2, <1>3, <2>1 DEF TypeOK, HandlerInv
<1>5. ClientInv'
  BY <1>1, <1>3 DEF ClientInv, Calls
<1>6. UNCHANGED <<pc, peer, room, todo>>
  BY <1>1 DEF handlerVars, connVars, peerVars, outVars
<1>7. RoomInv'
  BY <1>1, <1>6 DEF RoomInv
<1>8. clean' => Protocol'
  BY <1>1, BeginProtocol
<1> QED BY <1>1, <1>2, <1>4, <1>5, <1>7, <1>8

\* The library writes an event.
LEMMA SendStep == ASSUME SessionInv, SendEvent PROVE SessionInv'
<1> USE DEF SessionInv
<1>1. /\ sending # <<>> /\ sending' = Tail(sending)
      /\ UNCHANGED <<toClient, serving, copen, call, gotStart, streaming, rc, ncalls,
                     req, clean, stray>>
      /\ UNCHANGED handlerVars
      /\ \/ /\ Len(toServer) < InCap
            /\ toServer' = Append(toServer, [type |-> Head(sending), id |-> req])
         \/ toServer' = toServer
  BY DEF SendEvent
<1>2. HandlerInv'
  BY <1>1, HandlerUnchanged
<1>3. /\ sending' \in Seq(Types) /\ ClientInv'
      /\ Head(sending) = sending[1] /\ sending[1] \in Types
  BY <1>1, SendFacts
<1>4. toServer' \in Seq([type : Types, id : Nat]) /\ Len(toServer') <= InCap
  <2>1. /\ toServer \in Seq([type : Types, id : Nat]) /\ Len(toServer) <= InCap
        /\ req \in Nat /\ InCap \in Nat
    BY SessionAssumption DEF TypeOK
  <2>2. PICK x : x = [type |-> Head(sending), id |-> req]
    OBVIOUS
  <2>3. x \in [type : Types, id : Nat]
    BY <1>3, <2>1, <2>2
  <2>4. /\ Append(toServer, x) \in Seq([type : Types, id : Nat])
        /\ Len(toServer) \in Nat /\ Len(Append(toServer, x)) = Len(toServer) + 1
    BY <2>1, <2>3, AppendTo
  <2>5. CASE Len(toServer) < InCap /\ toServer' = Append(toServer, x)
    <3>1. Len(toServer') = Len(toServer) + 1
      BY <2>4, <2>5
    <3>2. \A m \in Nat : m < InCap => m + 1 <= InCap
      BY <2>1
    <3>3. Len(toServer') <= InCap
      BY <2>4, <2>5, <3>1, <3>2, Zenon
    <3> QED BY <2>4, <2>5, <3>3
  <2> QED BY <1>1, <2>1, <2>2, <2>5
<1>5. TypeOK'
  BY <1>1, <1>2, <1>3, <1>4 DEF TypeOK, HandlerInv
<1>6. UNCHANGED <<pc, peer, room, todo>>
  BY <1>1 DEF handlerVars, connVars, peerVars, outVars
<1>7. RoomInv'
  BY <1>1, <1>6 DEF RoomInv
<1>8. clean' => Protocol'
  BY <1>1, SendsProtocol
<1> QED BY <1>1, <1>2, <1>3, <1>5, <1>7, <1>8

\* A call returns without an answer: it needs none, or it fails.
LEMMA ReturnStep ==
  ASSUME SessionInv, SendDone \/ SendFails \/ ReadEof PROVE SessionInv'
<1> USE DEF SessionInv
<1>1. PICK code \in {"ok", "nomem", "io", "eof"} :
        Return(code) /\ (code = "ok" => SendDone)
  BY DEF SendDone, SendFails, ReadEof
<1>2. UNCHANGED <<toServer, toClient, serving, stray>> /\ UNCHANGED handlerVars
  BY DEF SendDone, SendFails, ReadEof, queueVars
<1>3. /\ call' = "none" /\ sending' = <<>> /\ rc' = code
      /\ clean' = (clean /\ code = "ok") /\ streaming' \in BOOLEAN
      /\ UNCHANGED <<copen, gotStart, ncalls, req>>
  BY <1>1 DEF Return, ReturnAs
<1>4. HandlerInv'
  BY <1>2, HandlerUnchanged
<1>5. TypeOK'
  <2>1. sending' \in Seq(Types)
    BY <1>3
  <2> QED BY <1>2, <1>3, <1>4, <2>1 DEF TypeOK, HandlerInv
<1>6. ClientInv'
  BY <1>3 DEF ClientInv
<1>7. UNCHANGED <<pc, peer, room, todo>>
  BY <1>2 DEF handlerVars, connVars, peerVars, outVars
<1>8. RoomInv'
  BY <1>2, <1>3, <1>7 DEF RoomInv
<1>9. clean' => Protocol'
  BY <1>1, <1>3, DoneProtocol
<1> QED BY <1>2, <1>4, <1>5, <1>6, <1>8, <1>9

\* A call reads an answer.
LEMMA ReadAnswerStep == ASSUME SessionInv, ReadAnswer PROVE SessionInv'
<1> USE DEF SessionInv
<1>1. /\ sending' = <<>> /\ sending = <<>> /\ toClient # <<>>
      /\ toClient' = Tail(toClient)
      /\ UNCHANGED <<pc, peer, todo, toServer, serving, copen, ncalls, req>>
      /\ \/ UNCHANGED <<call, streaming, rc, clean>>
         \/ /\ call' = "none" /\ streaming' = FALSE
            /\ rc' \in {"ok", "proto", "nomem"} /\ (clean' => clean) /\ clean' \in BOOLEAN
      /\ gotStart' \in BOOLEAN
      /\ IF pc # "closed" /\ peer # "reset" THEN PeerReads ELSE UNCHANGED handlerVars
  BY ReadAnswerEffect
<1>2. HandlerInv'
  BY <1>1, EnvironmentStep, HandlerUnchanged
<1>3. ~stray' /\ stray' \in BOOLEAN
  <2>1. ~stray'
    BY ReadAnswerOwn
  <2>2. stray' = (stray \/ (clean /\ toClient[1].id # req))
    BY ReadAnswerEffect
  <2> QED BY <2>1, <2>2
<1>4. /\ toClient \in Seq([kind : Received, id : Nat]) /\ Len(toClient) <= OutCap
      /\ OutCap \in Nat /\ room \in Nat
  BY HandlerAssumption DEF TypeOK, HandlerTypeOK
<1>5. /\ toClient' \in Seq([kind : Received, id : Nat])
      /\ Len(toClient) \in Nat /\ Len(toClient') = Len(toClient) - 1
  BY <1>1, <1>4, TailOf
<1>6. Len(toClient') <= OutCap
  BY <1>4, <1>5
<1>7. TypeOK'
  <2>1. call' \in Calls \cup {"none"} /\ streaming' \in BOOLEAN /\ clean' \in BOOLEAN
        /\ rc' \in {"none", "ok", "proto", "io", "nomem", "parse", "eof"}
    BY <1>1 DEF TypeOK
  <2>2. sending' \in Seq(Types)
    BY <1>1
  <2> QED BY <1>1, <1>2, <1>3, <1>5, <1>6, <2>1, <2>2 DEF TypeOK, HandlerInv
<1>8. ClientInv'
  BY <1>1 DEF ClientInv
<1>9. RoomInv'
  <2>1. pc # "closed" /\ peer # "reset" => room' = room + 1
    BY <1>1 DEF PeerReads
  <2>2. \A r, m \in Nat : r + m = OutCap => (r + 1) + (m - 1) = OutCap
    BY <1>4
  <2>3. room + Len(toClient) = OutCap => (room + 1) + (Len(toClient) - 1) = OutCap
    BY <1>4, <1>5, <2>2, Zenon
  <2> QED BY <1>1, <1>5, <2>1, <2>3 DEF RoomInv
<1>10. clean' => Protocol'
  <2>1. clean' => clean
    BY <1>1
  <2> QED BY <2>1, ReadAnswerProtocol
<1> QED BY <1>2, <1>3, <1>7, <1>8, <1>9, <1>10

\* A read of the library fails: the call returns, and the session is no
\* longer clean.
LEMMA ReadErrorStep == ASSUME SessionInv, ReadError PROVE SessionInv'
<1> USE DEF SessionInv
<1>1. PICK code \in {"nomem", "parse", "io"} : Return(code)
  BY DEF ReadError
<1>2. /\ UNCHANGED <<toServer, serving, stray>> /\ sending = <<>>
      /\ \/ toClient # <<>> /\ TakeOut
         \/ pc = "closed" /\ toClient' = <<>> /\ UNCHANGED handlerVars
  BY DEF ReadError
<1>3. /\ call' = "none" /\ sending' = <<>> /\ rc' = code /\ clean' = FALSE
      /\ streaming' \in BOOLEAN /\ UNCHANGED <<copen, gotStart, ncalls, req>>
  BY <1>1 DEF Return, ReturnAs
<1>4. /\ toClient' = <<>> \/ (toClient # <<>> /\ toClient' = Tail(toClient))
      /\ UNCHANGED <<pc, peer, todo>>
      /\ \/ /\ pc # "closed" /\ peer # "reset" /\ toClient # <<>>
            /\ toClient' = Tail(toClient) /\ PeerReads
         \/ (pc = "closed" \/ peer = "reset") /\ UNCHANGED handlerVars
  BY <1>2 DEF TakeOut, PeerReads, handlerVars, connVars, peerVars, outVars
<1>5. HandlerInv'
  BY <1>4, EnvironmentStep, HandlerUnchanged
<1>6. /\ toClient \in Seq([kind : Received, id : Nat]) /\ Len(toClient) <= OutCap
      /\ OutCap \in Nat /\ room \in Nat
  BY HandlerAssumption DEF TypeOK, HandlerTypeOK
<1>7. /\ toClient' \in Seq([kind : Received, id : Nat]) /\ Len(toClient') <= OutCap
      /\ toClient # <<>> => Len(Tail(toClient)) = Len(toClient) - 1 /\ Len(toClient) \in Nat
  <2>1. CASE toClient' = <<>>
    BY <1>6, <2>1, TailOf
  <2>2. CASE toClient # <<>> /\ toClient' = Tail(toClient)
    BY <1>6, <2>2, TailOf
  <2> QED BY <1>4, <2>1, <2>2
<1>8. TypeOK'
  <2>1. sending' \in Seq(Types)
    BY <1>3
  <2> QED BY <1>2, <1>3, <1>5, <1>7, <2>1 DEF TypeOK, HandlerInv
<1>9. ClientInv'
  BY <1>3 DEF ClientInv
<1>10. RoomInv'
  <2>1. pc # "closed" /\ peer # "reset" =>
          room' = room + 1 /\ toClient # <<>> /\ toClient' = Tail(toClient)
    BY <1>4 DEF PeerReads
  <2>2. \A r, m \in Nat : r + m = OutCap => (r + 1) + (m - 1) = OutCap
    BY <1>6
  <2>3. toClient # <<>> /\ room + Len(toClient) = OutCap =>
          (room + 1) + (Len(toClient) - 1) = OutCap
    BY <1>6, <1>7, <2>2, Zenon
  <2> QED BY <1>3, <1>4, <1>7, <2>1, <2>3 DEF RoomInv
<1> QED BY <1>2, <1>3, <1>5, <1>8, <1>9, <1>10

\* SessionInv is inductive.
LEMMA NextSessionInv == SessionInv /\ [Next]_vars => SessionInv'
<1> SUFFICES ASSUME SessionInv, [Next]_vars PROVE SessionInv'
  OBVIOUS
<1>1. CASE \E c \in Calls : Begin(c)
  BY <1>1, BeginStep
<1>2. CASE Library \/ SendFails \/ ReadError
  BY <1>2, SendStep, ReturnStep, ReadAnswerStep, ReadErrorStep DEF Library
<1>3. CASE Server \/ ServerWriteFails
  BY <1>3, ServerReadsStep, ServerMovesStep, ServerWritesStep DEF Server
<1>4. CASE CloseConn \/ Refused \/ ServerStops \/ Over \/ UNCHANGED vars
  BY <1>4, EndingStep
<1> QED BY <1>1, <1>2, <1>3, <1>4 DEF Next

-----------------------------------------------------------------------------
(* The theorems.                                                           *)

\* The session never leaves its inductive invariant.
THEOREM SessionInvariance == Spec => []SessionInv
<1> QED BY InitSessionInv, NextSessionInv, PTL DEF Spec

\* Type correctness of the queues, of the handler and of the library: the
\* queues never hold more than the connection takes.
THEOREM SessionTypeCorrect == Spec => []TypeOK
<1>1. SessionInv => TypeOK
  BY DEF SessionInv
<1> QED BY <1>1, SessionInvariance, PTL

\* client.c:138, 292, 548, 669 against server.c:416-772: until a call fails,
\* or a stop takes for the final transcript a partial one that lost its
\* is_partial (server.c:719, client.c:683-689), a call only reads answers
\* that were written for its own request, events short of data included.
THEOREM AnswersAreOwn == Spec => []OwnAnswers
<1>1. SessionInv => OwnAnswers
  BY DEF SessionInv, OwnAnswers
<1> QED BY <1>1, SessionInvariance, PTL

\* client.c:131-216, 542-567, 662-707 against server.c:469-524, 626-640,
\* 740-749: until then, a call that has returned left nothing of its answer
\* in the connection and the handler in none of its loops.
THEOREM CallsEndAtBothEnds == Spec => []CallsEndBoth
<1>1. SessionInv => CallsEndBoth
  BY DEF SessionInv, Protocol, QuietInv, CallsEndBoth
<1> QED BY <1>1, SessionInvariance, PTL

\* server.c:576-608, 694-731, 759: until then, no loop of the handler
\* that drops what it does not expect, and no drain, takes a request.
THEOREM RequestsAreDispatched == Spec => []RequestsDispatched
<1>1. SessionInv => RequestsDispatched
  <2> SUFFICES ASSUME SessionInv, clean, toServer # <<>>,
                      Head(toServer).type \in Requests
               PROVE  pc \notin {"batch-start", "batch-read", "stream-start",
                                 "stream-read", "stream-drain"}
    BY DEF RequestsDispatched
  <2>1. Head(toServer) = toServer[1] /\ 1 \in 1 .. Len(toServer)
    BY TailOf DEF SessionInv, TypeOK
  <2>2. Quiet
    BY <2>1 DEF SessionInv, Protocol, QuietInv, Queued
  <2>3. pc # "stream-drain"
    BY <2>1 DEF SessionInv, Protocol, DrainInv, StopIsNext, Requests
  <2> QED BY <2>2, <2>3 DEF Quiet, BatchPcs, StreamPcs
<1> QED BY <1>1, SessionInvariance, PTL

\* client.c:608-636: until then, server and client block on each
\* other in write() only while a stream is fed or stopped.
THEOREM OnlyStreamsBlockEachOther == Spec => []OnlyStreamsBlock
<1>1. SessionInv => OnlyStreamsBlock
  <2> SUFFICES ASSUME SessionInv, clean, sending # <<>>, todo # <<>>
               PROVE  call \in {"chunk", "stop"}
    BY DEF OnlyStreamsBlock, WriteCycle
  <2>1. call \notin {"transcribe", "start"}
    BY DEF SessionInv, Protocol, WriteInv
  <2>2. ~Unsent
    BY DEF SessionInv, Protocol, QuietInv, Quiet
  <2>3. call \notin {"describe", "synthesize"}
    <3>1. /\ call = "describe" => sending = <<"describe">>
          /\ call = "synthesize" => sending = <<"synthesize">>
      BY DEF SessionInv, ClientInv
    <3>2. call \in {"describe", "synthesize"} => sending[1] \in Requests
      BY <3>1 DEF Requests
    <3> QED BY <2>2, <3>2 DEF Unsent
  <2>4. call # "none"
    BY DEF SessionInv, ClientInv
  <2> QED BY <2>1, <2>3, <2>4 DEF SessionInv, TypeOK, Calls
<1> QED BY <1>1, SessionInvariance, PTL

=============================================================================
