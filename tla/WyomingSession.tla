--------------------------- MODULE WyomingSession ---------------------------
(***************************************************************************)
(* A connection with the client library (src/src/client.c) at one end and  *)
(* handle_client (ClientHandler) at the other, over two bounded queues of  *)
(* whole events.  The program makes one call after the other, a streaming  *)
(* transcription as start, chunks, stop; it goes on after a failed call.   *)
(*                                                                         *)
(* The library's writes block while the queue is full and its reads have   *)
(* no timeout.  The handler's reads fail when the queue stays empty for    *)
(* its receive timeout, and only then or at the end of the connection.     *)
(***************************************************************************)
EXTENDS ClientHandler

CONSTANTS
  InCap,                    \* events the server may leave unread
  MaxSamples,               \* bound on the chunks of one wyoming_transcribe_pcm
  MaxCalls                  \* bound on the calls of the program

ASSUME SessionAssumption ==
  /\ InCap \in Nat \ {0}
  /\ {0, 2} \subseteq Bytes
  /\ MaxSamples \in Nat \ {0}
  /\ MaxCalls \in Nat

VARIABLES
  toServer,                 \* events sent and not yet read by the handler
  toClient,                 \* answers sent and not yet read by the library
  copen,                    \* the client's end of the connection is open
  call,                     \* the library call in progress, or "none"
  sending,                  \* events the call still has to write
  gotStart,                 \* got_start of wyoming_synthesize_pcm
  streaming,                \* between transcribe_start and transcribe_stop
  rc,                       \* what the last call returned
  ncalls,                   \* history: calls made
  req,                      \* history: the number of the current request
  serving,                  \* history: the request the handler answers
  clean,                    \* history: no call has failed or been misled
  stray                     \* history: a call took an answer not its own

queueVars  == <<toServer, toClient, serving>>
clientVars == <<copen, call, sending, gotStart, streaming, rc, ncalls, req,
                clean, stray>>
vars == <<handlerVars, queueVars, clientVars>>

\* An event of the library; a chunk holds one sample.
Message(type) ==
  [type |-> type, text |-> type = "synthesize",
   bytes |-> IF type = "audio-chunk" THEN 2 ELSE 0]

Requests == {"describe", "synthesize", "transcribe", "transcribe-start"}

\* What cJSON_Create* and cJSON_Add* that fail unnoticed leave of an event:
\* a partial transcript without is_partial ("unmarked"), a transcript without
\* a data block ("blank").  A lost text or format changes no read.
Forms(kind) ==
  CASE kind = "partial" -> {"partial", "unmarked", "blank"}
    [] kind = "final"   -> {"final", "blank"}
    [] OTHER            -> {kind}

Received == Responses \cup {"unmarked", "blank"}

\* Mutant: transcribe-stop is forgotten.
StopScriptShort == <<"audio-stop">>

\* What wyoming_transcribe_stop writes.
StopScript == <<"audio-stop", "transcribe-stop">>

\* What a call writes, in this order.
Scripts(c) ==
  CASE c = "describe"   -> {<<"describe">>}
    [] c = "synthesize" -> {<<"synthesize">>}
    [] c = "transcribe" -> {<<"transcribe", "audio-start">>
                              \o [i \in 1 .. n |-> "audio-chunk"]
                              \o <<"audio-stop">> : n \in 1 .. MaxSamples}
    [] c = "start"      -> {<<"transcribe-start", "audio-start">>}
    [] c = "chunk"      -> {<<"audio-chunk">>}
    [] c = "stop"       -> {StopScript}

Calls == {"describe", "synthesize", "transcribe", "start", "chunk", "stop"}

\* The calls that read an answer.
Reading == {"describe", "synthesize", "transcribe", "stop"}

\* After wyoming_connect, and accept at the other end.
Init ==
  /\ HandlerInit
  /\ toServer = <<>> /\ toClient = <<>>
  /\ copen = TRUE
  /\ call = "none" /\ sending = <<>> /\ gotStart = FALSE
  /\ streaming = FALSE
  /\ rc = "none"
  /\ ncalls = 0 /\ req = 0 /\ serving = 0
  /\ clean = TRUE /\ stray = FALSE

-----------------------------------------------------------------------------
(* The library.                                                            *)

\* The program calls c; a stream's chunks and its stop belong to its start.
Begin(c) ==
  /\ copen /\ call = "none" /\ ncalls < MaxCalls
  /\ streaming <=> c \in {"chunk", "stop"}
  /\ ncalls' = ncalls + 1
  /\ req' = IF streaming THEN req ELSE req + 1
  /\ call' = c
  /\ sending' \in Scripts(c)
  /\ gotStart' = FALSE
  /\ UNCHANGED <<handlerVars, queueVars, copen, streaming, rc, clean, stray>>

\* The call returns code; after a failed call the program gives up a stream.
ReturnAs(code, sound) ==
  /\ call' = "none"
  /\ sending' = <<>>
  /\ rc' = code
  /\ clean' = (clean /\ sound)
  /\ streaming' = (code = "ok" /\ call \in {"start", "chunk"})
  /\ UNCHANGED <<copen, gotStart, ncalls, req>>

Return(code) == ReturnAs(code, code = "ok")

\* wyoming_event_write_fd.  The kernel may take an event for a server that
\* has closed, where nobody reads it.
SendEvent ==
  /\ sending # <<>>
  /\ \/ /\ pc # "closed"
        /\ Len(toServer) < InCap
        /\ toServer' = Append(toServer, [type |-> Head(sending), id |-> req])
     \/ pc = "closed" /\ UNCHANGED toServer
  /\ sending' = Tail(sending)
  /\ UNCHANGED <<handlerVars, toClient, serving, copen, call, gotStart,
                 streaming, rc, ncalls, req, clean, stray>>

\* The event cannot be allocated, or the server has closed (and SIGPIPE, which
\* the library leaves to the program, is ignored).
SendFails ==
  /\ sending # <<>>
  /\ Return("nomem") \/ (pc = "closed" /\ Return("io"))
  /\ UNCHANGED <<handlerVars, queueVars, stray>>

\* A call that reads nothing has written all its events.
SendDone ==
  /\ call \in {"start", "chunk"} /\ sending = <<>>
  /\ Return("ok")
  /\ UNCHANGED <<handlerVars, queueVars, stray>>

GoOn ==
  UNCHANGED <<copen, call, sending, gotStart, streaming, rc, ncalls, req,
              clean>>

\* wyoming_describe takes one answer.
TakeInfo(kind) ==
  IF kind = "info" THEN Return("ok") ELSE Return("proto")

\* Mutant: the first event of the audio ends the call.
TakeAudioFirst(kind) ==
  IF kind = "audio-start" THEN Return("ok") ELSE GoOn

\* wyoming_synthesize_pcm collects until audio-stop.
TakeAudio(kind) ==
  \/ /\ kind = "audio-start"
     /\ gotStart' = TRUE
     /\ UNCHANGED <<copen, call, sending, streaming, rc, ncalls, req, clean>>
  \/ /\ kind = "audio-chunk"
     /\ \/ ~gotStart /\ Return("proto")
        \/ gotStart /\ (GoOn \/ Return("nomem"))
  \/ kind = "audio-stop" /\ Return("ok")
  \/ kind \notin {"audio-start", "audio-chunk", "audio-stop"} /\ GoOn

\* wyoming_transcribe_pcm takes the first transcript, whatever it is; it
\* cannot tell a text it failed to copy from one that was not there.
TakeTranscript(kind) ==
  \/ kind \in {"partial", "unmarked", "final"} /\ (Return("ok") \/ Return("proto"))
  \/ kind = "blank" /\ Return("proto")
  \/ kind \notin {"partial", "unmarked", "final", "blank"} /\ GoOn

\* Mutant: is_partial is not looked at.
TakeFinalUnchecked(kind) ==
  IF kind \in {"partial", "unmarked", "final"} THEN Return("ok") ELSE GoOn

\* wyoming_transcribe_stop reads past the partial transcripts, and past one
\* without data.  It takes a partial without is_partial for the final one,
\* and returns WYOMING_OK.
TakeFinal(kind) ==
  \/ kind = "final" /\ Return("ok")
  \/ kind = "unmarked" /\ ReturnAs("ok", FALSE)
  \/ kind \notin {"final", "unmarked"} /\ GoOn

\* The answer leaves the receive buffer, which makes room for the server.
TakeOut ==
  /\ toClient' = Tail(toClient)
  /\ IF pc # "closed" /\ peer # "reset" THEN PeerReads
                                        ELSE UNCHANGED handlerVars

ReadAnswer ==
  /\ call \in Reading /\ sending = <<>>
  /\ toClient # <<>>
  /\ LET a == Head(toClient)
     IN  /\ \/ call = "describe" /\ TakeInfo(a.kind)
            \/ call = "synthesize" /\ TakeAudio(a.kind)
            \/ call = "transcribe" /\ TakeTranscript(a.kind)
            \/ call = "stop" /\ TakeFinal(a.kind)
         /\ stray' = (stray \/ (clean /\ a.id # req))
  /\ TakeOut
  /\ UNCHANGED <<toServer, serving>>

\* The server has closed and everything it sent has been read.
ReadEof ==
  /\ call \in Reading /\ sending = <<>>
  /\ toClient = <<>>
  /\ pc = "closed"
  /\ Return("eof")
  /\ UNCHANGED <<handlerVars, queueVars, stray>>

\* wyoming_read_event fails in another way: no memory for the event, which is
\* lost (cJSON_Parse reports that as a parse error), or a server that closed
\* with requests unread and so reset the connection, dropping its answers.
ReadError ==
  /\ call \in Reading /\ sending = <<>>
  /\ \/ toClient # <<>> /\ (Return("nomem") \/ Return("parse")) /\ TakeOut
     \/ pc = "closed" /\ Return("io") /\ toClient' = <<>> /\ UNCHANGED handlerVars
  /\ UNCHANGED <<toServer, serving, stray>>

\* wyoming_close; answers nobody read make it a reset.
CloseConn ==
  /\ copen /\ call = "none"
  /\ copen' = FALSE
  /\ IF toClient # <<>> /\ pc # "closed" THEN PeerResets
                                         ELSE UNCHANGED handlerVars
  /\ UNCHANGED <<queueVars, call, sending, gotStart, streaming, rc, ncalls,
                 req, clean, stray>>

\* The client's kernel refuses what is sent to a closed connection.
Refused ==
  /\ ~copen
  /\ room < OutCap
  /\ PeerResets
  /\ UNCHANGED <<queueVars, clientVars>>

Library ==
  \/ SendEvent \/ SendDone \/ ReadAnswer \/ ReadEof

-----------------------------------------------------------------------------
(* The handler, between the queues.                                        *)

\* A read of the handler returns the event at the front of its queue.
ServerReads ==
  /\ toServer # <<>>
  /\ LET m == Head(toServer)
         e == Message(m.type)
     IN  /\ \/ Dispatch(e) \/ BatchStart(e) \/ BatchRead(e)
            \/ StreamStart(e) \/ StreamRead(e)
            \/ StreamDrain /\ nread' = nread + 1
         /\ serving' = IF pc = "read" THEN m.id ELSE serving
  /\ toServer' = Tail(toServer)
  /\ UNCHANGED <<toClient, clientVars>>

\* A read fails: nothing came in time, the client has closed, or a reset.
ServerReadFails ==
  /\ toServer = <<>> \/ peer = "reset"
  /\ \/ RequestFails \/ BatchStartFails \/ BatchReadFails
     \/ StreamStartFails \/ StreamReadFails
     \/ StreamDrain /\ nread' = nread
  /\ peer' = IF peer = "up" /\ ~copen THEN "eof" ELSE peer
  /\ UNCHANGED <<queueVars, clientVars>>

ServerWrites ==
  /\ Write
  /\ \E k \in Forms(Head(todo)) :
       toClient' = IF peer = "reset" \/ ~copen THEN toClient
                   ELSE Append(toClient, [kind |-> k, id |-> serving])
  /\ UNCHANGED <<toServer, serving, clientVars>>

\* Nothing of the answer's event goes out.
ServerWriteFails == WriteFails /\ UNCHANGED <<queueVars, clientVars>>

ServerComputes ==
  /\ LoopHead \/ BatchHead \/ BatchDone \/ StreamHead \/ StreamFinal
       \/ StreamDestroy
  /\ UNCHANGED <<queueVars, clientVars>>

\* wyoming_server_stop.
ServerStops == ClearRunning /\ UNCHANGED <<queueVars, clientVars>>

Server == ServerReads \/ ServerReadFails \/ ServerWrites \/ ServerComputes

\* The program makes no more calls.
Over ==
  /\ call = "none" /\ (~copen \/ ncalls = MaxCalls)
  /\ UNCHANGED vars

Next ==
  \/ \E c \in Calls : Begin(c)
  \/ Library \/ SendFails \/ ReadError \/ CloseConn \/ Refused
  \/ Server \/ ServerWriteFails \/ ServerStops
  \/ Over

Spec == Init /\ [][Next]_vars

(***************************************************************************)
(* Both threads are scheduled.  The handler's read gives up after its      *)
(* timeout; the program need make no further call.                         *)
(***************************************************************************)
FairSpec == Spec /\ WF_vars(Library) /\ WF_vars(Server)

-----------------------------------------------------------------------------
(* Properties.                                                             *)

\* Type correctness of the queues and of the library's state.
TypeOK ==
  /\ HandlerTypeOK
  /\ toServer \in Seq([type : Types, id : Nat]) /\ Len(toServer) <= InCap
  /\ toClient \in Seq([kind : Received, id : Nat]) /\ Len(toClient) <= OutCap
  /\ copen \in BOOLEAN
  /\ call \in Calls \cup {"none"}
  /\ sending \in Seq(Types)
  /\ gotStart \in BOOLEAN /\ streaming \in BOOLEAN
  /\ rc \in {"none", "ok", "proto", "io", "nomem", "parse", "eof"}
  /\ ncalls \in 0 .. MaxCalls
  /\ req \in Nat /\ serving \in Nat
  /\ clean \in BOOLEAN /\ stray \in BOOLEAN

(***************************************************************************)
(* The next four say what holds while the session is clean: no call has    *)
(* failed, and no wyoming_transcribe_stop has taken for the final          *)
(* transcript a partial one that lost its is_partial to a failed           *)
(* allocation (server.c:719, client.c:683-689).  Such a stop returns       *)
(* WYOMING_OK, and its later transcripts reach the next call.              *)
(***************************************************************************)

\* While clean, every answer a call reads was written for that call's own
\* request: partial and early final transcripts, the drain and the refused
\* requests leave nothing behind that a later call could take for its own
\* (client.c:138, 292, 548, 669 against server.c:416-772).
OwnAnswers == ~stray

\* The handler is busy with a request that it has not answered in full.
BatchPcs  == {"batch-start", "batch-head", "batch-read", "batch-done"}
StreamPcs == {"stream-start", "stream-head", "stream-read", "stream-final"}

\* The current request is over, not sent, or not read: nothing is on its way
\* to the client.
Idle  == call = "none" /\ ~streaming
Quiet == toClient = <<>> /\ todo = <<>> /\ pc \notin BatchPcs \cup StreamPcs

\* While clean, a call that has returned is over at both ends: no event of
\* its answer is in the connection or still to be written, and the handler is
\* in none of its loops (client.c:131-216, 542-567, 662-707 against
\* server.c:469-524, 626-640, 740-749).
CallsEndBoth == clean /\ Idle => Quiet

\* While clean, a request of the library is read where the handler
\* dispatches requests: neither the batch loop, the stream loop nor the
\* drain, which drop what they do not expect, ever takes one
\* (server.c:576-608, 694-731, 759).
RequestsDispatched ==
  clean /\ toServer # <<>> /\ Head(toServer).type \in Requests
    => pc \notin {"batch-start", "batch-read", "stream-start",
                 "stream-read", "stream-drain"}

\* Both ends are in write() and neither reads.
WriteCycle ==
  /\ sending # <<>> /\ Len(toServer) = InCap
  /\ todo # <<>> /\ room = 0 /\ peer # "reset" /\ pc # "closed"

\* While clean, server and client never block on each other in write(),
\* except in a stream, whose chunks are sent without reading the partial
\* transcripts (client.c:608-636).
OnlyStreamsBlock == clean /\ WriteCycle => call \in {"chunk", "stop"}

\* Every call returns, also after failed calls, refused requests, lost
\* answers and timeouts, unless both ends block in write(): the library has
\* no timeout, and relies on the server closing a connection that is idle.
CallsReturn == (call # "none") ~> (call = "none" \/ WriteCycle)

-----------------------------------------------------------------------------
(***************************************************************************)
(* The inductive invariant behind the safety properties.                   *)
(***************************************************************************)

\* What is left to write belongs to the call.
ClientInv ==
  /\ call = "none" => sending = <<>>
  /\ call = "describe" => sending \in {<<"describe">>, <<>>}
  /\ call = "synthesize" => sending \in {<<"synthesize">>, <<>>}
  /\ call = "start" =>
       sending \in {<<"transcribe-start", "audio-start">>, <<"audio-start">>, <<>>}
  /\ call = "chunk" => sending \in {<<"audio-chunk">>, <<>>}
  /\ call = "stop" =>
       sending \in {<<"audio-stop", "transcribe-stop">>, <<"transcribe-stop">>, <<>>}
  /\ call = "transcribe" =>
       \A j \in 1 .. Len(sending) :
         /\ sending[j] \in {"transcribe", "audio-start", "audio-chunk", "audio-stop"}
         /\ sending[j] = "transcribe" => j = 1
         /\ sending[j] = "audio-stop" => j = Len(sending)
  /\ call \in {"chunk", "stop"} => streaming
  /\ call \in {"describe", "synthesize", "transcribe", "start"} => ~streaming
  /\ ~copen => call = "none"

\* The unread answers and the room for more fill the connection, which is
\* closed with nothing left to write.
RoomInv ==
  /\ pc # "closed" /\ peer # "reset" /\ copen => room + Len(toClient) = OutCap
  /\ pc = "closed" => todo = <<>>

\* The current request has not been sent, or has not been read, or is a
\* stream.
Unsent   == sending # <<>> /\ sending[1] \in Requests
Queued   == \E j \in 1 .. Len(toServer) : toServer[j].type \in Requests
InStream == streaming \/ call = "start"

QuietInv ==
  /\ Idle \/ Unsent => ~Queued
  /\ Idle \/ Unsent \/ Queued => Quiet

\* The event that ends an answer is the last one.
Ends == {"info", "audio-stop", "final"}

EndInv ==
  /\ \A j \in 1 .. Len(toClient) : toClient[j].kind \in Ends =>
       j = Len(toClient) /\ todo = <<>> /\ pc \notin BatchPcs \cup StreamPcs
  /\ \A j \in 1 .. Len(todo) : todo[j] \in Ends =>
       j = Len(todo) /\ pc \notin BatchPcs \cup StreamPcs

\* What is answered is the current request, by the kind of call it is.
AnswerOwnInv ==
  /\ \A j \in 1 .. Len(toClient) : toClient[j].id = req
  /\ todo # <<>> \/ pc \in BatchPcs \cup StreamPcs => serving = req
  /\ pc \in BatchPcs => call = "transcribe"
  /\ pc \in StreamPcs => InStream
  /\ \A j \in 1 .. Len(toClient) :
       toClient[j].kind \in {"partial", "unmarked"} => InStream
  /\ \A j \in 1 .. Len(todo) : todo[j] = "partial" => InStream

\* The server's queue: leftovers of earlier requests, then the current one
\* with what belongs to it.
QueueInv ==
  /\ \A j \in 1 .. Len(toServer) : toServer[j].id <= req
  /\ Unsent => \A j \in 1 .. Len(toServer) : toServer[j].id # req
  /\ pc \in BatchPcs \cup StreamPcs =>
       \A j \in 1 .. Len(toServer) : toServer[j].id = req
  /\ \A j \in 1 .. Len(toServer) : toServer[j].type \in Requests =>
       /\ \A i \in 1 .. Len(toServer) :
            IF i < j THEN toServer[i].id # req ELSE toServer[i].id = req
       /\ call = toServer[j].type \/ (toServer[j].type = "transcribe-start" /\ InStream)
  /\ \A i, j \in 1 .. Len(toServer) :
       toServer[i].type \in Requests /\ toServer[j].type \in Requests => i = j

\* A call that still writes has not been answered: the handler waits for its
\* last event.
WriteInv ==
  /\ call = "transcribe" /\ sending # <<>> =>
       /\ todo = <<>>
       /\ pc \in {"batch-head", "batch-read", "batch-done"} => gotStop = "no"
       /\ \A j \in 1 .. Len(toServer) :
            toServer[j].id = req => toServer[j].type # "audio-stop"
  /\ call = "start" /\ sending # <<>> =>
       /\ todo = <<>>
       /\ pc \notin {"stream-head", "stream-read", "stream-final"}
       /\ \A j \in 1 .. Len(toServer) :
            toServer[j].id = req => toServer[j].type # "audio-start"

\* The transcribe-stop is the next event the handler will read.
StopIsNext ==
  IF toServer = <<>> THEN sending = <<"transcribe-stop">>
                     ELSE toServer[1].type = "transcribe-stop"

\* The stream's audio-stop has not been read.
Feeding ==
  \/ Queued /\ pc # "closed"
  \/ pc = "stream-start"
  \/ pc \in {"stream-head", "stream-read", "stream-final"} /\ gotStop = "no"

\* Until then audio-stop and transcribe-stop come together, and then the
\* transcribe-stop is what the drain takes.
DrainInv ==
  /\ pc = "stream-read" => gotStop = "no"
  /\ pc = "stream-drain" => StopIsNext
  /\ pc \in {"stream-head", "stream-final"} /\ gotStop # "no" => StopIsNext
  /\ Feeding /\ InStream =>
       /\ \A j \in 1 .. Len(toServer) :
            toServer[j].id = req /\ toServer[j].type = "transcribe-stop" =>
              j > 1 /\ toServer[j - 1].type = "audio-stop"
       /\ \A j \in 1 .. Len(toServer) :
            toServer[j].id = req /\ toServer[j].type = "audio-stop" =>
              IF j < Len(toServer) THEN toServer[j + 1].type = "transcribe-stop"
                                   ELSE sending = <<"transcribe-stop">>
       /\ sending = <<"transcribe-stop">> =>
            toServer # <<>> /\ toServer[Len(toServer)].type = "audio-stop"

Protocol ==
  QuietInv /\ EndInv /\ AnswerOwnInv /\ QueueInv /\ WriteInv /\ DrainInv

SessionInv ==
  HandlerInv /\ TypeOK /\ ClientInv /\ RoomInv /\ ~stray /\ (clean => Protocol)

=============================================================================
