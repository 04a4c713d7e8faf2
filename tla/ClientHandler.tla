--------------------------- MODULE ClientHandler ----------------------------
(***************************************************************************)
(* handle_client (src/src/server.c): the server's side of one connection.  *)
(* The handler reads an event, dispatches on its type and writes the       *)
(* answer; transcribe and transcribe-start read further events themselves. *)
(*                                                                         *)
(* Reads and writes are whole events (EventStream says when that is so).   *)
(* The peer is arbitrary: a read returns any event, or fails (timeout, end *)
(* of file, parse error, no memory, reset).  The engine callbacks return   *)
(* anything.  wyoming_server_stop clears running at any moment.            *)
(***************************************************************************)
EXTENDS Integers, Sequences

CONSTANTS
  HasTTS, HasASR,           \* srv->tts_fn, srv->asr_fn are set
  HasStream,                \* asr_stream_create and asr_stream_process are
  HasDestroy,               \* asr_stream_destroy is
  Bytes,                    \* sizes an audio-chunk's payload may have
  MinCap,                   \* 16000, the smallest PCM buffer in samples
  OutCap,                   \* events the peer may leave unread
  MaxChunks,                \* bound on the chunks of one synthesis
  MaxReads                  \* bound on the events the peer sends

ASSUME HandlerAssumption ==
  /\ HasTTS \in BOOLEAN /\ HasASR \in BOOLEAN
  /\ HasStream \in BOOLEAN /\ HasDestroy \in BOOLEAN
  /\ Bytes \subseteq Nat
  /\ MinCap \in Nat \ {0}
  /\ OutCap \in Nat \ {0}
  /\ MaxChunks \in Nat
  /\ MaxReads \in Nat

VARIABLES
  running,                  \* srv->running
  pc,                       \* where handle_client is
  peer,                     \* "up", "eof" once a read met it, or "reset"
  room,                     \* events the send buffer still takes
  timeout,                  \* SO_RCVTIMEO of the client socket, in seconds
  todo,                     \* events the handler is about to write
  gotStop,                  \* got_stop: "no", or the event that set it
  pcm, cap, total,          \* pcm ("null" or "heap"), pcm_cap, pcm_total
  ctx,                      \* the stream context: "none", "live", "final"
  due,                      \* history: the answer the request calls for
  answer,                   \* history: events given to the writer for it
  late,                     \* history: reads that returned after the stop
  nread                     \* history: events read

peerVars   == <<peer, room>>
outVars    == <<todo, due, answer>>
batchVars  == <<pcm, cap, total>>
readVars   == <<late, nread>>
connVars   == <<pc, peerVars, timeout, outVars, gotStop, batchVars, ctx,
                readVars>>
handlerVars == <<running, connVars>>

Types ==
  {"describe", "synthesize", "transcribe", "transcribe-start",
   "transcribe-stop", "audio-start", "audio-chunk", "audio-stop", "other"}

\* text: the data block holds a string "text"; bytes: payload_len.
Events == [type : Types, text : BOOLEAN, bytes : Bytes]

Responses ==
  {"info", "audio-start", "audio-chunk", "audio-stop", "partial", "final"}

\* A connection no handler has touched.
FreshConnection ==
  /\ peer = "up"
  /\ room = OutCap
  /\ timeout = 30
  /\ todo = <<>>
  /\ gotStop = "no"
  /\ pcm = "null" /\ cap = 0 /\ total = 0
  /\ ctx = "none"
  /\ due = "nothing" /\ answer = <<>>
  /\ late = 0 /\ nread = 0

HandlerInit == running = TRUE /\ pc = "loop" /\ FreshConnection

\* handle_client is entered for a new connection.
Open ==
  /\ pc = "closed"
  /\ pc' = "loop"
  /\ peer' = "up" /\ room' = OutCap
  /\ timeout' = 30
  /\ todo' = <<>> /\ due' = "nothing" /\ answer' = <<>>
  /\ gotStop' = "no"
  /\ pcm' = "null" /\ cap' = 0 /\ total' = 0
  /\ ctx' = "none"
  /\ late' = 0 /\ nread' = 0
  /\ UNCHANGED running

-----------------------------------------------------------------------------
(* Reading and writing events.                                             *)

\* The handler is at p and has written all it wanted to.
At(p) == pc = p /\ todo = <<>>

Late == late' = IF running THEN late ELSE late + 1

\* wyoming_event_read_iobuf returns WYOMING_OK.
Read(e) ==
  /\ peer = "up"
  /\ nread < MaxReads
  /\ nread' = nread + 1
  /\ Late
  /\ UNCHANGED peerVars

\* wyoming_event_read_iobuf returns an error; an end of file is for good.
ReadFails ==
  /\ peer' \in (IF peer = "up" THEN {"up", "eof"} ELSE {peer})
  /\ Late
  /\ UNCHANGED <<room, nread>>

\* wyoming_event_write_fd is given the next event of the answer.  No caller
\* looks at what it returns.
NextEvent ==
  /\ todo # <<>>
  /\ answer' = Append(answer, Head(todo))
  /\ todo' = Tail(todo)
  /\ UNCHANGED <<running, pc, peer, timeout, due, gotStop, batchVars, ctx,
                 readVars>>

\* The write blocks while the peer leaves no room; on a connection that was
\* reset it fails.
Write ==
  /\ NextEvent
  /\ \/ peer = "reset" /\ room' = room
     \/ peer # "reset" /\ room > 0 /\ room' = room - 1

\* No memory for the event's type or its frame: nothing of it goes out.  What
\* a data block that lost fields does to the reader is WyomingSession's Forms.
WriteFails == NextEvent /\ room' = room

-----------------------------------------------------------------------------
(* The main loop and its dispatch.                                         *)

LoopHead ==
  /\ At("loop")
  /\ pc' = IF running THEN "read" ELSE "closed"
  /\ UNCHANGED <<running, peerVars, timeout, outVars, gotStop, batchVars,
                 ctx, readVars>>

\* Mutant: a failed read is tried again.
RequestRetries ==
  /\ At("read")
  /\ ReadFails
  /\ pc' = "loop"
  /\ UNCHANGED <<running, timeout, outVars, gotStop, batchVars, ctx>>

RequestFails ==
  /\ At("read")
  /\ ReadFails
  /\ pc' = "closed"
  /\ UNCHANGED <<running, timeout, outVars, gotStop, batchVars, ctx>>

\* The request is answered with the events of s, and the loop goes on.
Respond(kind, s) ==
  /\ pc' = "loop"
  /\ due' = kind
  /\ answer' = <<>>
  /\ todo' = s
  /\ UNCHANGED <<running, timeout, gotStop, batchVars, ctx>>

Describe(e) ==
  /\ At("read") /\ e.type = "describe"
  /\ Read(e)
  /\ Respond("info", <<"info">>)

\* audio-start, n audio-chunks, audio-stop.
Speech(n) ==
  <<"audio-start">> \o [i \in 1 .. n |-> "audio-chunk"] \o <<"audio-stop">>

\* No text, no engine, or an engine that fails: no answer at all.
Synthesize(e) ==
  /\ At("read") /\ e.type = "synthesize"
  /\ Read(e)
  /\ \/ Respond("nothing", <<>>)
     \/ /\ e.text /\ HasTTS
        /\ \E n \in 0 .. MaxChunks : Respond("audio", Speech(n))

\* A request that goes on reading at p, if its callbacks are set.
Enter(p, enabled) ==
  /\ pc' = IF enabled THEN p ELSE "loop"
  /\ due' = "nothing"
  /\ answer' = <<>>
  /\ UNCHANGED <<running, timeout, todo, gotStop, batchVars, ctx>>

Transcribe(e) ==
  /\ At("read") /\ e.type = "transcribe"
  /\ Read(e)
  /\ Enter("batch-start", HasASR)

TranscribeStart(e) ==
  /\ At("read") /\ e.type = "transcribe-start"
  /\ Read(e)
  /\ Enter("stream-start", HasStream)

IgnoreEvent(e) ==
  /\ At("read")
  /\ e.type \notin {"describe", "synthesize", "transcribe",
                    "transcribe-start"}
  /\ Read(e)
  /\ Respond("nothing", <<>>)

-----------------------------------------------------------------------------
(* transcribe: collect the audio, then recognize it.                       *)

BatchStart(e) ==
  /\ At("batch-start")
  /\ Read(e)
  /\ pc' = IF e.type = "audio-start" THEN "batch-head" ELSE "closed"
  /\ gotStop' = "no"
  /\ pcm' = "null" /\ cap' = 0 /\ total' = 0
  /\ UNCHANGED <<running, timeout, outVars, ctx>>

BatchStartFails ==
  /\ At("batch-start")
  /\ ReadFails
  /\ pc' = "closed"
  /\ UNCHANGED <<running, timeout, outVars, gotStop, batchVars, ctx>>

\* Mutant: the loop does not look at srv->running.
BatchHeadDeaf ==
  /\ At("batch-head")
  /\ pc' = IF gotStop = "no" THEN "batch-read" ELSE "batch-done"
  /\ UNCHANGED <<running, peerVars, timeout, outVars, gotStop, batchVars,
                 ctx, readVars>>

BatchHead ==
  /\ At("batch-head")
  /\ pc' = IF gotStop = "no" /\ running THEN "batch-read" ELSE "batch-done"
  /\ UNCHANGED <<running, peerVars, timeout, outVars, gotStop, batchVars,
                 ctx, readVars>>

\* Mutant: the test forgets the samples about to be copied.
AppendPcmUnchecked(samples) ==
  /\ cap' = IF total >= cap THEN MinCap ELSE cap
  /\ pcm' = "heap"
  /\ total' = total + samples
  /\ pc' = "batch-head"

\* Mutant: the buffer is freed when realloc fails, and the pointer kept.
AppendPcmDangling(samples) ==
  LET need == total + samples
  IN  \/ /\ need > cap
         /\ cap' = IF 2 * need < MinCap THEN MinCap ELSE 2 * need
         /\ \/ pcm' = "heap" /\ total' = need /\ pc' = "batch-head"
            \/ pcm' = "freed" /\ total' = total /\ pc' = "batch-done"
      \/ /\ need <= cap
         /\ total' = need
         /\ pc' = "batch-head"
         /\ UNCHANGED <<pcm, cap>>

\* Copy a chunk's samples to the end of the PCM buffer, which grows to twice
\* what it must hold.  If realloc fails the buffer is gone and the loop ends.
AppendPcm(samples) ==
  LET need == total + samples
  IN  \/ /\ need > cap
         /\ cap' = IF 2 * need < MinCap THEN MinCap ELSE 2 * need
         /\ \/ pcm' = "heap" /\ total' = need /\ pc' = "batch-head"
            \/ pcm' = "null" /\ total' = total /\ pc' = "batch-done"
      \/ /\ need <= cap
         /\ total' = need
         /\ pc' = "batch-head"
         /\ UNCHANGED <<pcm, cap>>

BatchRead(e) ==
  /\ At("batch-read")
  /\ Read(e)
  /\ \/ /\ e.type = "audio-chunk" /\ e.bytes > 0
        /\ AppendPcm(e.bytes \div 2)
        /\ gotStop' = gotStop
     \/ /\ e.type = "audio-stop"
        /\ gotStop' = e.type
        /\ pc' = "batch-head"
        /\ UNCHANGED batchVars
     \/ /\ e.type # "audio-stop" /\ ~(e.type = "audio-chunk" /\ e.bytes > 0)
        /\ pc' = "batch-head"
        /\ UNCHANGED <<gotStop, batchVars>>
  /\ UNCHANGED <<running, timeout, outVars, ctx>>

\* Mutant: a failed read is tried again.
BatchReadRetries ==
  /\ At("batch-read")
  /\ ReadFails
  /\ pc' = "batch-head"
  /\ UNCHANGED <<running, timeout, outVars, gotStop, batchVars, ctx>>

BatchReadFails ==
  /\ At("batch-read")
  /\ ReadFails
  /\ pc' = "batch-done"
  /\ UNCHANGED <<running, timeout, outVars, gotStop, batchVars, ctx>>

\* Recognize the audio and answer; a failing engine gives an empty text.
BatchDone ==
  /\ At("batch-done")
  /\ IF pcm = "null" \/ total = 0 \/ gotStop = "no"
     THEN UNCHANGED <<todo, due>>
     ELSE todo' = <<"final">> /\ due' = "transcript"
  /\ pc' = "loop"
  /\ pcm' = "null" /\ cap' = 0 /\ total' = 0
  /\ UNCHANGED <<running, peerVars, timeout, answer, gotStop, ctx, readVars>>

-----------------------------------------------------------------------------
(* transcribe-start: feed the engine chunk by chunk.                       *)

\* The format arrives and the engine is asked for a context; it may refuse.
StreamStart(e) ==
  /\ At("stream-start")
  /\ Read(e)
  /\ gotStop' = "no"
  /\ \/ /\ e.type # "audio-start"
        /\ pc' = "closed"
        /\ UNCHANGED <<ctx, due>>
     \/ /\ e.type = "audio-start"
        /\ pc' = "loop"
        /\ UNCHANGED <<ctx, due>>
     \/ /\ e.type = "audio-start"
        /\ pc' = "stream-head"
        /\ ctx' = "live"
        /\ due' = "stream"
  /\ UNCHANGED <<running, timeout, todo, answer, batchVars>>

StreamStartFails ==
  /\ At("stream-start")
  /\ ReadFails
  /\ pc' = "closed"
  /\ UNCHANGED <<running, timeout, outVars, gotStop, batchVars, ctx>>

StreamHead ==
  /\ At("stream-head")
  /\ pc' = IF gotStop = "no" /\ running THEN "stream-read" ELSE "stream-final"
  /\ UNCHANGED <<running, peerVars, timeout, outVars, gotStop, batchVars,
                 ctx, readVars>>

\* A chunk is processed with is_final = 0, and may give a partial text.
StreamRead(e) ==
  /\ At("stream-read")
  /\ Read(e)
  /\ pc' = "stream-head"
  /\ gotStop' = IF e.type \in {"audio-stop", "transcribe-stop"}
                THEN e.type ELSE gotStop
  /\ \/ todo' = todo
     \/ e.type = "audio-chunk" /\ e.bytes > 0 /\ todo' = <<"partial">>
  /\ UNCHANGED <<running, timeout, due, answer, batchVars, ctx>>

\* Mutant: a failed read abandons the stream without a final transcript.
StreamReadAbandons ==
  /\ At("stream-read")
  /\ ReadFails
  /\ pc' = "stream-destroy"
  /\ UNCHANGED <<running, timeout, outVars, gotStop, batchVars, ctx>>

\* Mutant: a failed read leaves handle_client at once.
StreamReadBreaks ==
  /\ At("stream-read")
  /\ ReadFails
  /\ pc' = "closed"
  /\ UNCHANGED <<running, timeout, outVars, gotStop, batchVars, ctx>>

StreamReadFails ==
  /\ At("stream-read")
  /\ ReadFails
  /\ pc' = "stream-final"
  /\ UNCHANGED <<running, timeout, outVars, gotStop, batchVars, ctx>>

\* The last call of process, is_final = 1, and the final transcript; the
\* receive timeout is lowered if one more event is to be read.
StreamFinal ==
  /\ At("stream-final")
  /\ ctx' = "final"
  /\ todo' = <<"final">>
  /\ pc' = IF gotStop = "no" THEN "stream-destroy" ELSE "stream-drain"
  /\ timeout' = IF gotStop = "no" THEN timeout ELSE 1
  /\ UNCHANGED <<running, peerVars, due, answer, gotStop, batchVars, readVars>>

\* Mutant: the timeout is not restored.
StreamDrainStaysShort ==
  /\ At("stream-drain")
  /\ ReadFails \/ \E e \in Events : Read(e)
  /\ pc' = "stream-destroy"
  /\ UNCHANGED <<running, timeout, outVars, gotStop, batchVars, ctx>>

\* One event, whatever it is, or a failure: both are dropped.
StreamDrain ==
  /\ At("stream-drain")
  /\ ReadFails \/ \E e \in Events : Read(e)
  /\ pc' = "stream-destroy"
  /\ timeout' = 30
  /\ UNCHANGED <<running, outVars, gotStop, batchVars, ctx>>

StreamDestroy ==
  /\ At("stream-destroy")
  /\ ctx' = IF HasDestroy THEN "none" ELSE "leaked"
  /\ pc' = "loop"
  /\ UNCHANGED <<running, peerVars, timeout, outVars, gotStop, batchVars,
                 readVars>>

-----------------------------------------------------------------------------
(* The environment of the handler.                                         *)

\* The peer takes an event out of its receive buffer.
PeerReads ==
  /\ pc # "closed"
  /\ peer # "reset"
  /\ room < OutCap
  /\ room' = room + 1
  /\ UNCHANGED <<running, pc, peer, timeout, outVars, gotStop, batchVars,
                 ctx, readVars>>

PeerResets ==
  /\ pc # "closed"
  /\ peer # "reset"
  /\ peer' = "reset"
  /\ UNCHANGED <<running, pc, room, timeout, outVars, gotStop, batchVars,
                 ctx, readVars>>

\* The first half of wyoming_server_stop.
ClearRunning ==
  /\ running
  /\ running' = FALSE
  /\ UNCHANGED connVars

Dispatch(e) ==
  \/ Describe(e) \/ Synthesize(e) \/ Transcribe(e) \/ TranscribeStart(e)
  \/ IgnoreEvent(e)

Batch ==
  \/ \E e \in Events : BatchStart(e) \/ BatchRead(e)
  \/ BatchStartFails \/ BatchHead \/ BatchReadFails \/ BatchDone

Stream ==
  \/ \E e \in Events : StreamStart(e) \/ StreamRead(e)
  \/ StreamStartFails \/ StreamHead \/ StreamReadFails
  \/ StreamFinal \/ StreamDrain \/ StreamDestroy

Handler ==
  \/ Write
  \/ LoopHead
  \/ RequestFails
  \/ \E e \in Events : Dispatch(e)
  \/ Batch
  \/ Stream

\* What the handler does not control: the peer, and the heap.
Environment == PeerReads \/ PeerResets \/ WriteFails

\* handle_client has returned: nothing more happens on this connection.
Closed == pc = "closed" /\ UNCHANGED handlerVars

HandlerNext == Handler \/ Environment \/ ClearRunning \/ Closed

HandlerSpec == HandlerInit /\ [][HandlerNext]_handlerVars

(***************************************************************************)
(* The handler's thread runs, and SO_RCVTIMEO makes a read that gets       *)
(* nothing fail.  Nothing makes the peer read.                             *)
(***************************************************************************)
FairHandlerSpec == HandlerSpec /\ WF_handlerVars(Handler)

\* With a peer that does read what it is sent.
ReadingPeerSpec == FairHandlerSpec /\ WF_handlerVars(PeerReads)

-----------------------------------------------------------------------------
(* Properties.                                                             *)

Pcs ==
  {"loop", "read", "closed", "batch-start", "batch-head", "batch-read",
   "batch-done", "stream-start", "stream-head", "stream-read",
   "stream-final", "stream-drain", "stream-destroy"}

StopKinds == {"no", "audio-stop", "transcribe-stop"}

\* Type correctness of the handler's locals and of the connection.
HandlerTypeOK ==
  /\ running \in BOOLEAN
  /\ pc \in Pcs
  /\ peer \in {"up", "eof", "reset"}
  /\ room \in 0 .. OutCap
  /\ timeout \in {1, 30}
  /\ todo \in Seq(Responses)
  /\ gotStop \in StopKinds
  /\ pcm \in {"null", "heap"} /\ cap \in Nat /\ total \in Nat
  /\ ctx \in {"none", "live", "final", "leaked"}
  /\ due \in {"nothing", "info", "audio", "transcript", "stream"}
  /\ answer \in Seq(Responses)
  /\ late \in Nat /\ nread \in Nat

\* s is the whole answer a request of this kind calls for.
Complete(kind, s) ==
  CASE kind = "nothing"    -> s = <<>>
    [] kind = "info"       -> s = <<"info">>
    [] kind = "transcript" -> s = <<"final">>
    [] kind = "audio"      -> /\ Len(s) >= 2
                              /\ s[1] = "audio-start"
                              /\ s[Len(s)] = "audio-stop"
                              /\ \A i \in 2 .. Len(s) - 1 :
                                   s[i] = "audio-chunk"
    [] kind = "stream"     -> /\ Len(s) >= 1
                              /\ s[Len(s)] = "final"
                              /\ \A i \in 1 .. Len(s) - 1 : s[i] = "partial"

\* Whatever cut the request short - a stop, a timeout, the end of the
\* connection, a failing engine or allocation - the handler goes on to the
\* next request, or closes, only when what it gave to the writer for this
\* one is a whole answer: an audio-start is always followed by its audio-stop, a stream
\* that was created gets its partials and then exactly one final
\* transcript, and a refused request gets nothing (server.c:416-772).
AnswersComplete ==
  (pc \in {"loop", "read", "closed"} /\ todo = <<>>) => Complete(due, answer)

\* A stream context lives exactly as long as its request: it is there on
\* every path from create to destroy, is finalized once and before it is
\* destroyed, and is never left behind by a request that ended, however the
\* stream ended (server.c:684-769).
ContextLifetime ==
  /\ ctx = "live" <=> pc \in {"stream-head", "stream-read", "stream-final"}
  /\ ctx = "final" <=> pc \in {"stream-drain", "stream-destroy"}
  /\ HasDestroy => ctx # "leaked"

\* The samples collected always fit the PCM buffer, through every growth
\* (server.c:585-602), and a buffer with room is one that is allocated: no
\* sample is copied behind a failed realloc.
PcmFits ==
  /\ total <= cap
  /\ pc \in {"batch-head", "batch-read"} /\ cap > 0 => pcm = "heap"

\* The short timeout of the drain (server.c:755-764) never reaches another
\* read: an idle client keeps its 30 seconds.
TimeoutRestored == pc # "stream-drain" => timeout = 30

\* Once stop has cleared running, at most two more reads return before the
\* handler does, whatever the peer sends (server.c:402, 575, 693).
StopIsPrompt == late <= 2

\* A connection whose peer reads its answers is closed in the end, once the
\* peer stops sending requests.
HandlerReturns == <>(pc = "closed")

-----------------------------------------------------------------------------
(* What comments and documents say of the handler.                         *)

\* server.c:397: the receive timeout is set "so misbehaving clients don't
\* block forever": whatever a client does, its handler returns.
NoClientBlocksForever == <>(pc = "closed")

\* server.c:751: the extra event is read "if we stopped on audio-stop".
DrainAfterAudioStop == pc = "stream-drain" => gotStop = "audio-stop"

-----------------------------------------------------------------------------
(***************************************************************************)
(* The inductive invariant behind the safety properties.                   *)
(***************************************************************************)
Partials(s) == \A i \in 1 .. Len(s) : s[i] = "partial"

\* What has been written and what is about to be are, together, the whole
\* answer once the request has been dealt with, and its start before.
AnswerInv ==
  /\ pc \in {"loop", "read", "closed", "stream-drain", "stream-destroy"}
       => Complete(due, answer \o todo)
  /\ pc \in {"batch-start", "batch-head", "batch-read", "batch-done",
            "stream-start"}
       => due = "nothing" /\ answer = <<>> /\ todo = <<>>
  /\ pc \in {"stream-head", "stream-read", "stream-final"}
       => due = "stream" /\ Partials(answer \o todo)
  /\ pc \in {"stream-drain", "stream-destroy"} => due = "stream"
  /\ pc \in {"read", "stream-read"} => todo = <<>>

\* How many reads can have returned since the stop, place by place: the
\* loops read only after they saw running set, and only the end of a stream
\* that was stopped by its client reads once more.
LateInv ==
  /\ running /\ pc # "closed" => late = 0
  /\ pc \in {"read", "batch-read", "stream-read"} => late = 0
  /\ pc \in {"batch-start", "stream-start", "stream-drain"} => late <= 1
  /\ pc \in {"stream-head", "stream-final"} /\ gotStop # "no" => late <= 1
  /\ late <= 2

HandlerInv ==
  /\ HandlerTypeOK
  /\ AnswerInv
  /\ ContextLifetime
  /\ PcmFits
  /\ TimeoutRestored
  /\ LateInv

=============================================================================
