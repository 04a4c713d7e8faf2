------------------------ MODULE ClientHandler_proofs ------------------------
(***************************************************************************)
(* Proofs about ClientHandler: HandlerInv is inductive, hence the safety   *)
(* properties of handle_client hold for every set of callbacks, payload    *)
(* size, buffer size and number of events.                                 *)
(***************************************************************************)
EXTENDS ClientHandler, TLAPS

\* Writing the next event of an answer does not change the answer.
LEMMA WriteKeepsAnswer ==
  ASSUME NEW S, NEW a \in Seq(S), NEW t \in Seq(S), t # <<>>
  PROVE  /\ Append(a, Head(t)) \in Seq(S) /\ Tail(t) \in Seq(S)
         /\ Append(a, Head(t)) \o Tail(t) = a \o t
  BY SMT

\* What a synthesis sends is a whole answer.
LEMMA SpeechComplete ==
  ASSUME NEW n \in Nat
  PROVE  /\ Speech(n) \in Seq(Responses)
         /\ Complete("audio", <<>> \o Speech(n))
<1>1. PICK c : c = [i \in 1 .. n |-> "audio-chunk"]
  OBVIOUS
<1>2. c \in Seq(Responses) /\ Len(c) = n /\ \A i \in 1 .. n : c[i] = "audio-chunk"
  BY <1>1 DEF Responses
<1>3. PICK s : s = <<"audio-start">> \o c \o <<"audio-stop">>
  OBVIOUS
<1>4. /\ s \in Seq(Responses) /\ Len(s) = n + 2
      /\ s[1] = "audio-start" /\ s[n + 2] = "audio-stop"
      /\ \A i \in 2 .. n + 1 : s[i] = "audio-chunk"
  BY <1>2, <1>3 DEF Responses
<1>5. <<>> \o s = s
  BY <1>4
<1>6. s = Speech(n)
  BY <1>1, <1>3 DEF Speech
<1>7. Complete("audio", s)
  <2>1. Len(s) >= 2 /\ Len(s) - 1 = n + 1 /\ s[Len(s)] = "audio-stop"
    BY <1>4
  <2> QED BY <1>4, <2>1 DEF Complete
<1> QED BY <1>4, <1>5, <1>6, <1>7

\* A stream's partials followed by the final transcript are a whole answer.
LEMMA FinalCompletes ==
  ASSUME NEW a \in Seq(Responses), Partials(a)
  PROVE  Complete("stream", a \o <<"final">>)
<1>1. PICK s : s = a \o <<"final">>
  OBVIOUS
<1>2. /\ Len(a) \in Nat /\ Len(s) = Len(a) + 1 /\ s[Len(a) + 1] = "final"
      /\ \A i \in 1 .. Len(a) : s[i] = a[i]
  BY <1>1
<1> QED BY <1>1, <1>2 DEF Complete, Partials

\* A fresh connection satisfies the invariant.
LEMMA InitHandlerInv == HandlerInit => HandlerInv
<1> SUFFICES ASSUME HandlerInit PROVE HandlerInv
  OBVIOUS
<1> USE HandlerAssumption DEF HandlerInit, FreshConnection
<1>1. HandlerTypeOK
  BY DEF HandlerTypeOK, Pcs, StopKinds
<1>2. AnswerInv
  BY DEF AnswerInv, Complete
<1>3. ContextLifetime /\ PcmFits /\ TimeoutRestored /\ LateInv
  BY DEF ContextLifetime, PcmFits, TimeoutRestored, LateInv
<1> QED BY <1>1, <1>2, <1>3 DEF HandlerInv

\* Writing an event preserves the invariant.
LEMMA WriteStep ==
  ASSUME HandlerInv, Write \/ WriteFails
  PROVE  HandlerInv'
<1> USE DEF HandlerInv
<1>1. /\ todo # <<>> /\ todo \in Seq(Responses) /\ answer \in Seq(Responses)
      /\ answer' = Append(answer, Head(todo)) /\ todo' = Tail(todo)
      /\ UNCHANGED <<running, pc, peer, timeout, due, gotStop, pcm, cap, total,
                     ctx, late, nread>>
  BY DEF Write, WriteFails, NextEvent, HandlerTypeOK, batchVars, readVars
<1>2. /\ answer' \in Seq(Responses) /\ todo' \in Seq(Responses)
      /\ answer' \o todo' = answer \o todo
  BY <1>1, WriteKeepsAnswer
<1>3. room' \in 0 .. OutCap
  BY HandlerAssumption DEF Write, WriteFails, HandlerTypeOK
<1>4. HandlerTypeOK'
  BY <1>1, <1>2, <1>3 DEF HandlerTypeOK
<1>5. AnswerInv'
  BY <1>1, <1>2 DEF AnswerInv, Complete, Partials
<1>6. ContextLifetime' /\ PcmFits' /\ TimeoutRestored' /\ LateInv'
  BY <1>1 DEF ContextLifetime, PcmFits, TimeoutRestored, LateInv
<1> QED BY <1>4, <1>5, <1>6

\* What a read changes, whether it returns an event or fails.
LEMMA ReadEffect ==
  ASSUME HandlerTypeOK, (\E e \in Events : Read(e)) \/ ReadFails
  PROVE  /\ peer' \in {"up", "eof", "reset"} /\ room' = room
         /\ nread' \in Nat /\ late' \in Nat
         /\ late' = IF running THEN late ELSE late + 1
  BY DEF HandlerTypeOK, Read, ReadFails, Late, peerVars

\* The main loop: its head, a failed read and the requests it answers or
\* hands on preserve the invariant.
LEMMA DispatchStep ==
  ASSUME HandlerInv,
         LoopHead \/ RequestFails \/ (\E e \in Events : Dispatch(e))
  PROVE  HandlerInv'
<1> USE DEF HandlerInv
<1>1. CASE LoopHead
  <2>1. /\ pc = "loop" /\ todo = <<>>
        /\ pc' = IF running THEN "read" ELSE "closed"
        /\ UNCHANGED <<running, peer, room, timeout, todo, due, answer, gotStop,
                       pcm, cap, total, ctx, late, nread>>
    BY <1>1 DEF LoopHead, At, peerVars, outVars, batchVars, readVars
  <2>2. HandlerTypeOK'
    BY <2>1 DEF HandlerTypeOK, Pcs
  <2>3. AnswerInv'
    BY <2>1 DEF AnswerInv
  <2>4. ContextLifetime' /\ PcmFits' /\ TimeoutRestored' /\ LateInv'
    BY <2>1 DEF ContextLifetime, PcmFits, TimeoutRestored, LateInv, HandlerTypeOK
  <2> QED BY <2>2, <2>3, <2>4
<1>2. CASE RequestFails
  <2>1. /\ pc = "read" /\ pc' = "closed" /\ ReadFails
        /\ UNCHANGED <<running, timeout, todo, due, answer, gotStop,
                       pcm, cap, total, ctx>>
    BY <1>2 DEF RequestFails, At, outVars, batchVars
  <2>2. /\ peer' \in {"up", "eof", "reset"} /\ room' = room
        /\ nread' \in Nat /\ late' \in Nat
        /\ late' = IF running THEN late ELSE late + 1
    BY <2>1, ReadEffect
  <2>3. HandlerTypeOK'
    BY <2>1, <2>2 DEF HandlerTypeOK, Pcs
  <2>4. AnswerInv'
    BY <2>1 DEF AnswerInv
  <2>5. ContextLifetime' /\ PcmFits' /\ TimeoutRestored' /\ LateInv'
    BY <2>1, <2>2 DEF ContextLifetime, PcmFits, TimeoutRestored, LateInv, HandlerTypeOK
  <2> QED BY <2>3, <2>4, <2>5
<1>3. ASSUME NEW e \in Events, Dispatch(e)
      PROVE  HandlerInv'
  <2>1. /\ pc = "read" /\ todo = <<>> /\ Read(e)
        /\ UNCHANGED <<running, timeout, gotStop, pcm, cap, total, ctx>>
    BY <1>3 DEF Dispatch, Describe, Synthesize, Transcribe, TranscribeStart,
                IgnoreEvent, Respond, Enter, At, batchVars
  <2>2. /\ peer' \in {"up", "eof", "reset"} /\ room' = room
        /\ nread' \in Nat /\ late' \in Nat
        /\ late' = IF running THEN late ELSE late + 1
    BY <2>1, ReadEffect
  <2>3. \/ /\ pc' = "loop" /\ answer' = <<>>
           /\ todo' \in Seq(Responses)
           /\ due' \in {"nothing", "info", "audio"}
           /\ Complete(due', answer' \o todo')
        \/ /\ pc' \in {"loop", "batch-start", "stream-start"}
           /\ due' = "nothing" /\ answer' = <<>> /\ todo' = <<>>
    <3>1. CASE Describe(e)
      <4>1. /\ pc' = "loop" /\ due' = "info" /\ answer' = <<>> /\ todo' = <<"info">>
        BY <3>1 DEF Describe, Respond
      <4>2. answer' \o todo' = <<"info">> /\ todo' \in Seq(Responses)
        BY <4>1 DEF Responses
      <4> QED BY <4>1, <4>2 DEF Complete
    <3>2. CASE Synthesize(e)
      <4>1. CASE Respond("nothing", <<>>)
        BY <4>1 DEF Respond
      <4>2. ASSUME NEW n \in 0 .. MaxChunks, Respond("audio", Speech(n))
            PROVE  /\ pc' = "loop" /\ answer' = <<>> /\ todo' \in Seq(Responses)
                   /\ due' = "audio" /\ Complete(due', answer' \o todo')
        <5>1. n \in Nat
          BY HandlerAssumption
        <5> QED BY <4>2, <5>1, SpeechComplete DEF Respond
      <4> QED BY <3>2, <4>1, <4>2 DEF Synthesize
    <3>3. CASE Transcribe(e) \/ TranscribeStart(e)
      BY <3>3, <2>1 DEF Transcribe, TranscribeStart, Enter
    <3>4. CASE IgnoreEvent(e)
      BY <3>4 DEF IgnoreEvent, Respond
    <3> QED BY <1>3, <3>1, <3>2, <3>3, <3>4 DEF Dispatch
  <2>4. /\ answer' \in Seq(Responses) /\ todo' \in Seq(Responses)
        /\ due' \in {"nothing", "info", "audio"}
        /\ pc' \in {"loop", "batch-start", "stream-start"}
    <3>1. <<>> \in Seq(Responses)
      OBVIOUS
    <3> QED BY <2>3, <3>1, Zenon
  <2>5. HandlerTypeOK'
    BY <2>1, <2>2, <2>4 DEF HandlerTypeOK, Pcs
  <2>6. AnswerInv'
    <3>1. <<>> \o <<>> = <<>>
      OBVIOUS
    <3> QED BY <2>3, <3>1 DEF AnswerInv, Complete
  <2>7. ContextLifetime' /\ PcmFits' /\ TimeoutRestored' /\ LateInv'
    BY <2>1, <2>2, <2>4
    DEF ContextLifetime, PcmFits, TimeoutRestored, LateInv, HandlerTypeOK
  <2> QED BY <2>5, <2>6, <2>7
<1> QED BY <1>1, <1>2, <1>3

\* Growing the PCM buffer: the samples fit, and a buffer with room is heap.
LEMMA AppendPcmFits ==
  ASSUME HandlerTypeOK, PcmFits, pc = "batch-read", NEW n \in Nat, AppendPcm(n)
  PROVE  /\ pcm' \in {"null", "heap"} /\ cap' \in Nat /\ total' \in Nat
         /\ total' <= cap'
         /\ pc' \in {"batch-head", "batch-done"}
         /\ pc' = "batch-head" /\ cap' > 0 => pcm' = "heap"
<1>1. cap \in Nat /\ total \in Nat /\ total <= cap /\ (cap > 0 => pcm = "heap")
      /\ pcm \in {"null", "heap"}
  BY DEF HandlerTypeOK, PcmFits
<1>2. MinCap \in Nat
  BY HandlerAssumption
<1>3. CASE total + n > cap
  BY <1>1, <1>2, <1>3 DEF AppendPcm
<1>4. CASE total + n <= cap
  BY <1>1, <1>4 DEF AppendPcm
<1> QED BY <1>1, <1>3, <1>4

\* The batch request: every step of collecting the audio and of answering
\* preserves the invariant.
LEMMA BatchStep ==
  ASSUME HandlerInv, Batch
  PROVE  HandlerInv'
<1> USE DEF HandlerInv
<1>1. CASE BatchHead
  <2>1. /\ pc = "batch-head"
        /\ pc' = IF gotStop = "no" /\ running THEN "batch-read" ELSE "batch-done"
        /\ UNCHANGED <<running, peer, room, timeout, todo, due, answer, gotStop,
                       pcm, cap, total, ctx, late, nread>>
    BY <1>1 DEF BatchHead, At, peerVars, outVars, batchVars, readVars
  <2>2. HandlerTypeOK'
    BY <2>1 DEF HandlerTypeOK, Pcs
  <2>3. AnswerInv'
    BY <2>1 DEF AnswerInv
  <2>4. ContextLifetime' /\ PcmFits' /\ TimeoutRestored' /\ LateInv'
    BY <2>1 DEF ContextLifetime, PcmFits, TimeoutRestored, LateInv, HandlerTypeOK
  <2> QED BY <2>2, <2>3, <2>4
<1>2. CASE BatchDone
  <2>1. /\ pc = "batch-done" /\ pc' = "loop"
        /\ due = "nothing" /\ answer = <<>> /\ todo = <<>>
        /\ pcm' = "null" /\ cap' = 0 /\ total' = 0
        /\ UNCHANGED <<running, peer, room, timeout, answer, gotStop, ctx,
                       late, nread>>
        /\ \/ todo' = todo /\ due' = due
           \/ todo' = <<"final">> /\ due' = "transcript"
    BY <1>2 DEF BatchDone, At, peerVars, readVars, AnswerInv
  <2>2. todo' \in Seq(Responses) /\ Complete(due', answer' \o todo')
        /\ due' \in {"nothing", "transcript"}
    <3>1. CASE todo' = todo /\ due' = due
      <4>1. answer' \o todo' = <<>> /\ todo' \in Seq(Responses)
        BY <2>1, <3>1
      <4> QED BY <2>1, <3>1, <4>1 DEF Complete
    <3>2. CASE todo' = <<"final">> /\ due' = "transcript"
      <4>1. answer' \o todo' = <<"final">> /\ todo' \in Seq(Responses)
        BY <2>1, <3>2 DEF Responses
      <4> QED BY <3>2, <4>1 DEF Complete
    <3> QED BY <2>1, <3>1, <3>2
  <2>3. HandlerTypeOK'
    BY <2>1, <2>2 DEF HandlerTypeOK, Pcs
  <2>4. AnswerInv'
    BY <2>1, <2>2 DEF AnswerInv
  <2>5. ContextLifetime' /\ PcmFits' /\ TimeoutRestored' /\ LateInv'
    BY <2>1 DEF ContextLifetime, PcmFits, TimeoutRestored, LateInv, HandlerTypeOK
  <2> QED BY <2>3, <2>4, <2>5
<1>3. CASE BatchStartFails \/ BatchReadFails \/ \E e \in Events : BatchStart(e) \/ BatchRead(e)
  <2>1. /\ pc \in {"batch-start", "batch-read"}
        /\ (\E e \in Events : Read(e)) \/ ReadFails
        /\ UNCHANGED <<running, timeout, todo, due, answer, ctx>>
        /\ due = "nothing" /\ answer = <<>> /\ todo = <<>>
    BY <1>3 DEF BatchStartFails, BatchReadFails, BatchStart, BatchRead, At, outVars,
                AnswerInv
  <2>2. /\ peer' \in {"up", "eof", "reset"} /\ room' = room
        /\ nread' \in Nat /\ late' \in Nat
        /\ late' = IF running THEN late ELSE late + 1
    BY <2>1, ReadEffect
  <2>3. /\ pcm' \in {"null", "heap"} /\ cap' \in Nat /\ total' \in Nat
        /\ total' <= cap'
        /\ pc' \in {"batch-head", "batch-done", "closed"}
        /\ pc' = "batch-head" /\ cap' > 0 => pcm' = "heap"
        /\ gotStop' \in StopKinds
    <3>1. CASE BatchStartFails \/ BatchReadFails
      BY <3>1 DEF BatchStartFails, BatchReadFails, batchVars, HandlerTypeOK, PcmFits
    <3>2. ASSUME NEW e \in Events, BatchStart(e) PROVE <2>3
      BY <3>2 DEF BatchStart, StopKinds
    <3>3. ASSUME NEW e \in Events, BatchRead(e) PROVE <2>3
      <4>1. pc = "batch-read"
        BY <3>3 DEF BatchRead, At
      <4>2. CASE AppendPcm(e.bytes \div 2) /\ gotStop' = gotStop
        <5>1. e.bytes \div 2 \in Nat
          <6>1. e.bytes \in Nat
            BY HandlerAssumption DEF Events
          <6> QED BY <6>1
        <5>2. PICK n \in Nat : n = e.bytes \div 2
          BY <5>1
        <5>3. AppendPcm(n)
          BY <4>2, <5>2
        <5> QED BY <4>1, <4>2, <5>3, AppendPcmFits DEF HandlerTypeOK
      <4>3. CASE /\ gotStop' \in {gotStop, "audio-stop"} /\ pc' = "batch-head"
                 /\ UNCHANGED batchVars
        BY <4>1, <4>3 DEF batchVars, HandlerTypeOK, PcmFits, StopKinds
      <4> QED BY <3>3, <4>2, <4>3 DEF BatchRead
    <3> QED BY <1>3, <3>1, <3>2, <3>3
  <2>4. HandlerTypeOK'
    BY <2>1, <2>2, <2>3 DEF HandlerTypeOK, Pcs
  <2>5. AnswerInv'
    <3>1. <<>> \o <<>> = <<>>
      OBVIOUS
    <3> QED BY <2>1, <2>3, <3>1 DEF AnswerInv, Complete
  <2>6. ContextLifetime' /\ PcmFits' /\ TimeoutRestored' /\ LateInv'
    BY <2>1, <2>2, <2>3
    DEF ContextLifetime, PcmFits, TimeoutRestored, LateInv, HandlerTypeOK
  <2> QED BY <2>4, <2>5, <2>6
<1> QED BY <1>1, <1>2, <1>3 DEF Batch

\* The streaming request: every step from its audio-start to the end of its
\* context preserves the invariant.
LEMMA StreamStep ==
  ASSUME HandlerInv, Stream
  PROVE  HandlerInv'
<1> USE DEF HandlerInv
<1>1. CASE StreamHead
  <2>1. /\ pc = "stream-head" /\ todo = <<>>
        /\ pc' = IF gotStop = "no" /\ running THEN "stream-read" ELSE "stream-final"
        /\ UNCHANGED <<running, peer, room, timeout, todo, due, answer, gotStop,
                       pcm, cap, total, ctx, late, nread>>
    BY <1>1 DEF StreamHead, At, peerVars, outVars, batchVars, readVars
  <2>2. HandlerTypeOK'
    BY <2>1 DEF HandlerTypeOK, Pcs
  <2>3. AnswerInv'
    BY <2>1 DEF AnswerInv, Partials
  <2>4. ContextLifetime' /\ PcmFits' /\ TimeoutRestored' /\ LateInv'
    BY <2>1 DEF ContextLifetime, PcmFits, TimeoutRestored, LateInv, HandlerTypeOK
  <2> QED BY <2>2, <2>3, <2>4
<1>2. CASE StreamFinal
  <2>1. /\ pc = "stream-final" /\ todo = <<>> /\ ctx' = "final"
        /\ todo' = <<"final">>
        /\ pc' = IF gotStop = "no" THEN "stream-destroy" ELSE "stream-drain"
        /\ timeout' = IF gotStop = "no" THEN timeout ELSE 1
        /\ UNCHANGED <<running, peer, room, due, answer, gotStop,
                       pcm, cap, total, late, nread>>
    BY <1>2 DEF StreamFinal, At, peerVars, batchVars, readVars
  <2>2. todo' \in Seq(Responses)
    BY <2>1 DEF Responses
  <2>3. HandlerTypeOK'
    BY <2>1, <2>2 DEF HandlerTypeOK, Pcs
  <2>4. due = "stream" /\ Complete(due, answer' \o todo')
    <3>1. answer \in Seq(Responses) /\ due = "stream" /\ Partials(answer \o todo)
      BY <2>1 DEF HandlerTypeOK, AnswerInv
    <3>2. answer \o todo = answer
      BY <2>1, <3>1
    <3> QED BY <2>1, <3>1, <3>2, FinalCompletes
  <2>5. AnswerInv'
    BY <2>1, <2>4 DEF AnswerInv
  <2>6. ContextLifetime' /\ PcmFits' /\ TimeoutRestored' /\ LateInv'
    BY <2>1 DEF ContextLifetime, PcmFits, TimeoutRestored, LateInv, HandlerTypeOK
  <2> QED BY <2>3, <2>5, <2>6
<1>3. CASE StreamDestroy
  <2>1. /\ pc = "stream-destroy" /\ pc' = "loop"
        /\ ctx' = IF HasDestroy THEN "none" ELSE "leaked"
        /\ UNCHANGED <<running, peer, room, timeout, todo, due, answer, gotStop,
                       pcm, cap, total, late, nread>>
    BY <1>3 DEF StreamDestroy, At, peerVars, outVars, batchVars, readVars
  <2>2. HandlerTypeOK'
    BY <2>1 DEF HandlerTypeOK, Pcs
  <2>3. AnswerInv'
    BY <2>1 DEF AnswerInv
  <2>4. ContextLifetime' /\ PcmFits' /\ TimeoutRestored' /\ LateInv'
    BY <2>1 DEF ContextLifetime, PcmFits, TimeoutRestored, LateInv, HandlerTypeOK
  <2> QED BY <2>2, <2>3, <2>4
<1>4. CASE StreamDrain
  <2>1. /\ pc = "stream-drain" /\ pc' = "stream-destroy" /\ timeout' = 30
        /\ (\E e \in Events : Read(e)) \/ ReadFails
        /\ UNCHANGED <<running, todo, due, answer, gotStop, pcm, cap, total, ctx>>
    BY <1>4 DEF StreamDrain, At, outVars, batchVars
  <2>2. /\ peer' \in {"up", "eof", "reset"} /\ room' = room
        /\ nread' \in Nat /\ late' \in Nat
        /\ late' = IF running THEN late ELSE late + 1
    BY <2>1, ReadEffect
  <2>3. HandlerTypeOK'
    BY <2>1, <2>2 DEF HandlerTypeOK, Pcs
  <2>4. AnswerInv'
    BY <2>1 DEF AnswerInv
  <2>5. ContextLifetime' /\ PcmFits' /\ TimeoutRestored' /\ LateInv'
    BY <2>1, <2>2
    DEF ContextLifetime, PcmFits, TimeoutRestored, LateInv, HandlerTypeOK
  <2> QED BY <2>3, <2>4, <2>5
<1>5. CASE StreamStartFails \/ \E e \in Events : StreamStart(e)
  <2>1. /\ pc = "stream-start"
        /\ (\E e \in Events : Read(e)) \/ ReadFails
        /\ UNCHANGED <<running, timeout, todo, answer, pcm, cap, total>>
        /\ due = "nothing" /\ answer = <<>> /\ todo = <<>>
        /\ gotStop' \in {gotStop, "no"}
        /\ \/ pc' \in {"closed", "loop"} /\ ctx' = ctx /\ due' = due
           \/ pc' = "stream-head" /\ ctx' = "live" /\ due' = "stream"
                /\ gotStop' = "no"
    BY <1>5 DEF StreamStartFails, StreamStart, At, outVars, batchVars, AnswerInv
  <2>2. /\ peer' \in {"up", "eof", "reset"} /\ room' = room
        /\ nread' \in Nat /\ late' \in Nat
        /\ late' = IF running THEN late ELSE late + 1
    BY <2>1, ReadEffect
  <2>3. HandlerTypeOK'
    BY <2>1, <2>2 DEF HandlerTypeOK, Pcs, StopKinds
  <2>4. AnswerInv'
    <3>1. answer' \o todo' = <<>>
      BY <2>1
    <3>2. Complete("nothing", <<>>) /\ Partials(<<>>)
      BY DEF Complete, Partials
    <3> QED BY <2>1, <3>1, <3>2 DEF AnswerInv
  <2>5. ContextLifetime' /\ PcmFits' /\ TimeoutRestored' /\ LateInv'
    BY <2>1, <2>2
    DEF ContextLifetime, PcmFits, TimeoutRestored, LateInv, HandlerTypeOK
  <2> QED BY <2>3, <2>4, <2>5
<1>6. CASE StreamReadFails \/ \E e \in Events : StreamRead(e)
  <2>1. /\ pc = "stream-read"
        /\ (\E e \in Events : Read(e)) \/ ReadFails
        /\ UNCHANGED <<running, timeout, due, answer, pcm, cap, total, ctx>>
        /\ todo = <<>> /\ todo' \in {todo, <<"partial">>}
        /\ gotStop' \in StopKinds
        /\ pc' \in {"stream-head", "stream-final"}
    BY <1>6 DEF StreamReadFails, StreamRead, At, outVars, batchVars, StopKinds,
                HandlerTypeOK
  <2>2. /\ peer' \in {"up", "eof", "reset"} /\ room' = room
        /\ nread' \in Nat /\ late' \in Nat
        /\ late' = IF running THEN late ELSE late + 1
    BY <2>1, ReadEffect
  <2>3. todo' \in Seq(Responses)
    <3>1. <<>> \in Seq(Responses) /\ <<"partial">> \in Seq(Responses)
      BY DEF Responses
    <3> QED BY <2>1, <3>1, Zenon
  <2>4. HandlerTypeOK'
    BY <2>1, <2>2, <2>3 DEF HandlerTypeOK, Pcs
  <2>5. due = "stream" /\ Partials(answer' \o todo')
    <3>1. answer \in Seq(Responses) /\ due = "stream" /\ Partials(answer \o todo)
      BY <2>1 DEF HandlerTypeOK, AnswerInv
    <3>2. Partials(answer)
      <4>1. answer \o todo = answer
        BY <2>1, <3>1
      <4> QED BY <3>1, <4>1
    <3>3. CASE todo' = todo
      BY <2>1, <3>1, <3>3
    <3>4. CASE todo' = <<"partial">>
      <4>1. PICK s : s = answer \o <<"partial">>
        OBVIOUS
      <4>2. /\ Len(answer) \in Nat /\ Len(s) = Len(answer) + 1
            /\ s[Len(answer) + 1] = "partial"
            /\ \A i \in 1 .. Len(answer) : s[i] = answer[i]
        BY <3>1, <4>1
      <4>3. Partials(s)
        BY <3>2, <4>2 DEF Partials
      <4> QED BY <2>1, <3>1, <3>4, <4>1, <4>3
    <3> QED BY <2>1, <3>3, <3>4
  <2>6. AnswerInv'
    BY <2>1, <2>5 DEF AnswerInv
  <2>7. ContextLifetime' /\ PcmFits' /\ TimeoutRestored' /\ LateInv'
    BY <2>1, <2>2
    DEF ContextLifetime, PcmFits, TimeoutRestored, LateInv, HandlerTypeOK
  <2> QED BY <2>4, <2>6, <2>7
<1> QED BY <1>1, <1>2, <1>3, <1>4, <1>5, <1>6 DEF Stream

\* The peer and a stop preserve the invariant: the reads counted by late are
\* those that return later.
LEMMA EnvironmentStep ==
  ASSUME HandlerInv, PeerReads \/ PeerResets \/ ClearRunning
  PROVE  HandlerInv'
<1> USE DEF HandlerInv
<1> USE DEF connVars, peerVars, outVars, batchVars, readVars
<1>1. /\ UNCHANGED <<pc, timeout, todo, due, answer, gotStop, pcm, cap, total,
                     ctx, late, nread>>
      /\ running' \in BOOLEAN /\ (running' => running)
      /\ peer' \in {peer, "reset"} /\ room' \in 0 .. OutCap
  <2>1. CASE PeerReads
    BY <2>1, HandlerAssumption DEF PeerReads, HandlerTypeOK
  <2>2. CASE PeerResets
    BY <2>2 DEF PeerResets, HandlerTypeOK
  <2>3. CASE ClearRunning
    BY <2>3 DEF ClearRunning, HandlerTypeOK
  <2> QED BY <2>1, <2>2, <2>3
<1>2. HandlerTypeOK'
  BY <1>1 DEF HandlerTypeOK
<1>3. AnswerInv'
  BY <1>1 DEF AnswerInv, Partials
<1>4. ContextLifetime' /\ PcmFits' /\ TimeoutRestored' /\ LateInv'
  BY <1>1 DEF ContextLifetime, PcmFits, TimeoutRestored, LateInv, HandlerTypeOK
<1> QED BY <1>2, <1>3, <1>4

\* Every step preserves the invariant.
LEMMA NextHandlerInv == HandlerInv /\ [HandlerNext]_handlerVars => HandlerInv'
<1> SUFFICES ASSUME HandlerInv, [HandlerNext]_handlerVars PROVE HandlerInv'
  OBVIOUS
<1>1. CASE Handler
  BY <1>1, WriteStep, DispatchStep, BatchStep, StreamStep DEF Handler
<1>2. CASE Environment \/ ClearRunning
  BY <1>2, EnvironmentStep, WriteStep DEF Environment
<1>3. CASE Closed \/ UNCHANGED handlerVars
  <2>1. UNCHANGED <<running, pc, peer, room, timeout, todo, due, answer, gotStop,
                   pcm, cap, total, ctx, late, nread>>
    BY <1>3 DEF Closed, handlerVars, connVars, peerVars, outVars, batchVars, readVars
  <2> QED BY <2>1 DEF HandlerInv, HandlerTypeOK, AnswerInv, ContextLifetime, PcmFits,
                      TimeoutRestored, LateInv, Partials
<1> QED BY <1>1, <1>2, <1>3 DEF HandlerNext

\* The inductive invariant holds as long as a connection is served.
THEOREM HandlerInvariance == HandlerSpec => []HandlerInv
<1> QED BY InitHandlerInv, NextHandlerInv, PTL DEF HandlerSpec

\* Type correctness of the handler.
THEOREM HandlerTypeCorrect == HandlerSpec => []HandlerTypeOK
<1>1. HandlerInv => HandlerTypeOK
  BY DEF HandlerInv
<1> QED BY <1>1, HandlerInvariance, PTL

\* server.c:416-772: a request is left behind only with a whole answer.
THEOREM HandlerAnswersCompletely == HandlerSpec => []AnswersComplete
<1>1. HandlerInv => AnswersComplete
  <2> SUFFICES ASSUME HandlerInv, pc \in {"loop", "read", "closed"}, todo = <<>>
               PROVE  Complete(due, answer)
    BY DEF AnswersComplete
  <2>1. answer \o todo = answer
    BY DEF HandlerInv, HandlerTypeOK
  <2> QED BY <2>1 DEF HandlerInv, AnswerInv
<1> QED BY <1>1, HandlerInvariance, PTL

\* server.c:684-769: a stream context is finalized once, and destroyed,
\* however its stream ends.
THEOREM ContextsAreReleased == HandlerSpec => []ContextLifetime
<1>1. HandlerInv => ContextLifetime
  BY DEF HandlerInv
<1> QED BY <1>1, HandlerInvariance, PTL

\* server.c:585-602: the samples fit their buffer, whatever the chunk sizes.
THEOREM PcmNeverOverruns == HandlerSpec => []PcmFits
<1>1. HandlerInv => PcmFits
  BY DEF HandlerInv
<1> QED BY <1>1, HandlerInvariance, PTL

\* server.c:755-764: the drain's short timeout is local to the drain.
THEOREM TimeoutIsRestored == HandlerSpec => []TimeoutRestored
<1>1. HandlerInv => TimeoutRestored
  BY DEF HandlerInv
<1> QED BY <1>1, HandlerInvariance, PTL

\* server.c:402, 575, 693: after a stop at most two more reads return.
THEOREM StopTakesTwoReads == HandlerSpec => []StopIsPrompt
<1>1. HandlerInv => StopIsPrompt
  BY DEF HandlerInv, LateInv, StopIsPrompt
<1> QED BY <1>1, HandlerInvariance, PTL

=============================================================================
