---------------------------- MODULE SherpaEngine ----------------------------
(***************************************************************************)
(* The speech recognition engine: sherpa.c around the recognizers of       *)
(* sherpa-onnx.  The server calls it from one thread: the batch callback,  *)
(* or stream create, process for each chunk, a final process and destroy   *)
(* (handle_client).                                                        *)
(*                                                                         *)
(* Audio is the number of its samples and a transcript the number of       *)
(* samples it covers; 0 is the empty text.                                 *)
(***************************************************************************)
EXTENDS Integers, FiniteSets

CONSTANTS
  Frame,                    \* samples an online recognizer decodes at a time
  Sizes,                    \* sizes of recordings and chunks
  MaxSherpaFaults,          \* bound on the failures
  MaxAudio                  \* bound on the samples of all the calls

ASSUME SherpaAssumption ==
  /\ Frame \in Nat \ {0} /\ Sizes \subseteq Nat
  /\ MaxSherpaFaults \in Nat /\ MaxAudio \in Nat

VARIABLES
  spc,                      \* where the engine is
  kind,                     \* offline (batch) or online (streaming)
  fed, done, finished,      \* the recognizer's stream: input, decoded, ended
  accepted,                 \* history: samples of this stream not refused
  samples,                  \* of the call
  reply,                    \* what the call returned last
  sheap,                    \* history: what is in use
  sfaults, audio            \* history: failures, samples given

recognizerVars == <<fed, done, finished>>
sherpaVars == <<spc, kind, recognizerVars, accepted, samples, reply, sheap,
                sfaults, audio>>

Handles == {"engine", "recognizer", "stream", "floats", "result", "context"}

\* start is none, or gone where the engine is not configured.
SherpaInit(start) ==
  /\ spc = start /\ kind \in {"offline", "online"}
  /\ fed = 0 /\ done = 0 /\ finished = FALSE
  /\ accepted = 0 /\ samples = 0
  /\ reply = [of |-> "none", rc |-> "OK", text |-> 0, whole |-> TRUE]
  /\ sheap = {} /\ sfaults = 0 /\ audio = 0

Fail == sfaults < MaxSherpaFaults /\ sfaults' = sfaults + 1

-----------------------------------------------------------------------------
(* sherpa-onnx, as the engine uses it.                                     *)

Fresh == fed' = 0 /\ done' = 0 /\ finished' = FALSE
Ready == fed - done >= Frame \/ (finished /\ done < fed)

\* An online stream decodes a frame at a time, an offline one all at once.
Decode ==
  /\ done' = IF kind = "offline" \/ fed - done < Frame THEN fed ELSE done + Frame
  /\ UNCHANGED <<fed, finished>>

-----------------------------------------------------------------------------
(* Create and destroy.                                                     *)

ModelTypes == {"whisper", "zipformer", "paraformer", "nemo_ctc", "sense_voice",
               "other"}

\* The model types a kind of recognizer is configured for.
KnownTypes ==
  IF kind = "online" THEN {"zipformer", "paraformer", "nemo_ctc"}
  ELSE {"whisper", "paraformer", "nemo_ctc", "sense_voice"}

\* wyoming_sherpa_create and wyoming_sherpa_create_streaming.
CreateSherpa ==
  /\ spc = "none"
  /\ \E type \in ModelTypes :
       \/ /\ type \in KnownTypes
          /\ spc' = "idle" /\ sheap' = {"engine", "recognizer"}
          /\ UNCHANGED sfaults
       \/ /\ type \notin KnownTypes
          /\ spc' = "gone" /\ UNCHANGED <<sheap, sfaults>>
       \/ Fail /\ spc' = "gone" /\ UNCHANGED sheap
  /\ UNCHANGED <<kind, recognizerVars, accepted, samples, reply, audio>>

DestroySherpa ==
  /\ spc = "idle" /\ spc' = "gone"
  /\ sheap' = sheap \ {"engine", "recognizer"}
  /\ UNCHANGED <<kind, recognizerVars, accepted, samples, reply, sfaults, audio>>

-----------------------------------------------------------------------------
(* The batch callback: sherpa_batch_asr with sherpa_batch_offline or       *)
(* sherpa_batch_via_online.                                                *)

Holds(h) == sheap' = sheap \cup h
Frees(h) == sheap' = sheap \ h

\* text is 0 where there is none, whole false where it could not be copied.
Reply(of, rc, text, whole) ==
  reply' = [of |-> of, rc |-> rc, text |-> text, whole |-> whole]

\* The server calls it with at least one sample.
Batch ==
  /\ spc = "idle" /\ spc' = "floats"
  /\ \E n \in Sizes \ {0} :
       audio + n <= MaxAudio /\ audio' = audio + n /\ samples' = n
  /\ UNCHANGED <<kind, recognizerVars, accepted, reply, sheap, sfaults>>

BatchFloats ==
  /\ spc = "floats"
  /\ \/ Holds({"floats"}) /\ spc' = "stream" /\ UNCHANGED <<reply, sfaults>>
     \/ Fail /\ Reply("batch", "NOMEM", 0, TRUE) /\ spc' = "idle"
          /\ UNCHANGED sheap
  /\ UNCHANGED <<kind, recognizerVars, accepted, samples, audio>>

\* The whole recording is fed at once; an online stream is told its end.
BatchStream ==
  /\ spc = "stream"
  /\ \/ /\ Holds({"stream"}) /\ spc' = "batch"
        /\ fed' = samples /\ done' = 0 /\ finished' = (kind = "online")
        /\ UNCHANGED <<reply, sfaults>>
     \/ Fail /\ Reply("batch", "PROTO", 0, TRUE) /\ spc' = "idle"
          /\ Frees({"floats"}) /\ UNCHANGED recognizerVars
  /\ UNCHANGED <<kind, accepted, samples, audio>>

\* DecodeOfflineStream, or the loop over DecodeOnlineStream.
BatchDecode ==
  /\ spc = "batch" /\ (Ready \/ (kind = "offline" /\ done < fed))
  /\ Decode
  /\ UNCHANGED <<spc, kind, accepted, samples, reply, sheap, sfaults, audio>>

\* There may be no result.
BatchResult ==
  /\ spc = "batch" /\ ~Ready /\ (kind = "offline" => done = fed)
  /\ spc' = "batch_text"
  /\ \/ Holds({"result"}) /\ UNCHANGED sfaults
     \/ Fail /\ UNCHANGED sheap
  /\ UNCHANGED <<kind, recognizerVars, accepted, samples, reply, audio>>

\* Mutant: the stream is destroyed only after a result.
BatchFreedResult == IF "result" \in sheap THEN {"floats", "stream", "result"}
                                         ELSE {"floats"}

BatchFreed == {"floats", "stream", "result"}

\* The text is copied, and everything released.
BatchEnds ==
  /\ spc = "batch_text" /\ spc' = "idle"
  /\ \/ "result" \in sheap /\ Reply("batch", "OK", done, TRUE)
          /\ UNCHANGED sfaults
     \/ "result" \in sheap /\ Fail /\ Reply("batch", "PROTO", 0, TRUE)
     \/ "result" \notin sheap /\ Reply("batch", "PROTO", 0, TRUE)
          /\ UNCHANGED sfaults
  /\ Frees(BatchFreed)
  /\ Fresh
  /\ UNCHANGED <<kind, accepted, samples, audio>>

-----------------------------------------------------------------------------
(* The streaming callbacks.                                                *)

\* An engine without an online recognizer, or a stream that cannot be made.
NoStream ==
  /\ spc = "idle"
  /\ \/ kind = "offline" /\ UNCHANGED sfaults
     \/ kind = "online" /\ Fail
  /\ UNCHANGED <<spc, kind, recognizerVars, accepted, samples, reply, sheap,
                 audio>>

StreamCreate ==
  /\ spc = "idle" /\ kind = "online" /\ spc' = "context"
  /\ Holds({"stream"})
  /\ Fresh /\ accepted' = 0
  /\ UNCHANGED <<kind, samples, reply, sfaults, audio>>

StreamContext ==
  /\ spc = "context"
  /\ \/ Holds({"context"}) /\ spc' = "open" /\ UNCHANGED sfaults
     \/ Fail /\ Frees({"stream"}) /\ spc' = "idle"
  /\ UNCHANGED <<kind, recognizerVars, accepted, samples, reply, audio>>

\* A chunk.  One without samples changes nothing; one whose floats cannot be
\* allocated is refused.
Process ==
  /\ spc = "open"
  /\ \E n \in Sizes :
       /\ audio + n <= MaxAudio /\ audio' = audio + n
       /\ samples' = n
       /\ \/ /\ n = 0 /\ Reply("chunk", "OK", 0, TRUE)
             /\ UNCHANGED <<spc, sheap, sfaults>>
          \/ /\ n > 0 /\ Fail /\ Reply("chunk", "NOMEM", 0, TRUE)
             /\ UNCHANGED <<spc, sheap>>
          \/ /\ n > 0 /\ spc' = "accept" /\ Holds({"floats"})
             /\ UNCHANGED <<reply, sfaults>>
  /\ UNCHANGED <<kind, recognizerVars, accepted>>

\* AcceptWaveform, after which the floats are freed.
StreamAccept ==
  /\ spc = "accept" /\ spc' = "process"
  /\ fed' = fed + samples /\ accepted' = accepted + samples
  /\ Frees({"floats"})
  /\ UNCHANGED <<kind, done, finished, samples, reply, sfaults, audio>>

\* Mutant: the input is not ended.
InputFinishedForgotten == finished' = FALSE

InputFinished == finished' = TRUE

\* The last call, without audio.
Final ==
  /\ spc = "open" /\ spc' = "final"
  /\ InputFinished
  /\ UNCHANGED <<kind, fed, done, accepted, samples, reply, sheap, sfaults,
                 audio>>

StreamDecode ==
  /\ spc \in {"process", "final"} /\ Ready
  /\ Decode
  /\ UNCHANGED <<spc, kind, accepted, samples, reply, sheap, sfaults, audio>>

\* There may be no result here either.
StreamResult ==
  /\ spc \in {"process", "final"} /\ ~Ready
  /\ spc' = IF spc = "final" THEN "final_text" ELSE "chunk_text"
  /\ \/ Holds({"result"}) /\ UNCHANGED sfaults
     \/ Fail /\ UNCHANGED sheap
  /\ UNCHANGED <<kind, recognizerVars, accepted, samples, reply, audio>>

\* The partial or the final text; no result, or no memory for its copy,
\* leaves none.
StreamText ==
  /\ spc \in {"chunk_text", "final_text"}
  /\ LET of == IF spc = "final_text" THEN "final" ELSE "chunk"
     IN  \/ "result" \in sheap /\ Reply(of, "OK", done, TRUE)
              /\ UNCHANGED sfaults
         \/ "result" \in sheap /\ Fail /\ Reply(of, "OK", 0, FALSE)
         \/ "result" \notin sheap /\ Reply(of, "OK", 0, FALSE)
              /\ UNCHANGED sfaults
  /\ spc' = IF spc = "final_text" THEN "finished" ELSE "open"
  /\ Frees({"result"})
  /\ UNCHANGED <<kind, recognizerVars, accepted, samples, audio>>

StreamDestroy ==
  /\ spc = "finished" /\ spc' = "idle"
  /\ Frees({"stream", "context"})
  /\ Fresh
  /\ UNCHANGED <<kind, accepted, samples, reply, sfaults, audio>>

SherpaNext ==
  \/ CreateSherpa \/ DestroySherpa
  \/ Batch \/ BatchFloats \/ BatchStream \/ BatchDecode \/ BatchResult
  \/ BatchEnds
  \/ NoStream \/ StreamCreate \/ StreamContext \/ Process \/ StreamAccept
  \/ Final \/ StreamDecode \/ StreamResult \/ StreamText \/ StreamDestroy

-----------------------------------------------------------------------------
(* Properties.                                                             *)

Replies == [of : {"none", "batch", "chunk", "final"},
            rc : {"OK", "NOMEM", "PROTO"}, text : Nat, whole : BOOLEAN]

\* Type correctness; the recognizer is never ahead of its input.
SherpaTypeOK ==
  /\ spc \in {"none", "idle", "floats", "stream", "batch", "batch_text",
              "context", "open", "accept", "process", "final", "chunk_text",
              "final_text", "finished", "gone"}
  /\ kind \in {"offline", "online"}
  /\ fed \in Nat /\ done \in 0 .. fed /\ finished \in BOOLEAN
  /\ sheap \subseteq Handles
  /\ reply \in Replies
  /\ sfaults \in 0 .. MaxSherpaFaults

\* A final transcript covers every sample of the stream that was not refused
\* for lack of memory, the last incomplete frame too; a partial one lags by
\* less than a frame; and a batch transcript covers its recording, from
\* either recognizer (sherpa.c:146-199, 346-387).
TranscriptCovers ==
  /\ spc = "finished" /\ reply.whole => reply.text = accepted
  /\ (spc = "open" /\ reply.of = "chunk" /\ reply.text > 0)
       => reply.text <= accepted /\ accepted - reply.text < Frame
  /\ (spc = "idle" /\ reply.of = "batch" /\ reply.rc = "OK")
       => reply.text = samples

\* Between the server's calls nothing is held but the engine, and while a
\* stream is open its context and stream, whatever failed on the way, in
\* the batch callback and in each call of a stream (sherpa.c:146-228,
\* 311-320, 346-400, 449-457).
HandlesReleased ==
  /\ spc = "idle" => sheap = {"engine", "recognizer"}
  /\ spc \in {"open", "finished"}
       => sheap = {"engine", "recognizer", "stream", "context"}
  /\ spc = "gone" => sheap = {}

-----------------------------------------------------------------------------
(* The inductive invariant: what is held, and how far the recognizer is, at *)
(* every place of the engine.                                              *)

Engine == {"engine", "recognizer"}

Streaming == {"open", "accept", "process", "final", "chunk_text", "final_text",
              "finished"}

\* What is held at each place.
HeldInv ==
  /\ spc \in {"none", "gone"} => sheap = {}
  /\ spc \in {"idle", "floats"} => sheap = Engine
  /\ spc = "stream" => sheap = Engine \cup {"floats"}
  /\ spc = "batch" => sheap = Engine \cup {"floats", "stream"}
  /\ spc = "batch_text" => sheap \ {"result"} = Engine \cup {"floats", "stream"}
  /\ spc = "context" => sheap = Engine \cup {"stream"}
  /\ spc = "accept" => sheap = Engine \cup {"stream", "context", "floats"}
  /\ spc \in {"open", "process", "final", "finished"}
       => sheap = Engine \cup {"stream", "context"}
  /\ spc \in {"chunk_text", "final_text"}
       => sheap \ {"result"} = Engine \cup {"stream", "context"}

\* What the recognizer was given and has decoded.
DecodedInv ==
  /\ spc \in {"batch", "batch_text"} => fed = samples
  /\ spc = "batch" /\ kind = "online" => finished
  /\ spc = "batch_text" => done = fed
  /\ spc \in Streaming \cup {"context"} => fed = accepted
  /\ spc = "final" => finished
  /\ spc = "chunk_text" => fed - done < Frame
  /\ spc = "final_text" => done = fed

\* Which call the last reply is of, and what it covers.
ReplyInv ==
  /\ spc = "none" => reply.of = "none"
  /\ spc = "finished" => reply.of = "final"
  /\ reply.of = "chunk" => spc \in Streaming \ {"finished"}
  /\ (spc \in {"idle", "context"} /\ reply.of = "batch" /\ reply.rc = "OK")
       => reply.text = samples

SherpaInv ==
  /\ SherpaTypeOK
  /\ accepted \in Nat /\ samples \in Nat /\ audio \in Nat
  /\ HeldInv /\ DecodedInv /\ ReplyInv /\ TranscriptCovers

=============================================================================
