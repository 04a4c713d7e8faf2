--------------------------- MODULE Engines_proofs ---------------------------
(***************************************************************************)
(* Proofs about the two built-in engines: SherpaInv and PiperInv are       *)
(* inductive, hence the safety properties of both hold for every chunk,    *)
(* frame and buffer size, every voice and every text, and PiperEngine      *)
(* implements TtsCallback.                                                 *)
(***************************************************************************)
EXTENDS Engines, FiniteSetTheorems, WellFoundedInduction, TLAPS

(* The speech recognition engine.                                          *)

\* What is held at each place is what HandlesReleased asks for.
LEMMA HeldReleased == SherpaInv => HandlesReleased
  BY DEF SherpaInv, HeldInv, HandlesReleased, Engine, Streaming

\* What a call returns has its type.
LEMMA RepliesType ==
  ASSUME NEW o \in {"none", "batch", "chunk", "final"},
         NEW c \in {"OK", "NOMEM", "PROTO"}, NEW t \in Nat, NEW w \in BOOLEAN
  PROVE  [of |-> o, rc |-> c, text |-> t, whole |-> w] \in Replies
  BY Zenon DEF Replies

\* A configured engine, and one that is not, begin in the invariant.
LEMMA InitSherpaInv ==
  ASSUME NEW start \in {"none", "gone"}, SherpaInit(start)
  PROVE  SherpaInv
<1> USE SherpaAssumption DEF SherpaInit
<1>1. SherpaTypeOK
  <2>1. reply \in Replies
    BY Zenon DEF Replies
  <2>2. finished \in BOOLEAN
    BY Zenon
  <2> QED BY <2>1, <2>2 DEF SherpaTypeOK
<1>2. HeldInv /\ DecodedInv /\ ReplyInv /\ TranscriptCovers
  BY DEF HeldInv, DecodedInv, ReplyInv, TranscriptCovers, Streaming
<1> QED BY <1>1, <1>2 DEF SherpaInv

\* Creating and destroying the engine preserve the invariant.
LEMMA SherpaLifeStep ==
  ASSUME SherpaInv, CreateSherpa \/ DestroySherpa
  PROVE  SherpaInv'
<1> USE SherpaAssumption DEF SherpaInv
<1>1. /\ UNCHANGED <<kind, fed, done, finished, accepted, samples, reply, audio>>
      /\ spc \in {"none", "idle"} /\ spc' \in {"idle", "gone"}
      /\ spc' = "idle" => spc = "none" /\ sheap' = Engine
      /\ spc' = "gone" => sheap' = {}
      /\ sfaults' \in 0 .. MaxSherpaFaults
  BY DEF CreateSherpa, DestroySherpa, Fail, recognizerVars, SherpaTypeOK, HeldInv,
         Engine
<1>2. SherpaTypeOK'
  BY <1>1 DEF SherpaTypeOK, Handles, Engine
<1>3. HeldInv' /\ DecodedInv' /\ ReplyInv' /\ TranscriptCovers'
  BY <1>1 DEF HeldInv, DecodedInv, ReplyInv, TranscriptCovers, Streaming
<1> QED BY <1>1, <1>2, <1>3

\* The batch callback preserves the invariant: up to the decoding ...
LEMMA BatchBeginStep ==
  ASSUME SherpaInv, Batch \/ BatchFloats \/ BatchStream
  PROVE  SherpaInv'
<1> USE SherpaAssumption DEF SherpaInv
<1>1. CASE Batch
  <2>1. /\ spc = "idle" /\ spc' = "floats" /\ samples' \in Nat /\ audio' \in Nat
        /\ UNCHANGED <<kind, fed, done, finished, accepted, reply, sheap, sfaults>>
    BY <1>1 DEF Batch, recognizerVars
  <2>2. SherpaTypeOK'
    BY <2>1 DEF SherpaTypeOK
  <2>3. HeldInv' /\ DecodedInv' /\ ReplyInv' /\ TranscriptCovers'
    BY <2>1 DEF HeldInv, DecodedInv, ReplyInv, TranscriptCovers, Streaming
  <2> QED BY <2>1, <2>2, <2>3
<1>2. CASE BatchFloats
  <2>1. /\ spc = "floats"
        /\ UNCHANGED <<kind, fed, done, finished, accepted, samples, audio>>
        /\ \/ spc' = "stream" /\ sheap' = sheap \cup {"floats"}
                /\ UNCHANGED <<reply, sfaults>>
           \/ spc' = "idle" /\ sheap' = sheap /\ sfaults' \in 0 .. MaxSherpaFaults
                /\ Reply("batch", "NOMEM", 0, TRUE)
    BY <1>2 DEF BatchFloats, Holds, Fail, Reply, recognizerVars, SherpaTypeOK
  <2>2. reply' \in Replies
    BY <2>1, RepliesType DEF Reply, SherpaTypeOK
  <2>3. SherpaTypeOK'
    BY <2>1, <2>2 DEF SherpaTypeOK, Handles
  <2>4. HeldInv' /\ DecodedInv' /\ ReplyInv' /\ TranscriptCovers'
    BY <2>1 DEF HeldInv, DecodedInv, ReplyInv, TranscriptCovers, Streaming, Reply
  <2> QED BY <2>1, <2>3, <2>4
<1>3. CASE BatchStream
  <2>1. /\ spc = "stream" /\ UNCHANGED <<kind, accepted, samples, audio>>
        /\ \/ /\ spc' = "batch" /\ sheap' = sheap \cup {"stream"}
              /\ fed' = samples /\ done' = 0
              /\ UNCHANGED <<reply, sfaults>>
           \/ /\ spc' = "idle" /\ sheap' = sheap \ {"floats"}
              /\ sfaults' \in 0 .. MaxSherpaFaults
              /\ Reply("batch", "PROTO", 0, TRUE)
              /\ UNCHANGED <<fed, done>>
    BY <1>3 DEF BatchStream, Holds, Frees, Fail, Reply, recognizerVars, SherpaTypeOK
  <2>2. reply' \in Replies
    BY <2>1, RepliesType DEF Reply, SherpaTypeOK
  <2>3. finished' \in BOOLEAN
    BY <1>3, Zenon DEF BatchStream, recognizerVars, SherpaTypeOK
  <2>7. spc' = "batch" /\ kind = "online" => finished'
    BY <1>3, Zenon DEF BatchStream
  <2>8. /\ fed' \in Nat /\ done' \in 0 .. fed'
        /\ sfaults' \in 0 .. MaxSherpaFaults /\ kind' = kind
        /\ spc' \in {"batch", "idle"}
    BY <2>1 DEF SherpaTypeOK, Reply
  <2>9. sheap' \subseteq Handles
    BY <2>1, Zenon DEF SherpaTypeOK, Handles
  <2>4. SherpaTypeOK'
    BY <2>2, <2>3, <2>8, <2>9 DEF SherpaTypeOK
  <2>5. HeldInv'
    BY <2>1 DEF HeldInv, Streaming, Engine
  <2>6. DecodedInv' /\ ReplyInv' /\ TranscriptCovers'
    BY <2>1, <2>7 DEF DecodedInv, ReplyInv, TranscriptCovers, Streaming, Reply
  <2> QED BY <2>1, <2>4, <2>5, <2>6
<1> QED BY <1>1, <1>2, <1>3

\* ... the decoding, which stays within the input ...
LEMMA DecodeStep ==
  ASSUME SherpaInv, BatchDecode \/ StreamDecode
  PROVE  SherpaInv'
<1> USE SherpaAssumption DEF SherpaInv
<1>1. /\ spc \in {"batch", "process", "final"}
      /\ UNCHANGED <<spc, kind, fed, finished, accepted, samples, reply, sheap,
                     sfaults, audio>>
      /\ done' = IF kind = "offline" \/ fed - done < Frame THEN fed ELSE done + Frame
  BY DEF BatchDecode, StreamDecode, Decode
<1>2. done' \in 0 .. fed'
  BY <1>1 DEF SherpaTypeOK
<1>3. SherpaTypeOK'
  BY <1>1, <1>2 DEF SherpaTypeOK
<1>4. HeldInv' /\ DecodedInv' /\ ReplyInv' /\ TranscriptCovers'
  BY <1>1 DEF HeldInv, DecodedInv, ReplyInv, TranscriptCovers, Streaming
<1> QED BY <1>1, <1>3, <1>4

\* ... and the result: an ended recording that is not ready is decoded.
LEMMA BatchEndStep ==
  ASSUME SherpaInv, BatchResult \/ BatchEnds
  PROVE  SherpaInv'
<1> USE SherpaAssumption DEF SherpaInv
<1>1. CASE BatchResult
  <2>1. /\ spc = "batch" /\ spc' = "batch_text"
        /\ UNCHANGED <<kind, fed, done, finished, accepted, samples, reply, audio>>
        /\ sheap' \in {sheap, sheap \cup {"result"}}
        /\ sfaults' \in 0 .. MaxSherpaFaults
    BY <1>1 DEF BatchResult, Holds, Fail, recognizerVars, SherpaTypeOK
  <2>2. done = fed
    BY <1>1, <2>1 DEF BatchResult, Ready, SherpaTypeOK, DecodedInv
  <2>3. SherpaTypeOK'
    BY <2>1 DEF SherpaTypeOK, Handles
  <2>4. HeldInv'
    BY <2>1 DEF HeldInv, Streaming, Engine
  <2>5. DecodedInv' /\ ReplyInv' /\ TranscriptCovers'
    BY <2>1, <2>2 DEF DecodedInv, ReplyInv, TranscriptCovers, Streaming
  <2> QED BY <2>1, <2>3, <2>4, <2>5
<1>2. CASE BatchEnds
  <2>1. /\ spc = "batch_text" /\ spc' = "idle"
        /\ UNCHANGED <<kind, accepted, samples, audio>>
        /\ sheap' = sheap \ {"floats", "stream", "result"}
        /\ fed' = 0 /\ done' = 0 /\ finished' = FALSE
        /\ sfaults' \in 0 .. MaxSherpaFaults
        /\ Reply("batch", "OK", done, TRUE) \/ Reply("batch", "PROTO", 0, TRUE)
    BY <1>2 DEF BatchEnds, Frees, BatchFreed, Fresh, Fail, Reply, SherpaTypeOK
  <2>7. done \in Nat
    BY DEF SherpaTypeOK
  <2>2. reply' \in Replies
    BY <2>1, <2>7, RepliesType, Zenon DEF Reply
  <2>3. finished' \in BOOLEAN
    BY <2>1, Zenon
  <2>4. SherpaTypeOK'
    BY <2>1, <2>2, <2>3 DEF SherpaTypeOK
  <2>5. HeldInv'
    BY <2>1 DEF HeldInv, Streaming, Engine
  <2>6. DecodedInv' /\ ReplyInv' /\ TranscriptCovers'
    BY <2>1 DEF DecodedInv, ReplyInv, TranscriptCovers, Streaming, Reply
  <2> QED BY <2>1, <2>4, <2>5, <2>6
<1> QED BY <1>1, <1>2

\* Opening and closing a stream preserve the invariant.
LEMMA StreamLifeStep ==
  ASSUME SherpaInv,
         NoStream \/ StreamCreate \/ StreamContext \/ Final \/ StreamDestroy
  PROVE  SherpaInv'
<1> USE SherpaAssumption DEF SherpaInv
<1>1. CASE NoStream
  <2>1. /\ UNCHANGED <<spc, kind, fed, done, finished, accepted, samples, reply,
                       sheap, audio>>
        /\ sfaults' \in 0 .. MaxSherpaFaults
    BY <1>1 DEF NoStream, Fail, recognizerVars, SherpaTypeOK
  <2>2. SherpaTypeOK'
    BY <2>1 DEF SherpaTypeOK
  <2>3. HeldInv' /\ DecodedInv' /\ ReplyInv' /\ TranscriptCovers'
    BY <2>1 DEF HeldInv, DecodedInv, ReplyInv, TranscriptCovers, Streaming
  <2> QED BY <2>1, <2>2, <2>3
<1>2. CASE StreamCreate
  <2>1. /\ spc = "idle" /\ spc' = "context" /\ sheap' = sheap \cup {"stream"}
        /\ fed' = 0 /\ done' = 0 /\ accepted' = 0
        /\ UNCHANGED <<kind, samples, reply, sfaults, audio>>
    BY <1>2 DEF StreamCreate, Holds, Fresh
  <2>2. finished' \in BOOLEAN
    BY <1>2, Zenon DEF StreamCreate, Fresh
  <2>3. SherpaTypeOK'
    BY <2>1, <2>2 DEF SherpaTypeOK, Handles
  <2>4. HeldInv' /\ DecodedInv' /\ ReplyInv' /\ TranscriptCovers'
    BY <2>1 DEF HeldInv, DecodedInv, ReplyInv, TranscriptCovers, Streaming
  <2> QED BY <2>1, <2>3, <2>4
<1>3. CASE StreamContext
  <2>1. /\ spc = "context"
        /\ UNCHANGED <<kind, fed, done, finished, accepted, samples, reply, audio>>
        /\ sfaults' \in 0 .. MaxSherpaFaults
        /\ \/ spc' = "open" /\ sheap' = sheap \cup {"context"}
           \/ spc' = "idle" /\ sheap' = sheap \ {"stream"}
    BY <1>3 DEF StreamContext, Holds, Frees, Fail, recognizerVars, SherpaTypeOK
  <2>2. SherpaTypeOK'
    BY <2>1 DEF SherpaTypeOK, Handles
  <2>3. HeldInv'
    BY <2>1 DEF HeldInv, Streaming, Engine
  <2>4. DecodedInv' /\ ReplyInv' /\ TranscriptCovers'
    BY <2>1 DEF DecodedInv, ReplyInv, TranscriptCovers, Streaming
  <2> QED BY <2>1, <2>2, <2>3, <2>4
<1>4. CASE Final
  <2>1. /\ spc = "open" /\ spc' = "final"
        /\ UNCHANGED <<kind, fed, done, accepted, samples, reply, sheap, sfaults,
                       audio>>
    BY <1>4 DEF Final
  <2>2. finished' \in BOOLEAN
    BY <1>4, Zenon DEF Final, InputFinished
  <2>3. finished'
    BY <1>4, Zenon DEF Final, InputFinished
  <2>4. SherpaTypeOK'
    BY <2>1, <2>2 DEF SherpaTypeOK
  <2>5. HeldInv' /\ DecodedInv' /\ ReplyInv' /\ TranscriptCovers'
    BY <2>1, <2>3 DEF HeldInv, DecodedInv, ReplyInv, TranscriptCovers, Streaming
  <2> QED BY <2>1, <2>4, <2>5
<1>5. CASE StreamDestroy
  <2>1. /\ spc = "finished" /\ spc' = "idle"
        /\ sheap' = sheap \ {"stream", "context"} /\ fed' = 0 /\ done' = 0
        /\ UNCHANGED <<kind, accepted, samples, reply, sfaults, audio>>
    BY <1>5 DEF StreamDestroy, Frees, Fresh
  <2>2. finished' \in BOOLEAN
    BY <1>5, Zenon DEF StreamDestroy, Fresh
  <2>3. SherpaTypeOK'
    BY <2>1, <2>2 DEF SherpaTypeOK
  <2>4. HeldInv'
    BY <2>1 DEF HeldInv, Streaming, Engine
  <2>5. DecodedInv' /\ ReplyInv' /\ TranscriptCovers'
    BY <2>1 DEF DecodedInv, ReplyInv, TranscriptCovers, Streaming
  <2> QED BY <2>1, <2>3, <2>4, <2>5
<1> QED BY <1>1, <1>2, <1>3, <1>4, <1>5

\* A chunk preserves the invariant.
LEMMA StreamChunkStep ==
  ASSUME SherpaInv, Process \/ StreamAccept
  PROVE  SherpaInv'
<1> USE SherpaAssumption DEF SherpaInv
<1>1. CASE Process
  <2>1. /\ spc = "open" /\ samples' \in Nat /\ audio' \in Nat
        /\ UNCHANGED <<kind, fed, done, finished, accepted>>
        /\ sfaults' \in 0 .. MaxSherpaFaults
        /\ \/ /\ Reply("chunk", "OK", 0, TRUE) \/ Reply("chunk", "NOMEM", 0, TRUE)
              /\ UNCHANGED <<spc, sheap>>
           \/ /\ spc' = "accept" /\ reply' = reply
              /\ sheap' = sheap \cup {"floats"}
    BY <1>1 DEF Process, Fail, Reply, Holds, recognizerVars, SherpaTypeOK
  <2>2. reply' \in Replies
    BY <2>1, RepliesType DEF Reply, SherpaTypeOK
  <2>3. SherpaTypeOK'
    BY <2>1, <2>2 DEF SherpaTypeOK, Handles
  <2>4. HeldInv'
    BY <2>1 DEF HeldInv, Streaming, Engine
  <2>5. DecodedInv' /\ ReplyInv' /\ TranscriptCovers'
    BY <2>1 DEF DecodedInv, ReplyInv, TranscriptCovers, Streaming, Reply
  <2> QED BY <2>1, <2>3, <2>4, <2>5
<1>2. CASE StreamAccept
  <2>1. /\ spc = "accept" /\ spc' = "process"
        /\ fed' = fed + samples /\ accepted' = accepted + samples
        /\ sheap' = sheap \ {"floats"}
        /\ UNCHANGED <<kind, done, finished, samples, reply, sfaults, audio>>
    BY <1>2 DEF StreamAccept, Frees
  <2>2. fed' \in Nat /\ done' \in 0 .. fed' /\ accepted' \in Nat
    BY <2>1 DEF SherpaTypeOK
  <2>3. SherpaTypeOK'
    BY <2>1, <2>2 DEF SherpaTypeOK
  <2>4. HeldInv'
    BY <2>1 DEF HeldInv, Streaming, Engine
  <2>5. DecodedInv' /\ ReplyInv' /\ TranscriptCovers'
    BY <2>1 DEF DecodedInv, ReplyInv, TranscriptCovers, Streaming
  <2> QED BY <2>1, <2>2, <2>3, <2>4, <2>5
<1> QED BY <1>1, <1>2

\* So does the text that answers it or the end of the stream: an ended
\* stream that is not ready is decoded to its end, another to less than a
\* frame before it.
LEMMA StreamTextStep ==
  ASSUME SherpaInv, StreamResult \/ StreamText
  PROVE  SherpaInv'
<1> USE SherpaAssumption DEF SherpaInv
<1>1. CASE StreamResult
  <2>1. /\ spc \in {"process", "final"}
        /\ spc' = IF spc = "final" THEN "final_text" ELSE "chunk_text"
        /\ UNCHANGED <<kind, fed, done, finished, accepted, samples, reply, audio>>
        /\ sheap' \in {sheap, sheap \cup {"result"}}
        /\ sfaults' \in 0 .. MaxSherpaFaults
    BY <1>1 DEF StreamResult, Holds, Fail, recognizerVars, SherpaTypeOK
  <2>2. fed - done < Frame /\ (spc = "final" => done = fed)
    BY <1>1 DEF StreamResult, Ready, SherpaTypeOK, DecodedInv
  <2>3. SherpaTypeOK'
    BY <2>1 DEF SherpaTypeOK, Handles
  <2>4. HeldInv'
    BY <2>1 DEF HeldInv, Streaming, Engine
  <2>5. DecodedInv' /\ ReplyInv' /\ TranscriptCovers'
    BY <2>1, <2>2 DEF DecodedInv, ReplyInv, TranscriptCovers, Streaming
  <2> QED BY <2>1, <2>3, <2>4, <2>5
<1>2. CASE StreamText
  <2> DEFINE of == IF spc = "final_text" THEN "final" ELSE "chunk"
  <2>1. /\ spc \in {"chunk_text", "final_text"}
        /\ spc' = IF spc = "final_text" THEN "finished" ELSE "open"
        /\ UNCHANGED <<kind, fed, done, finished, accepted, samples, audio>>
        /\ sheap' = sheap \ {"result"}
        /\ sfaults' \in 0 .. MaxSherpaFaults
        /\ Reply(of, "OK", done, TRUE) \/ Reply(of, "OK", 0, FALSE)
    BY <1>2 DEF StreamText, Frees, Fail, Reply, recognizerVars, SherpaTypeOK
  <2>2. done \in Nat /\ of \in {"final", "chunk"}
    BY DEF SherpaTypeOK
  <2>3. reply' \in Replies
    <3> HIDE DEF of
    <3> QED BY <2>1, <2>2, RepliesType, Zenon DEF Reply
  <2>4. SherpaTypeOK'
    BY <2>1, <2>3 DEF SherpaTypeOK
  <2>5. HeldInv'
    BY <2>1 DEF HeldInv, Streaming, Engine
  <2>6. DecodedInv' /\ ReplyInv'
    BY <2>1 DEF DecodedInv, ReplyInv, Streaming, Reply
  <2>7. TranscriptCovers'
    BY <2>1 DEF TranscriptCovers, DecodedInv, Streaming, Reply, SherpaTypeOK
  <2> QED BY <2>1, <2>4, <2>5, <2>6, <2>7
<1> QED BY <1>1, <1>2

\* SherpaInv is inductive.
LEMMA NextSherpaInv == SherpaInv /\ [SherpaNext]_sherpaVars => SherpaInv'
<1> SUFFICES ASSUME SherpaInv, [SherpaNext]_sherpaVars PROVE SherpaInv'
  OBVIOUS
<1>1. CASE SherpaNext
  BY <1>1, SherpaLifeStep, BatchBeginStep, DecodeStep, BatchEndStep,
     StreamLifeStep, StreamChunkStep, StreamTextStep DEF SherpaNext
<1>2. CASE UNCHANGED sherpaVars
  <2>1. UNCHANGED <<spc, kind, fed, done, finished, accepted, samples, reply,
                    sheap, sfaults, audio>>
    BY <1>2 DEF sherpaVars, recognizerVars
  <2> QED
    BY <2>1 DEF SherpaInv, SherpaTypeOK, HeldInv, DecodedInv, ReplyInv,
                TranscriptCovers
<1> QED BY <1>1, <1>2

-----------------------------------------------------------------------------
(* The text-to-speech engine: its operators.                               *)

\* A set of natural numbers has a least element: the search of the speaker
\* table finds the first of several equal names.
LEMMA LeastElement ==
  ASSUME NEW T \in SUBSET Nat, T # {}
  PROVE  \E i \in T : \A j \in T : i <= j
<1> DEFINE R == {ss \in Nat \X Nat : ss[1] < ss[2]}
<1>1. IsWellFoundedOn(R, Nat)
  BY NatLessThanWellFounded, Zenon DEF OpToRel
<1>2. \A x, y \in Nat : x < y => <<x, y>> \in R
  BY SMT
<1> HIDE DEF R
<1>3. PICK i \in T : \A j \in T : ~(<<j, i>> \in R)
  BY <1>1, WFMin, Zenon
<1>4. \A j \in T : ~(j < i)
  BY <1>2, <1>3, Zenon
<1> QED BY <1>3, <1>4, SMT

\* A sample above zero and within the scale loses one step.
LEMMA StepDown ==
  ASSUME NEW c \in Nat, NEW d \in Nat \ {0}, 0 < c, c <= d
  PROVE  (c * (d - 1)) \div d = c - 1
  BY SMT

\* A conversion clips, and brings the sample a step nearer to zero.
LEMMA ConvertedSample ==
  ASSUME NEW x \in Int
  PROVE  /\ Clip(x) \in -Scale .. Scale
         /\ ToInt16(x) = IF Clip(x) > 0 THEN Clip(x) - 1
                         ELSE IF Clip(x) < 0 THEN Clip(x) + 1 ELSE 0
         /\ ToInt16(x) \in -Scale .. Scale - 1
<1> USE PiperAssumption
<1>1. PICK c : c = Clip(x)
  OBVIOUS
<1>2. c \in -Scale .. Scale
  BY <1>1 DEF Clip
<1>3. Trunc(c * (Scale - 1), Scale) = IF c > 0 THEN c - 1
                                      ELSE IF c < 0 THEN c + 1 ELSE 0
  <2>1. CASE c > 0
    <3>1. c * (Scale - 1) >= 0
      BY <1>2, <2>1
    <3>2. (c * (Scale - 1)) \div Scale = c - 1
      BY <1>2, <2>1, StepDown
    <3> QED BY <2>1, <3>1, <3>2 DEF Trunc
  <2>2. CASE c < 0
    <3>1. PICK e \in Nat : e = -c /\ 0 < e /\ e <= Scale
      BY <1>2, <2>2
    <3>2. c * (Scale - 1) = -(e * (Scale - 1))
      BY <1>2, <3>1
    <3>3. (e * (Scale - 1)) \div Scale = e - 1
      BY <3>1, StepDown
    <3>4. e * (Scale - 1) \in Nat
      BY <3>1
    <3>5. CASE e * (Scale - 1) = 0
      <4>1. c * (Scale - 1) = 0 /\ 0 \div Scale = 0
        BY <3>2, <3>5
      <4>2. e - 1 = 0
        BY <3>3, <3>5, <4>1
      <4>3. Trunc(c * (Scale - 1), Scale) = 0
        BY <4>1 DEF Trunc
      <4> QED BY <1>2, <2>2, <3>1, <4>2, <4>3
    <3>6. CASE e * (Scale - 1) > 0
      <4>1. PICK n \in Nat : n = e * (Scale - 1)
        BY <3>4
      <4>2. c * (Scale - 1) = -n /\ n > 0 /\ n \div Scale = e - 1
        BY <3>2, <3>3, <3>6, <4>1
      <4>3. ~(-n >= 0) /\ -(-n) = n
        BY <4>1, <4>2
      <4>4. Trunc(-n, Scale) = -(n \div Scale)
        BY <4>3 DEF Trunc
      <4> QED BY <1>2, <2>2, <3>1, <4>2, <4>4
    <3> QED BY <3>4, <3>5, <3>6
  <2>3. CASE c = 0
    <3>1. c * (Scale - 1) = 0 /\ 0 \div Scale = 0
      BY <2>3
    <3> QED BY <2>3, <3>1 DEF Trunc
  <2> QED BY <1>2, <2>1, <2>2, <2>3
<1> QED BY <1>1, <1>2, <1>3 DEF ToInt16

\* The converted samples of a text.
LEMMA ConvertedAll ==
  ASSUME NEW t \in Seq(Int)
  PROVE  /\ ConvertAll(t) \in Seq(Int) /\ Len(ConvertAll(t)) = Len(t)
         /\ \A i \in 1 .. Len(t) : /\ ConvertAll(t)[i] = ToInt16(t[i])
                                   /\ ConvertAll(t)[i] \in -Scale .. Scale - 1
<1>1. ASSUME NEW i \in 1 .. Len(t)
      PROVE  ToInt16(t[i]) \in -Scale .. Scale - 1
  <2>1. t[i] \in Int
    OBVIOUS
  <2> QED BY <2>1, ConvertedSample
<1>2. -Scale .. Scale - 1 \subseteq Int
  BY PiperAssumption
<1>3. ConvertAll(t) = [i \in 1 .. Len(t) |-> ToInt16(t[i])]
  BY DEF ConvertAll
<1> QED BY <1>1, <1>2, <1>3

\* Two conversions of a text are what is heard of it.
LEMMA TwiceConverted ==
  ASSUME NEW t \in Seq(Int)
  PROVE  ConvertAll(ConvertAll(t)) = Heard(t)
<1> DEFINE Abs(x) == IF x < 0 THEN -x ELSE x
           Size(x) == IF Abs(x) > Scale THEN Scale ELSE Abs(x)
           Less(x) == IF Size(x) > 2 THEN Size(x) - 2 ELSE 0
<1>1. ASSUME NEW x \in Int
      PROVE  ToInt16(ToInt16(x)) = IF x < 0 THEN -Less(x) ELSE Less(x)
  <2>4. ToInt16(x) \in -Scale .. Scale - 1
    BY ConvertedSample
  <2>1. PICK y \in Int : y = ToInt16(x) /\ y \in -Scale .. Scale - 1
    BY <2>4, PiperAssumption
  <2>2. y = IF Clip(x) > 0 THEN Clip(x) - 1
            ELSE IF Clip(x) < 0 THEN Clip(x) + 1 ELSE 0
    BY <2>1, ConvertedSample
  <2>5. Clip(y) = y
    BY <2>1, PiperAssumption DEF Clip
  <2>3. ToInt16(y) = IF y > 0 THEN y - 1 ELSE IF y < 0 THEN y + 1 ELSE 0
    BY <2>5, ConvertedSample
  <2> QED BY <2>1, <2>2, <2>3, PiperAssumption DEF Clip
<1>2. PICK u \in Seq(Int) :
        /\ u = ConvertAll(t) /\ Len(u) = Len(t)
        /\ \A i \in 1 .. Len(t) : u[i] = ToInt16(t[i])
  BY ConvertedAll
<1>3. ConvertAll(u) = [i \in 1 .. Len(t) |-> ToInt16(u[i])]
  BY <1>2 DEF ConvertAll
<1>4. Heard(t) = [i \in 1 .. Len(t) |-> IF t[i] < 0 THEN -Less(t[i]) ELSE Less(t[i])]
  BY DEF Heard
<1>5. \A i \in 1 .. Len(t) :
        ToInt16(u[i]) = IF t[i] < 0 THEN -Less(t[i]) ELSE Less(t[i])
  BY <1>1, <1>2
<1> HIDE DEF Less
<1> QED BY <1>2, <1>3, <1>4, <1>5

-----------------------------------------------------------------------------
(* The text-to-speech engine: its invariant.                               *)

\* An engine that is configured, and one that is not, begin in the invariant.
LEMMA InitPiperInv ==
  ASSUME NEW start \in {"none", "gone"}, PiperInit(start)
  PROVE  PiperInv
<1> USE PiperAssumption DEF PiperInit
<1>1. PiperTypeOK
  <2>1. short \in BOOLEAN
    BY Zenon
  <2> QED BY <2>1 DEF PiperTypeOK, Nothing
<1>2. TableInv
  BY DEF TableInv, Calling
<1>3. AudioInv
  BY DEF AudioInv, Calling
<1>4. HeapInv /\ PiperHeap
  <2>1. pheap["pcm"] = 0 /\ pheap["chunk"] = 0 /\ pheap = Chunks
    BY DEF Nothing, Chunks, Things
  <2> QED BY <2>1 DEF HeapInv, PiperHeap
<1>5. SpeakerHonoured
  BY DEF SpeakerHonoured
<1> QED BY <1>1, <1>2, <1>3, <1>4, <1>5 DEF PiperInv

\* The engine is not created, or its synthesizer cannot be, or it can.
LEMMA PiperLifeStep ==
  ASSUME PiperInv, NoConfiguration \/ SynthFails \/ OpenSynth \/ DestroyPiper
  PROVE  PiperInv'
<1> USE PiperAssumption DEF PiperInv
<1>1. /\ UNCHANGED <<model, count, names, ids, said, speaker, sid, audioBuf, chunk,
                     capacity, spoken, short, utterances>>
      /\ ppc \in {"none", "table", "ready"} /\ ppc' \in {"ready", "gone"}
      /\ ppc' = "ready" => ppc = "table"
      /\ pfaults' \in 0 .. MaxPiperFaults /\ pfaults' >= pfaults
  <2>1. /\ UNCHANGED <<tableVars, callVars, utterances>>
        /\ ppc \in {"none", "table", "ready"} /\ ppc' \in {"ready", "gone"}
        /\ ppc' = "ready" => ppc = "table"
        /\ Fails(1) \/ pfaults' = pfaults
    BY Zenon DEF NoConfiguration, SynthFails, OpenSynth, DestroyPiper
  <2>2. pfaults' \in 0 .. MaxPiperFaults /\ pfaults' >= pfaults
    BY <2>1 DEF Fails, PiperTypeOK
  <2> QED BY <2>1, <2>2 DEF tableVars, callVars
<1>2. /\ pheap' \in [Things -> Nat] /\ pheap'["pcm"] = 0
      /\ pheap'["chunk"] = pheap["chunk"]
  <2>1. CASE NoConfiguration
    BY <2>1 DEF NoConfiguration, HeapInv, PiperTypeOK, Nothing, Things
  <2>2. CASE SynthFails
    <3>1. PICK late \in BOOLEAN :
            pheap' = FreeEngine([pheap EXCEPT !["synth language"] =
                                                IF late THEN 1 ELSE 0])
      BY <2>2, Zenon DEF SynthFails
    <3>2. (IF late THEN 1 ELSE 0) \in Nat
      OBVIOUS
    <3>3. \A t \in Things \ Freed : pheap[t] = 0
      BY <2>2 DEF SynthFails, HeapInv
    <3>4. pheap \in [Things -> Nat]
      BY DEF PiperTypeOK
    <3> QED BY <3>1, <3>2, <3>3, <3>4 DEF FreeEngine, Freed, Things
  <2>3. CASE OpenSynth
    BY <2>3 DEF OpenSynth, HeapInv, PiperTypeOK, Freed, Things
  <2>4. CASE DestroyPiper
    BY <2>4 DEF DestroyPiper, FreeEngine, Freed, HeapInv, PiperTypeOK, Things
  <2> QED BY <2>1, <2>2, <2>3, <2>4
<1>3. PiperTypeOK'
  BY <1>1, <1>2 DEF PiperTypeOK
<1>4. TableInv'
  BY <1>1 DEF TableInv, Calling, PiperTypeOK
<1>5. AudioInv'
  BY <1>1 DEF AudioInv, Calling, ConvertAll
<1>6. HeapInv'
  BY <1>1, <1>2 DEF HeapInv
<1>7. PiperHeap'
  <2>1. ppc' = "gone" =>
          \/ pheap' = Chunks'
          \/ utterances = 0 /\ pfaults' > 0
               /\ pheap' = [Chunks' EXCEPT !["synth language"] = 1]
    <3>1. CASE NoConfiguration
      BY <3>1 DEF NoConfiguration, HeapInv, Nothing, Chunks, Things
    <3>2. CASE SynthFails
      <4>1. utterances = 0 /\ pfaults' > 0
        <5>1. ppc = "table" /\ Fails(1)
          BY <3>2, Zenon DEF SynthFails
        <5> QED BY <5>1 DEF Fails, HeapInv, PiperTypeOK
      <4>2. PICK late \in BOOLEAN :
              pheap' = FreeEngine([pheap EXCEPT !["synth language"] =
                                                  IF late THEN 1 ELSE 0])
        BY <3>2 DEF SynthFails
      <4>3. \A t \in Things \ Freed : pheap[t] = 0
        BY <3>2 DEF SynthFails, HeapInv
      <4>4. CASE late
        BY <4>1, <4>2, <4>3, <4>4 DEF FreeEngine, Freed, Chunks, Things, PiperTypeOK
      <4>5. CASE ~late
        BY <4>1, <4>2, <4>3, <4>5 DEF FreeEngine, Freed, Chunks, Things, PiperTypeOK
      <4> QED BY <4>4, <4>5
    <3>3. CASE OpenSynth
      BY <3>3 DEF OpenSynth
    <3>4. CASE DestroyPiper
      BY <3>4 DEF DestroyPiper, FreeEngine, Freed, Chunks, Things, PiperTypeOK,
                  PiperHeap
    <3> QED BY <3>1, <3>2, <3>3, <3>4
  <2> QED BY <1>1, <1>2, <2>1 DEF PiperHeap
<1>8. SpeakerHonoured'
  BY <1>1 DEF SpeakerHonoured
<1> QED BY <1>3, <1>4, <1>5, <1>6, <1>7, <1>8

\* The speaker table is filled, or is not, as far as there was memory.
LEMMA LoadTableStep ==
  ASSUME PiperInv, LoadTable
  PROVE  PiperInv'
<1> USE PiperAssumption DEF PiperInv
<1> DEFINE map == model.map
<1>1. /\ ppc = "none" /\ ppc' = "table"
      /\ UNCHANGED <<model, said, speaker, sid, audioBuf, chunk, capacity, spoken,
                     short, utterances>>
  BY DEF LoadTable, callVars
<1>2. /\ model.num \in Int /\ Len(map) \in Nat /\ DOMAIN map = 1 .. Len(map)
      /\ \A i \in DOMAIN map : map[i].id \in Int /\ map[i].name # None
  BY ModelsAssumption DEF PiperTypeOK
<1>3. PICK badNames \in BOOLEAN, badIds \in BOOLEAN, badName \in SUBSET DOMAIN map :
        LET filled == map # <<>> /\ ~badNames /\ ~badIds
        IN  /\ map = <<>> => ~badNames /\ ~badIds
            /\ ~filled => badName = {}
            /\ Fails((IF badNames THEN 1 ELSE 0) + (IF badIds THEN 1 ELSE 0)
                       + Cardinality(badName))
            /\ count' = TableCount(filled)
            /\ names' = IF map = <<>> \/ badNames THEN <<>>
                        ELSE [i \in DOMAIN map |->
                                IF filled /\ i \notin badName THEN map[i].name
                                                              ELSE None]
            /\ ids' = IF map = <<>> \/ badIds THEN <<>>
                      ELSE [i \in DOMAIN map |-> IF filled THEN map[i].id ELSE 0]
            /\ pheap' = [pheap EXCEPT
                  !["engine"] = 1, !["voice"] = 1, !["language"] = 1,
                  !["names"] = IF names' = <<>> THEN 0 ELSE 1,
                  !["ids"] = IF ids' = <<>> THEN 0 ELSE 1,
                  !["name"] = IF filled THEN Len(map) - Cardinality(badName)
                                        ELSE 0]
  BY Zenon DEF LoadTable
<1>4. /\ Cardinality(badName) \in Nat /\ Cardinality(badName) <= Len(map)
      /\ Cardinality(badName) = 0 => badName = {}
  <2>1. IsFiniteSet(1 .. Len(map)) /\ Cardinality(1 .. Len(map)) = Len(map)
    BY <1>2, FS_Interval
  <2>2. IsFiniteSet(badName) /\ Cardinality(badName) <= Len(map)
    BY <1>2, <2>1, FS_Subset
  <2> QED BY <2>2, FS_CardinalityType, FS_EmptySet
<1> DEFINE lost == (IF badNames THEN 1 ELSE 0) + (IF badIds THEN 1 ELSE 0)
                     + Cardinality(badName)
<1>5. /\ pfaults' = pfaults + lost /\ pfaults' \in 0 .. MaxPiperFaults
      /\ lost \in Nat
      /\ lost = 0 => ~badNames /\ ~badIds /\ badName = {}
  <2>1. lost \in Nat /\ (lost = 0 => ~badNames /\ ~badIds /\ badName = {})
    BY <1>4
  <2>2. Fails(lost)
    BY <1>3
  <2> HIDE DEF lost
  <2> QED BY <2>1, <2>2 DEF Fails, PiperTypeOK
<1>6. pheap' \in [Things -> Nat] /\ \A t \in Things \ Freed : pheap'[t] = 0
  <2>1. PICK n \in Nat, a \in Nat, b \in Nat :
          pheap' = [pheap EXCEPT !["engine"] = 1, !["voice"] = 1, !["language"] = 1,
                                 !["names"] = a, !["ids"] = b, !["name"] = n]
    <3>1. Len(map) - Cardinality(badName) \in Nat
      BY <1>2, <1>4
    <3> QED BY <1>3, <3>1
  <2>2. pheap = Nothing
    BY <1>1 DEF HeapInv
  <2> QED BY <2>1, <2>2 DEF Nothing, Things, Freed
<1>10. count' \in Int /\ TableInv'
  <2>1. CASE map = <<>>
    <3>1. names' = <<>> /\ ids' = <<>> /\ count' = model.num
      BY <1>3, <2>1 DEF TableCount
    <3>2. TableInv'
      BY <1>1, <2>1, <3>1 DEF TableInv
    <3> QED BY <1>1, <1>2, <3>1, <3>2
  <2>2. CASE map # <<>> /\ ~badNames /\ ~badIds
    <3>1. /\ names' = [i \in 1 .. Len(map) |-> IF i \notin badName THEN map[i].name
                                                                 ELSE None]
          /\ ids' = [i \in 1 .. Len(map) |-> map[i].id]
          /\ count' = Len(map)
      BY <1>2, <1>3, <2>2 DEF TableCount
    <3>2. TableInv'
      BY SMTT(30), <1>1, <1>2, <1>5, <2>2, <3>1 DEF TableInv, PiperTypeOK
    <3> QED BY <1>1, <1>2, <3>1, <3>2
  <2>3. CASE map # <<>> /\ (badNames \/ badIds)
    <3>1. /\ badNames => names' = <<>>
          /\ ~badNames => ids' = <<>> /\ names' = [i \in 1 .. Len(map) |-> None]
          /\ ids' # <<>> => ids' = [i \in 1 .. Len(map) |-> 0]
          /\ count' = model.num
      BY <1>2, <1>3, <2>3 DEF TableCount
    <3>2. pfaults' # 0
      BY <1>5, <2>3 DEF PiperTypeOK
    <3>3. TableInv'
      BY <1>1, <1>2, <3>1, <3>2 DEF TableInv
    <3> QED BY <1>1, <1>2, <3>1, <3>3
  <2> QED BY <2>1, <2>2, <2>3
<1>11. PiperTypeOK'
  BY <1>1, <1>5, <1>6, <1>10 DEF PiperTypeOK
<1>12. AudioInv' /\ SpeakerHonoured'
  BY <1>1 DEF AudioInv, SpeakerHonoured, Calling
<1>13. HeapInv' /\ PiperHeap'
  <2>1. "chunk" \in Things \ Freed
    BY DEF Things, Freed
  <2>2. pheap'["chunk"] = 0 /\ utterances' = 0
    BY <1>1, <1>6, <2>1 DEF HeapInv
  <2> QED BY <1>1, <1>6, <2>2 DEF HeapInv, PiperHeap
<1> QED BY <1>10, <1>11, <1>12, <1>13

\* The id the table gives a speaker: one the map has for that name, the first
\* of them, or the default 0; the default only where the table has not the
\* name, is not filled, or the id is negative.
LEMMA SpeakerFound ==
  ASSUME PiperInv
  PROVE  /\ SpeakerId(speaker) \in {0} \cup IdOf(speaker)
         /\ (/\ ppc = "start" /\ pfaults = 0 /\ Consistent
             /\ Len(model.map) > 1 /\ IdOf(speaker) # {})
              => SpeakerId(speaker) \in IdOf(speaker)
<1> USE DEF PiperInv
<1>1. /\ Len(model.map) \in Nat /\ DOMAIN model.map = 1 .. Len(model.map)
      /\ \A i \in DOMAIN model.map : /\ model.map[i].id \in Int
                                     /\ model.map[i].name # None
  BY ModelsAssumption DEF PiperTypeOK
<1>2. CASE speaker = None \/ count <= 1 \/ names = <<>> \/ Named(speaker) = {}
  <2>1. SpeakerId(speaker) = 0
    BY <1>2 DEF SpeakerId
  <2>2. ASSUME ppc = "start", pfaults = 0, Consistent, Len(model.map) > 1,
               IdOf(speaker) # {}
        PROVE  FALSE
    <3>1. PICK i \in 1 .. Len(model.map) : model.map[i].name = speaker
      BY <1>1, <2>2 DEF IdOf
    <3>2. speaker # None
      BY <1>1, <3>1
    <3>3. model.map # <<>>
      BY <2>2
    <3>4. /\ names # <<>> /\ ids # <<>>
          /\ \A j \in DOMAIN names : names[j] = model.map[j].name
      BY <2>2, <3>3 DEF TableInv, Calling
    <3>5. count = Len(model.map) /\ DOMAIN names = 1 .. Len(model.map)
      BY <3>4 DEF TableInv
    <3>6. i \in Named(speaker)
      BY <3>1, <3>4, <3>5 DEF Named
    <3>7. ~(count <= 1)
      BY <1>1, <2>2, <3>5
    <3> QED BY <1>2, <3>2, <3>4, <3>6, <3>7
  <2> QED BY <2>1, <2>2
<1>3. CASE ~(speaker = None \/ count <= 1 \/ names = <<>> \/ Named(speaker) = {})
  <2>1. DOMAIN names = 1 .. Len(model.map)
    BY <1>3 DEF TableInv
  <2>2. Named(speaker) \in SUBSET Nat /\ Named(speaker) # {}
    BY <1>1, <1>3, <2>1 DEF Named
  <2>3. \E i \in Named(speaker) : \A j \in Named(speaker) : i <= j
    BY <2>2, LeastElement
  <2>4. PICK k : k = CHOOSE i \in Named(speaker) : \A j \in Named(speaker) : i <= j
    OBVIOUS
  <2>5. k \in Named(speaker)
    BY <2>3, <2>4, Zenon
  <2>6. k \in 1 .. Len(model.map) /\ names[k] = speaker /\ speaker # None
    BY <1>3, <2>1, <2>5 DEF Named
  <2>7. ids # <<>>
    BY <1>3, <2>1, <2>6 DEF TableInv
  <2>8. ids[k] = model.map[k].id /\ model.map[k].name = speaker
    BY <1>3, <2>1, <2>6, <2>7 DEF TableInv
  <2>9. ids[k] \in IdOf(speaker)
    BY <1>1, <2>6, <2>8 DEF IdOf
  <2>10. SpeakerId(speaker) = IF ids[k] >= 0 THEN ids[k] ELSE 0
    BY <1>3, <2>4 DEF SpeakerId
  <2>11. Consistent => ids[k] >= 0
    BY <1>1, <2>6, <2>8 DEF Consistent
  <2> QED BY <2>9, <2>10, <2>11
<1> QED BY <1>2, <1>3

\* A call begins, and runs the model.
LEMMA CallStep ==
  ASSUME PiperInv, Speak \/ Start
  PROVE  PiperInv'
<1> USE PiperAssumption DEF PiperInv
<1>1. CASE Speak
  <2>1. /\ ppc = "ready" /\ ppc' = "start" /\ utterances' = utterances + 1
        /\ said' \in Speech /\ speaker' \in Speakers \cup {None}
        /\ UNCHANGED <<model, count, names, ids, sid, audioBuf, chunk, capacity,
                       spoken, pheap, pfaults>>
    BY <1>1 DEF Speak, tableVars
  <2>2. short' \in BOOLEAN
    BY <1>1, Zenon DEF Speak
  <2>3. PiperTypeOK'
    BY <2>1, <2>2 DEF PiperTypeOK
  <2>4. TableInv'
    BY <2>1 DEF TableInv, Calling
  <2>5. AudioInv'
    BY <2>1 DEF AudioInv, Calling
  <2>6. HeapInv' /\ PiperHeap'
    <3>1. "chunk" \in Things /\ pheap["chunk"] <= utterances
      BY DEF Things, PiperHeap
    <3>2. pheap["chunk"] \in Nat /\ utterances \in Nat
      BY <3>1 DEF PiperTypeOK
    <3>3. pheap["chunk"] < utterances'
      BY <2>1, <3>1, <3>2
    <3>4. pheap'["pcm"] = 0
      BY <2>1 DEF HeapInv
    <3> QED BY <2>1, <3>1, <3>2, <3>3, <3>4 DEF HeapInv, PiperHeap
  <2>7. SpeakerHonoured'
    BY <2>1 DEF SpeakerHonoured
  <2> QED BY <2>3, <2>4, <2>5, <2>6, <2>7
<1>2. CASE Start
  <2>1. /\ ppc = "start" /\ ppc' = "alloc" /\ audioBuf' = ConvertAll(said)
        /\ sid' = IF model.num > 1 THEN SpeakerId(speaker) ELSE None
        /\ UNCHANGED <<model, count, names, ids, said, speaker, chunk, capacity,
                       spoken, short, pheap, pfaults, utterances>>
    BY <1>2 DEF Start, NewAudio, tableVars
  <2>2. said \in Speech /\ said \in Seq(Int)
    BY <2>1 DEF AudioInv, Calling
  <2>3. /\ audioBuf' \in Seq(Int)
        /\ \A i \in DOMAIN audioBuf' : audioBuf'[i] \in -Scale .. Scale - 1
    BY <2>1, <2>2, ConvertedAll
  <2>4. PiperTypeOK'
    BY <2>1, <2>3 DEF PiperTypeOK
  <2>5. TableInv'
    BY <2>1 DEF TableInv, Calling
  <2>6. AudioInv'
    BY <2>1, <2>2, <2>3 DEF AudioInv, Calling
  <2>7. HeapInv' /\ PiperHeap'
    BY <2>1 DEF HeapInv, PiperHeap
  <2>8. SpeakerHonoured'
    <3>1. model.num \in Int /\ Len(model.map) \in Nat
      BY ModelsAssumption DEF PiperTypeOK
    <3>2. IdOf(speaker)' = IdOf(speaker) /\ Consistent' = Consistent
      BY <2>1 DEF IdOf, Consistent
    <3>3. sid' \in {None, 0} \cup IdOf(speaker)
      BY <2>1, SpeakerFound
    <3>4. pfaults = 0 /\ Consistent /\ Len(model.map) > 1 /\ IdOf(speaker) # {}
            => sid' \in IdOf(speaker)
      BY <2>1, <3>1, SpeakerFound DEF Consistent
    <3> QED BY <2>1, <3>2, <3>3, <3>4 DEF SpeakerHonoured
  <2> QED BY <2>4, <2>5, <2>6, <2>7, <2>8
<1> QED BY <1>1, <1>2

\* The buffer, the chunk and a larger buffer: the chunk is the whole audio,
\* and fits the buffer when it is converted.
LEMMA BufferStep ==
  ASSUME PiperInv, ppc' # "ready", Alloc \/ Chunk \/ Grow
  PROVE  PiperInv'
<1> USE PiperAssumption DEF PiperInv
<1>1. /\ UNCHANGED <<model, count, names, ids, said, speaker, sid, spoken, short,
                     pfaults, utterances>>
      /\ \/ /\ ppc = "alloc" /\ ppc' = "next" /\ capacity' = FirstCapacity
            /\ pheap' = [pheap EXCEPT !["pcm"] = 1] /\ UNCHANGED <<audioBuf, chunk>>
         \/ /\ ppc = "next" /\ chunk' = audioBuf /\ audioBuf' = <<>>
            /\ pheap' = [pheap EXCEPT !["chunk"] = @ + 1] /\ UNCHANGED capacity
            /\ ppc' = IF Len(audioBuf) > capacity THEN "grow" ELSE "convert"
         \/ /\ ppc = "grow" /\ ppc' = "convert" /\ capacity' = 2 * Len(chunk)
            /\ UNCHANGED <<pheap, audioBuf, chunk>>
  <2>1. CASE Alloc
    BY <2>1 DEF Alloc, Answer, tableVars
  <2>2. CASE Chunk
    BY <2>2 DEF Chunk, TooLong, tableVars
  <2>3. CASE Grow
    BY <2>3 DEF Grow, Answer, tableVars
  <2> QED BY <2>1, <2>2, <2>3
<1>2. /\ pheap' \in [Things -> Nat] /\ pheap'["chunk"] <= utterances
      /\ ppc' = "next" => pheap'["chunk"] < utterances
  <2>1. /\ pheap \in [Things -> Nat] /\ utterances \in Nat
        /\ "chunk" \in Things /\ "pcm" \in Things
        /\ pheap["chunk"] <= utterances
        /\ ppc \in {"alloc", "next"} => pheap["chunk"] < utterances
    BY DEF PiperTypeOK, HeapInv, PiperHeap, Things
  <2>2. pheap["chunk"] \in Nat
    BY <2>1
  <2> QED BY <1>1, <2>1, <2>2
<1>3. /\ audioBuf' \in Seq(Int) /\ chunk' \in Seq(Int) /\ capacity' \in Nat
      /\ ppc' \in {"next", "grow", "convert"}
      /\ ppc' = "convert" => Len(chunk') <= capacity'
      /\ \A i \in DOMAIN audioBuf' : audioBuf'[i] \in -Scale .. Scale - 1
  <2>1. /\ audioBuf \in Seq(Int) /\ chunk \in Seq(Int) /\ capacity \in Nat
        /\ Len(audioBuf) \in Nat /\ Len(chunk) \in Nat /\ <<>> \in Seq(Int)
        /\ \A i \in DOMAIN audioBuf : audioBuf[i] \in -Scale .. Scale - 1
    BY DEF PiperTypeOK, AudioInv
  <2>2. DOMAIN <<>> = {}
    OBVIOUS
  <2>3. audioBuf' \in {<<>>, audioBuf} /\ chunk' \in {chunk, audioBuf}
    BY <1>1
  <2>4. \A i \in DOMAIN audioBuf' : audioBuf'[i] \in -Scale .. Scale - 1
    BY <2>1, <2>2, <2>3
  <2>5. /\ capacity' \in Nat /\ ppc' \in {"next", "grow", "convert"}
        /\ ppc' = "convert" => Len(chunk') <= capacity'
    BY <1>1, <2>1
  <2> QED BY <2>1, <2>3, <2>4, <2>5
<1>4. PiperTypeOK'
  BY <1>1, <1>2, <1>3 DEF PiperTypeOK
<1>5. TableInv'
  BY <1>1, <1>3 DEF TableInv, Calling
<1>6. AudioInv'
  <2>1. said \in Speech
    BY <1>1 DEF AudioInv, Calling
  <2>2. ConvertAll(said)' = ConvertAll(said)
    BY <1>1 DEF ConvertAll
  <2>3. /\ ppc' = "next" => audioBuf' = ConvertAll(said)
        /\ ppc' \in {"grow", "convert"} => chunk' = ConvertAll(said)
    BY <1>1 DEF AudioInv
  <2> QED BY <1>1, <1>3, <2>1, <2>2, <2>3 DEF AudioInv, Calling
<1>7. HeapInv' /\ PiperHeap'
  BY <1>1, <1>2, <1>3 DEF HeapInv, PiperHeap
<1>8. SpeakerHonoured'
  <2>1. ppc \in {"alloc", "next", "grow"}
    BY <1>1
  <2>2. IdOf(speaker)' = IdOf(speaker) /\ Consistent' = Consistent
    BY <1>1 DEF IdOf, Consistent
  <2> QED BY <1>1, <2>1, <2>2 DEF SpeakerHonoured
<1> QED BY <1>4, <1>5, <1>6, <1>7, <1>8

\* Every way a call can end.
Ending ==
  \/ StartFails \/ NoChunk \/ ChunkFails \/ Convert
  \/ (Alloc \/ Grow) /\ ppc' = "ready"

\* What a call leaves behind when it ends.
LEMMA EndingEffect ==
  ASSUME PiperInv, Ending
  PROVE  /\ ppc \in Calling /\ ppc' = "ready"
         /\ said' = None /\ speaker' = None
         /\ chunk' = <<>> /\ capacity' = 0
         /\ audioBuf' \in {<<>>, audioBuf}
         /\ UNCHANGED <<model, count, names, ids, sid, utterances>>
         /\ Fails(1) \/ pfaults' = pfaults
         /\ pheap' \in {pheap, [pheap EXCEPT !["pcm"] = 0]}
         /\ pheap'["pcm"] = 0
         /\ spoken'.rc \in {"OK", "NOMEM", "PIPER"} /\ short' \in BOOLEAN
<1> USE DEF PiperInv
<1>1. pheap \in [Things -> Nat] /\ "pcm" \in Things
  BY DEF PiperTypeOK, Things
<1>2. short \in BOOLEAN
  BY DEF PiperTypeOK
<1>3. CASE StartFails
  <2>1. pheap["pcm"] = 0
    BY <1>3 DEF StartFails, HeapInv
  <2>2. short' \in BOOLEAN
    BY <1>2, <1>3, Zenon DEF StartFails
  <2> QED BY <1>3, <2>1, <2>2 DEF StartFails, Answer, Calling, tableVars
<1>4. CASE Alloc /\ ppc' = "ready"
  <2>1. pheap["pcm"] = 0
    BY <1>4 DEF Alloc, HeapInv
  <2>2. short' \in BOOLEAN
    BY <1>2, <1>4, Zenon DEF Alloc
  <2> QED BY <1>4, <2>1, <2>2 DEF Alloc, Answer, Calling, tableVars
<1>5. CASE NoChunk
  <2>2. short' \in BOOLEAN
    BY <1>2, <1>5, Zenon DEF NoChunk
  <2> QED BY <1>1, <1>5, <2>2 DEF NoChunk, Answer, HandOver, Calling, tableVars
<1>6. CASE ChunkFails
  <2>2. short' \in BOOLEAN
    BY <1>6, Zenon DEF ChunkFails
  <2> QED BY <1>1, <1>6, <2>2 DEF ChunkFails, Answer, HandOver, Calling, tableVars
<1>7. CASE Grow /\ ppc' = "ready"
  <2>2. short' \in BOOLEAN
    BY <1>2, <1>7, Zenon DEF Grow
  <2> QED BY <1>1, <1>7, <2>2 DEF Grow, Answer, HandOver, Calling, tableVars
<1>8. CASE Convert
  <2>2. short' \in BOOLEAN
    BY <1>2, <1>8, Zenon DEF Convert
  <2> QED BY <1>1, <1>8, <2>2 DEF Convert, Answer, HandOver, Calling, tableVars
<1> QED BY <1>3, <1>4, <1>5, <1>6, <1>7, <1>8 DEF Ending

\* However it ends, a call preserves the invariant.
LEMMA EndingStep ==
  ASSUME PiperInv, Ending
  PROVE  PiperInv'
<1> USE PiperAssumption DEF PiperInv
<1>1. /\ ppc \in Calling /\ ppc' = "ready"
      /\ said' = None /\ speaker' = None
      /\ chunk' = <<>> /\ capacity' = 0
      /\ audioBuf' \in {<<>>, audioBuf}
      /\ UNCHANGED <<model, count, names, ids, sid, utterances>>
      /\ Fails(1) \/ pfaults' = pfaults
      /\ pheap' \in {pheap, [pheap EXCEPT !["pcm"] = 0]}
      /\ pheap'["pcm"] = 0
  BY EndingEffect
<1>2. spoken'.rc \in {"OK", "NOMEM", "PIPER"} /\ short' \in BOOLEAN
  BY EndingEffect
<1>3. pfaults' \in 0 .. MaxPiperFaults /\ pfaults' >= pfaults
  BY <1>1 DEF Fails, PiperTypeOK
<1>4. pheap' \in [Things -> Nat] /\ pheap'["chunk"] = pheap["chunk"]
  <2>1. pheap \in [Things -> Nat] /\ "pcm" \in Things /\ "chunk" \in Things
    BY DEF PiperTypeOK, Things
  <2> QED BY <1>1, <2>1
<1>5. /\ audioBuf' \in Seq(Int)
      /\ \A i \in DOMAIN audioBuf' : audioBuf'[i] \in -Scale .. Scale - 1
  <2>1. /\ audioBuf \in Seq(Int) /\ <<>> \in Seq(Int) /\ DOMAIN <<>> = {}
        /\ \A i \in DOMAIN audioBuf : audioBuf[i] \in -Scale .. Scale - 1
    BY DEF PiperTypeOK, AudioInv
  <2> QED BY <1>1, <2>1
<1>6. PiperTypeOK'
  BY <1>1, <1>2, <1>3, <1>4, <1>5 DEF PiperTypeOK
<1>7. TableInv'
  BY <1>1, <1>3 DEF TableInv, PiperTypeOK
<1>8. AudioInv'
  BY <1>1, <1>5 DEF AudioInv, Calling
<1>9. HeapInv' /\ PiperHeap'
  BY <1>1, <1>4 DEF HeapInv, PiperHeap
<1>10. SpeakerHonoured'
  BY <1>1 DEF SpeakerHonoured
<1> QED BY <1>6, <1>7, <1>8, <1>9, <1>10

\* PiperInv is inductive.
LEMMA NextPiperInv == PiperInv /\ [PiperNext]_piperEngineVars => PiperInv'
<1> SUFFICES ASSUME PiperInv, [PiperNext]_piperEngineVars PROVE PiperInv'
  OBVIOUS
<1>1. CASE PiperNext
  BY <1>1, PiperLifeStep, LoadTableStep, CallStep, BufferStep, EndingStep
     DEF PiperNext, Ending, Chunk
<1>2. CASE UNCHANGED piperEngineVars
  <2>1. UNCHANGED <<ppc, model, count, names, ids, said, speaker, sid, audioBuf,
                    chunk, capacity, spoken, short, pheap, pfaults, utterances>>
    BY <1>2 DEF piperEngineVars
  <2>2. PiperTypeOK' /\ TableInv'
    BY <2>1 DEF PiperInv, PiperTypeOK, TableInv
  <2>3. AudioInv'
    BY <2>1 DEF PiperInv, AudioInv, ConvertAll
  <2>4. HeapInv' /\ PiperHeap'
    BY <2>1 DEF PiperInv, HeapInv, PiperHeap, Chunks
  <2>5. SpeakerHonoured'
    <3>1. IdOf(speaker)' = IdOf(speaker) /\ Consistent' = Consistent
      BY <2>1 DEF IdOf, Consistent
    <3> QED BY <2>1, <3>1 DEF PiperInv, SpeakerHonoured
  <2> QED BY <2>2, <2>3, <2>4, <2>5 DEF PiperInv
<1> QED BY <1>1, <1>2

-----------------------------------------------------------------------------
(* The theorems.                                                           *)

\* A table both arrays of which were allocated is as long as it says.
LEMMA TableIsBounded == PiperInv => TableBounds
<1> SUFFICES ASSUME PiperInv PROVE TableBounds
  OBVIOUS
<1>1. model.num \in Int /\ Len(model.map) \in Nat /\ count \in Int
  BY ModelsAssumption DEF PiperInv, PiperTypeOK
<1>2. /\ names # <<>> => DOMAIN names = 1 .. Len(model.map)
                          /\ Len(names) = Len(model.map)
      /\ ids # <<>> => DOMAIN ids = 1 .. Len(model.map)
      /\ names # <<>> /\ ids # <<>> => count = Len(model.map)
      /\ names # <<>> /\ ids = <<>> => count = model.num
  BY DEF PiperInv, TableInv
<1> QED BY <1>1, <1>2 DEF TableBounds, PastTable

\* Both invariants hold throughout.
LEMMA EnginesInv == Spec => [](PiperInv /\ SherpaInv)
<1>1. Init => PiperInv /\ SherpaInv
  BY InitPiperInv, InitSherpaInv DEF Init
<1>2. PiperInv /\ SherpaInv /\ [Next]_vars => PiperInv' /\ SherpaInv'
  <2> SUFFICES ASSUME PiperInv, SherpaInv, [Next]_vars PROVE PiperInv' /\ SherpaInv'
    OBVIOUS
  <2>1. [PiperNext]_piperEngineVars /\ [SherpaNext]_sherpaVars
    BY Zenon DEF Next, vars
  <2> QED BY <2>1, NextPiperInv, NextSherpaInv
<1> QED BY <1>1, <1>2, PTL DEF Spec

\* Both engines keep their types: what is converted fits the callback's
\* buffer, whatever the text, and the recognizer is never ahead of its input.
THEOREM EnginesTypeCorrect == Spec => []TypeOK
<1>1. PiperInv /\ SherpaInv => TypeOK
  BY DEF PiperInv, SherpaInv, TypeOK
<1> QED BY <1>1, EnginesInv, PTL

\* A speaker asked for by name is the one the model is run with, for every
\* configuration (piper.c:320-331 against piper_bridge.cpp:315).
THEOREM SpeakersAreHonoured == Spec => []SpeakerHonoured
<1>1. PiperInv => SpeakerHonoured
  BY DEF PiperInv
<1> QED BY <1>1, EnginesInv, PTL

\* The search of the speaker table stays within it unless its ids could not
\* be allocated and the configuration counts more speakers than it maps.
THEOREM TableStaysBounded == Spec => []TableBounds
  BY TableIsBounded, EnginesInv, PTL

\* No call leaves anything but its chunk on the heap, and at most one chunk
\* each, whatever fails.
THEOREM PiperHeapAccounted == Spec => []PiperHeap
<1>1. PiperInv => PiperHeap
  BY DEF PiperInv
<1> QED BY <1>1, EnginesInv, PTL

\* Transcripts cover what was said, for every frame and chunk size: the final
\* one all of it, a partial one all but less than a frame.
THEOREM TranscriptsCover == Spec => []TranscriptCovers
<1>1. SherpaInv => TranscriptCovers
  BY DEF SherpaInv
<1> QED BY <1>1, EnginesInv, PTL

\* Every way through the recognition callbacks releases what it took.
THEOREM HandlesAreReleased == Spec => []HandlesReleased
  BY HeldReleased, EnginesInv, PTL

\* The built-in engine is a text-to-speech callback as the server expects it:
\* its initial states are, and every step is one of the callback or none.
THEOREM PiperIsTtsCallback == Spec => PiperImplementsTts
<1>1. Init => PiperTts!Init
  <2> SUFFICES ASSUME Init PROVE PiperTts!Init
    OBVIOUS
  <2>1. /\ said = None /\ short = FALSE
        /\ spoken = [rc |-> "PIPER", audio |-> <<>>]
    BY Zenon DEF Init, PiperInit
  <2>2. spoken \in PiperTts!Failures
    BY <2>1 DEF PiperTts!Failures
  <2> QED BY <2>1, <2>2, Zenon DEF PiperTts!Init
<1>2. PiperInv /\ [Next]_vars => [PiperTts!Next]_PiperTts!vars
  <2> SUFFICES ASSUME PiperInv, [Next]_vars
               PROVE  [PiperTts!Next]_PiperTts!vars
    OBVIOUS
  <2>1. ASSUME UNCHANGED <<said, short, spoken>>
        PROVE  UNCHANGED PiperTts!vars
    BY <2>1, Zenon DEF PiperTts!vars
  <2>2. PiperNext \/ UNCHANGED piperEngineVars
    BY Zenon DEF Next, vars
  <2>3. CASE UNCHANGED piperEngineVars
    <3>1. UNCHANGED <<said, short, spoken>>
      BY <2>3, Zenon DEF piperEngineVars
    <3> QED BY <2>1, <3>1
  <2>4. CASE NoConfiguration \/ LoadTable \/ SynthFails \/ OpenSynth \/ Start
             \/ Chunk \/ DestroyPiper
    <3>1. UNCHANGED <<said, short, spoken>>
      BY <2>4, Zenon DEF NoConfiguration, LoadTable, SynthFails, OpenSynth, Start,
                         Chunk, DestroyPiper, callVars
    <3> QED BY <2>1, <3>1
  <2>5. CASE Speak
    <3>1. said = None
      BY <2>5 DEF Speak, PiperInv, AudioInv, Calling, PiperTypeOK
    <3>2. said' \in Speech /\ short' = FALSE /\ spoken' = spoken
      BY <2>5, Zenon DEF Speak
    <3> QED BY <3>1, <3>2, Zenon DEF PiperTts!Next, PiperTts!Ask
  <2>6. CASE (Alloc \/ Grow) /\ ppc' # "ready"
    <3>1. UNCHANGED <<said, short, spoken>>
      BY <2>6, Zenon DEF Alloc, Grow, Answer
    <3> QED BY <2>1, <3>1
  <2>7. ASSUME Ending PROVE said # None /\ said' = None /\ said \in Speech
    <3>1. ppc \in Calling /\ said' = None
      BY <2>7, EndingEffect
    <3> QED BY <3>1, PiperAssumption DEF PiperInv, AudioInv
  <2>8. CASE StartFails \/ ((Alloc \/ Grow) /\ ppc' = "ready")
    <3>1. said # None /\ said' = None
      BY <2>7, <2>8 DEF Ending
    <3>2. short' = short
      BY <2>8, Zenon DEF StartFails, Alloc, Grow
    <3>3. \E rc \in {"NOMEM", "PIPER"} : spoken' = [rc |-> rc, audio |-> <<>>]
      BY <2>8 DEF StartFails, Alloc, Grow, Answer
    <3>4. spoken' \in PiperTts!Failures
      BY <3>3 DEF PiperTts!Failures
    <3> QED BY <3>1, <3>2, <3>4, Zenon DEF PiperTts!Next, PiperTts!Answer
  <2>9. CASE NoChunk \/ Convert
    <3>1. said # None /\ said' = None /\ said \in Speech
      BY <2>7, <2>9 DEF Ending
    <3>2. short' = short
      BY <2>9, Zenon DEF NoChunk, Convert
    <3>3. said \in Seq(Int)
      BY <3>1, PiperAssumption
    <3>4. spoken' = [rc |-> "OK", audio |-> Heard(said)]
      <4>1. CASE NoChunk
        <5>1. ConvertAll(said) = <<>>
          BY <4>1 DEF NoChunk, PiperInv, AudioInv
        <5>2. Len(said) = 0
          BY <3>3, <5>1, ConvertedAll
        <5>3. said = <<>>
          BY <3>3, <5>2
        <5>4. Heard(said) = ConvertAll(<<>>)
          BY <3>3, <5>1, TwiceConverted
        <5>5. Heard(said) = <<>>
          BY <5>1, <5>3, <5>4
        <5> QED BY <4>1, <5>5 DEF NoChunk, Answer
      <4>2. CASE Convert
        <5>1. chunk = ConvertAll(said)
          BY <4>2 DEF Convert, PiperInv, AudioInv
        <5>2. ConvertAll(chunk) = Heard(said)
          BY <3>3, <5>1, TwiceConverted
        <5> QED BY <4>2, <5>2, Zenon DEF Convert, Answer
      <4> QED BY <2>9, <4>1, <4>2
    <3>5. spoken'.rc = "OK" /\ spoken'.audio = Heard(said)
      BY <3>4, Zenon
    <3> QED BY <3>1, <3>2, <3>5, Zenon
            DEF PiperTts!Next, PiperTts!Answer, PiperTts!Whole
  <2>10. CASE ChunkFails
    <3>1. said # None /\ said' = None /\ said \in Speech
      BY <2>7, <2>10 DEF Ending
    <3>2. short' = TRUE
      BY <2>10, Zenon DEF ChunkFails
    <3>3. spoken'.rc = "OK" /\ spoken'.audio = <<>>
      BY <2>10 DEF ChunkFails, Answer
    <3>4. Len(Heard(said)) \in Nat
      <4>1. said \in Seq(Int)
        BY <3>1, PiperAssumption
      <4>2. Heard(said) = ConvertAll(ConvertAll(said))
        BY <4>1, TwiceConverted
      <4>3. ConvertAll(said) \in Seq(Int)
        BY <4>1, ConvertedAll
      <4>4. ConvertAll(ConvertAll(said)) \in Seq(Int)
        BY <4>3, ConvertedAll
      <4> QED BY <4>2, <4>4
    <3>5. PiperTts!Prefix(<<>>, Heard(said))
      BY <3>4 DEF PiperTts!Prefix
    <3> QED BY <3>1, <3>2, <3>3, <3>5, Zenon
            DEF PiperTts!Next, PiperTts!Answer, PiperTts!Part
  <2>11. CASE PiperNext
    <3>1. CASE Alloc \/ Grow
      BY <2>6, <2>8, <3>1, Zenon
    <3>2. CASE StartFails
      BY <2>8, <3>2
    <3> QED BY <2>4, <2>5, <2>9, <2>10, <2>11, <3>1, <3>2 DEF PiperNext
  <2> QED BY <2>2, <2>3, <2>11
<1> QED BY <1>1, <1>2, EnginesInv, PTL DEF Spec, PiperImplementsTts, PiperTts!Spec

=============================================================================
