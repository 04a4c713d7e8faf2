---------------------------- MODULE PiperEngine ----------------------------
(***************************************************************************)
(* The built-in text-to-speech engine: piper.c, which keeps the speaker    *)
(* table and answers the server's callback, and piper_bridge.cpp, which    *)
(* runs the model.  The server calls it from one thread, a call at a time. *)
(*                                                                         *)
(* A text is the sequence of samples the model speaks it with, in units of *)
(* 1/Scale; a sample may lie outside -Scale .. Scale.                      *)
(***************************************************************************)
EXTENDS Integers, Sequences, FiniteSets

CONSTANTS
  None,                     \* no text, no speaker, no name, no sid input
  Speech,                   \* the texts
  Scale,                    \* 32768
  FirstCapacity,            \* two seconds of samples
  Models,                   \* the voices' configurations (.onnx.json)
  Speakers,                 \* the names clients ask for
  MaxPiperFaults,           \* bound on the failures
  MaxUtterances             \* bound on the calls

ASSUME PiperAssumption ==
  /\ Scale \in Nat \ {0} /\ FirstCapacity \in Nat
  /\ MaxPiperFaults \in Nat /\ MaxUtterances \in Nat
  /\ None \notin Speech /\ None \notin Speakers
  /\ \A t \in Speech : t \in Seq(Int)

\* The numbers of a configuration are whatever the file says; the keys of a
\* JSON object are never NULL.
ASSUME ModelsAssumption ==
  \A m \in Models :
    /\ m.num \in Int /\ Len(m.map) \in Nat /\ DOMAIN m.map = 1 .. Len(m.map)
    /\ \A i \in DOMAIN m.map : m.map[i].id \in Int /\ m.map[i].name # None

VARIABLES
  ppc,                      \* where the engine is
  model,                    \* the configuration: num_speakers, speaker_id_map
  count, names, ids,        \* num_speakers and the table; a NULL array is <<>>
  said, speaker,            \* the text and the speaker of the call
  sid,                      \* the speaker id the model was run with
  audioBuf,                 \* the synthesizer's audio_buf
  chunk,                    \* the samples of the chunk, before conversion
  capacity,                 \* of the callback's buffer, 0 when there is none
  spoken,                   \* what the callback returned last
  short,                    \* history: the chunk could not be allocated
  pheap,                    \* history: allocations in use, by what they are
  pfaults, utterances       \* history: failures, calls

piperEngineVars ==
  <<ppc, model, count, names, ids, said, speaker, sid, audioBuf, chunk,
    capacity, spoken, short, pheap, pfaults, utterances>>

Things == {"engine", "names", "name", "ids", "voice", "language", "synth",
           "synth voice", "synth language", "session", "chunk", "pcm"}

Nothing == [t \in Things |-> 0]

\* start is none, or gone where the engine is not configured.
PiperInit(start) ==
  /\ ppc = start /\ model \in Models
  /\ count = 0 /\ names = <<>> /\ ids = <<>>
  /\ said = None /\ speaker = None /\ sid = None
  /\ audioBuf = <<>> /\ chunk = <<>> /\ capacity = 0
  /\ spoken = [rc |-> "PIPER", audio |-> <<>>] /\ short = FALSE
  /\ pheap = Nothing /\ pfaults = 0 /\ utterances = 0

Fails(n) == pfaults + n <= MaxPiperFaults /\ pfaults' = pfaults + n

tableVars == <<model, count, names, ids>>
callVars  == <<said, speaker, sid, audioBuf, chunk, capacity, spoken, short>>

-----------------------------------------------------------------------------
(* wyoming_piper_create and piper_create.                                  *)

\* No memory, or a configuration that cannot be read or parsed: whatever was
\* allocated has been freed.
NoConfiguration ==
  /\ ppc = "none" /\ Fails(1)
  /\ ppc' = "gone"
  /\ UNCHANGED <<tableVars, callVars, pheap, utterances>>

\* Mutant: num_speakers is the configuration's.
TableCountGiven(filled) == model.num

TableCount(filled) == IF filled THEN Len(model.map) ELSE model.num

\* The speaker table.  num_speakers becomes the size of the map only when
\* both arrays could be allocated; a name may be NULL.
LoadTable ==
  /\ ppc = "none"
  /\ LET map == model.map
     IN  \E badNames, badIds \in BOOLEAN, badName \in SUBSET DOMAIN map :
           LET filled == map # <<>> /\ ~badNames /\ ~badIds
           IN  /\ map = <<>> => ~badNames /\ ~badIds
               /\ ~filled => badName = {}
               /\ Fails((IF badNames THEN 1 ELSE 0) + (IF badIds THEN 1 ELSE 0)
                          + Cardinality(badName))
               /\ count' = TableCount(filled)
               /\ names' = IF map = <<>> \/ badNames THEN <<>>
                           ELSE [i \in DOMAIN map |->
                                   IF filled /\ i \notin badName THEN map[i].name
                                                                 ELSE None]
               /\ ids' = IF map = <<>> \/ badIds THEN <<>>
                         ELSE [i \in DOMAIN map |->
                                 IF filled THEN map[i].id ELSE 0]
               /\ pheap' = [pheap EXCEPT
                     !["engine"] = 1, !["voice"] = 1, !["language"] = 1,
                     !["names"] = IF names' = <<>> THEN 0 ELSE 1,
                     !["ids"] = IF ids' = <<>> THEN 0 ELSE 1,
                     !["name"] = IF filled THEN Len(map) - Cardinality(badName)
                                           ELSE 0]
  /\ ppc' = "table"
  /\ UNCHANGED <<model, callVars, utterances>>

\* wyoming_piper_destroy goes through the names up to num_speakers.
Freed == {"engine", "voice", "language", "names", "ids", "name"}

FreeEngine(h) == [t \in Things |-> IF t \in Freed THEN 0 ELSE h[t]]

\* piper_create: espeak or the configuration fail, and the synthesizer is
\* deleted; or the model cannot be loaded, and with the synthesizer only its
\* own storage goes, not the language it copied.
SynthFails ==
  /\ ppc = "table" /\ Fails(1)
  /\ ppc' = "gone"
  /\ \E late \in BOOLEAN :
       pheap' = FreeEngine([pheap EXCEPT !["synth language"] =
                                             IF late THEN 1 ELSE 0])
  /\ UNCHANGED <<tableVars, callVars, utterances>>

OpenSynth ==
  /\ ppc = "table" /\ ppc' = "ready"
  /\ pheap' = [pheap EXCEPT !["synth"] = 1, !["session"] = 1,
                            !["synth voice"] = 1, !["synth language"] = 1]
  /\ UNCHANGED <<tableVars, callVars, pfaults, utterances>>

-----------------------------------------------------------------------------
(* The callback, piper_synthesize_start and piper_synthesize_next.         *)

Speak ==
  /\ ppc = "ready" /\ utterances < MaxUtterances
  /\ \E t \in Speech, sp \in Speakers \cup {None} :
       said' = t /\ speaker' = sp
  /\ utterances' = utterances + 1
  /\ short' = FALSE /\ ppc' = "start"
  /\ UNCHANGED <<tableVars, sid, audioBuf, chunk, capacity, spoken, pheap,
                 pfaults>>

Answer(rc, audio) ==
  /\ ppc' = "ready" /\ said' = None /\ speaker' = None
  /\ spoken' = [rc |-> rc, audio |-> audio]
  /\ chunk' = <<>> /\ capacity' = 0

\* wyoming_piper_speaker_id: the table is searched up to num_speakers, or the
\* name.  A negative id, or no name, leaves the default 0.
Named(sp) == {i \in DOMAIN names : names[i] = sp}

\* Mutant: the place in the table is taken for the id.
SpeakerIndex(sp) ==
  IF sp = None \/ count <= 1 \/ names = <<>> THEN 0
  ELSE IF Named(sp) = {} THEN 0 ELSE CHOOSE i \in Named(sp) : TRUE

SpeakerId(sp) ==
  IF sp = None \/ count <= 1 \/ names = <<>> THEN 0
  ELSE IF Named(sp) = {} THEN 0
  ELSE LET id == ids[CHOOSE i \in Named(sp) : \A j \in Named(sp) : i <= j]
       IN  IF id >= 0 THEN id ELSE 0

\* Truncation of n/d towards zero, d positive.
Trunc(n, d) == IF n >= 0 THEN n \div d ELSE -((-n) \div d)

Clip(x) == IF x > Scale THEN Scale ELSE IF x < -Scale THEN -Scale ELSE x

\* (int16_t)(s * 32767.0f) for the clipped s = x / Scale.
ToInt16(x) == Trunc(Clip(x) * (Scale - 1), Scale)

ConvertAll(s) == [i \in DOMAIN s |-> ToInt16(s[i])]

\* Mutant: the samples are added to what is there.
NewAudioAppends(t) == audioBuf \o ConvertAll(t)

\* audio_buf is cleared, and resized for this text.
NewAudio(t) == ConvertAll(t)

\* No phonemes, or an exception: audio_buf stays empty.
StartFails ==
  /\ ppc = "start"
  /\ \/ said = <<>> /\ pfaults' = pfaults
     \/ said # <<>> /\ Fails(1)
  /\ audioBuf' = <<>>
  /\ Answer("PIPER", <<>>)
  /\ UNCHANGED <<tableVars, sid, short, pheap, utterances>>

\* The bridge goes by its own num_speakers, the one in the configuration.  The
\* model may speak phonemes with no sample at all.
Start ==
  /\ ppc = "start"
  /\ sid' = IF model.num > 1 THEN SpeakerId(speaker) ELSE None
  /\ audioBuf' = NewAudio(said)
  /\ ppc' = "alloc"
  /\ UNCHANGED <<tableVars, said, speaker, chunk, capacity, spoken, short,
                 pheap, pfaults, utterances>>

Alloc ==
  /\ ppc = "alloc"
  /\ \/ /\ capacity' = FirstCapacity
        /\ pheap' = [pheap EXCEPT !["pcm"] = 1]
        /\ ppc' = "next"
        /\ UNCHANGED <<said, speaker, chunk, spoken, pfaults>>
     \/ Fails(1) /\ Answer("NOMEM", <<>>) /\ UNCHANGED pheap
  /\ UNCHANGED <<tableVars, sid, audioBuf, short, utterances>>

\* Mutant: samples are compared with bytes.
TooLongBytes == Len(audioBuf) > 2 * capacity

TooLong == Len(audioBuf) > capacity

\* The only chunk: audio_buf as floats.
Chunk ==
  /\ ppc = "next" /\ audioBuf # <<>>
  /\ chunk' = audioBuf /\ audioBuf' = <<>>
  /\ pheap' = [pheap EXCEPT !["chunk"] = @ + 1]
  /\ ppc' = IF TooLong THEN "grow" ELSE "convert"
  /\ UNCHANGED <<tableVars, said, speaker, sid, capacity, spoken, short,
                 pfaults, utterances>>

\* The caller takes the buffer and frees it.
HandOver == pheap' = [pheap EXCEPT !["pcm"] = 0]

\* PIPER_DONE at once: the answer is good, and empty.
NoChunk ==
  /\ ppc = "next" /\ audioBuf = <<>>
  /\ Answer("OK", <<>>) /\ HandOver
  /\ UNCHANGED <<tableVars, sid, audioBuf, short, pfaults, utterances>>

\* No memory for the chunk: the loop ends as at the end of the audio.
ChunkFails ==
  /\ ppc = "next" /\ audioBuf # <<>> /\ Fails(1)
  /\ short' = TRUE
  /\ Answer("OK", <<>>) /\ HandOver
  /\ UNCHANGED <<tableVars, sid, audioBuf, utterances>>

\* Mutant: the buffer is not freed when it cannot grow.
GrowForgets ==
  /\ ppc = "grow"
  /\ \/ /\ capacity' = 2 * Len(chunk) /\ ppc' = "convert"
        /\ UNCHANGED <<said, speaker, chunk, spoken, pheap, pfaults>>
     \/ Fails(1) /\ Answer("NOMEM", <<>>) /\ UNCHANGED pheap
  /\ UNCHANGED <<tableVars, sid, audioBuf, short, utterances>>

Grow ==
  /\ ppc = "grow"
  /\ \/ /\ capacity' = 2 * Len(chunk) /\ ppc' = "convert"
        /\ UNCHANGED <<said, speaker, chunk, spoken, pheap, pfaults>>
     \/ Fails(1) /\ Answer("NOMEM", <<>>) /\ HandOver
  /\ UNCHANGED <<tableVars, sid, audioBuf, short, utterances>>

\* The floats become 16 bit samples once more; the chunk's are not freed.
Convert ==
  /\ ppc = "convert"
  /\ Answer("OK", ConvertAll(chunk)) /\ HandOver
  /\ UNCHANGED <<tableVars, sid, audioBuf, short, pfaults, utterances>>

DestroyPiper ==
  /\ ppc = "ready" /\ ppc' = "gone"
  /\ pheap' = [FreeEngine(pheap) EXCEPT !["synth"] = 0, !["session"] = 0,
                                        !["synth voice"] = 0,
                                        !["synth language"] = 0]
  /\ UNCHANGED <<tableVars, callVars, pfaults, utterances>>

PiperNext ==
  \/ NoConfiguration \/ LoadTable \/ SynthFails \/ OpenSynth
  \/ Speak \/ StartFails \/ Start \/ Alloc \/ Chunk \/ NoChunk
  \/ ChunkFails
  \/ Grow \/ Convert \/ DestroyPiper

-----------------------------------------------------------------------------
(* Properties.                                                             *)

\* Type correctness; what is converted fits the callback's buffer.
PiperTypeOK ==
  /\ ppc \in {"none", "table", "ready", "start", "alloc", "next", "grow",
              "convert", "gone"}
  /\ model \in Models /\ count \in Int
  /\ said \in Speech \cup {None} /\ speaker \in Speakers \cup {None}
  /\ capacity \in Nat
  /\ ppc = "convert" => Len(chunk) <= capacity
  /\ \A i \in DOMAIN audioBuf : audioBuf[i] \in -Scale .. Scale - 1
  /\ spoken.rc \in {"OK", "NOMEM", "PIPER"} /\ short \in BOOLEAN
  /\ pheap \in [Things -> Nat]
  /\ pfaults \in 0 .. MaxPiperFaults /\ utterances \in Nat

\* What two conversions make of a text: each sample is clipped and comes two
\* steps nearer to zero, which it does not pass.
Heard(t) ==
  LET Abs(x) == IF x < 0 THEN -x ELSE x
      Size(x) == IF Abs(x) > Scale THEN Scale ELSE Abs(x)
      Less(x) == IF Size(x) > 2 THEN Size(x) - 2 ELSE 0
  IN  [i \in DOMAIN t |-> IF t[i] < 0 THEN -Less(t[i]) ELSE Less(t[i])]

PiperTts == INSTANCE TtsCallback
              WITH Text <- Speech, Audio <- Heard, Null <- None,
                   Errors <- {"NOMEM", "PIPER"},
                   asked <- said, disturbed <- short, answer <- spoken

\* The callback keeps the contract handle_client relies on: WYOMING_OK comes
\* with every sample of this call's text and none of another's, unchanged but
\* for clipping and two truncations, also after calls that failed half way;
\* only where there is no memory for the chunk is it less
\* (piper.c:217-278, piper_bridge.cpp:248-387).
PiperImplementsTts == PiperTts!Spec

\* The count is that of the map, and no id is one that means there is none.
Consistent ==
  /\ model.num = Len(model.map)
  /\ \A i \in DOMAIN model.map : model.map[i].id >= 0

IdOf(sp) == {model.map[i].id : i \in {j \in DOMAIN model.map :
                                        model.map[j].name = sp}}

\* The model is run with the id of the speaker asked for, through two modules
\* that count the speakers differently: never with another's, and with the
\* default only for a name the map does not have, a copy that failed or a
\* configuration that contradicts itself (piper.c:172-196, 235-238, 320-331,
\* piper_bridge.cpp:315).
SpeakerHonoured ==
  ppc \in {"alloc", "next", "grow", "convert"} =>
    /\ sid \in {None, 0} \cup IdOf(speaker)
    /\ pfaults = 0 /\ Consistent /\ Len(model.map) > 1 /\ IdOf(speaker) # {}
         => sid \in IdOf(speaker)

\* The search of the table, and its release, may go past its end.
PastTable == names # <<>> /\ count > Len(names)

\* The table is as long as num_speakers says, unless the array of ids could
\* not be allocated and the configuration counts more speakers than it maps
\* (piper.c:172-196, 325, 344).
TableBounds ==
  /\ PastTable => ids = <<>> /\ model.num > Len(model.map)
  /\ ids # <<>> /\ names # <<>> => DOMAIN ids = DOMAIN names

Chunks == [t \in Things |-> IF t = "chunk" THEN pheap["chunk"] ELSE 0]

\* Between calls nothing of a call is held but its chunk, which nobody frees:
\* one for each call that got as far; once the engine is gone these are left,
\* and the language of a synthesizer that could not load its model
\* (piper.c:251-278, 333-351, piper_bridge.cpp:167, 229-232).
PiperHeap ==
  /\ ppc \in {"ready", "gone"} => pheap["pcm"] = 0
  /\ pheap["chunk"] <= utterances
  /\ ppc = "gone" =>
       \/ pheap = Chunks
       \/ utterances = 0 /\ pfaults > 0
            /\ pheap = [Chunks EXCEPT !["synth language"] = 1]

-----------------------------------------------------------------------------
(* The inductive invariant.                                                *)

Calling == {"start", "alloc", "next", "grow", "convert"}

\* The table, as far as its arrays and names could be allocated.
TableInv ==
  /\ Len(names) \in Nat /\ DOMAIN names = 1 .. Len(names)
  /\ Len(ids) \in Nat /\ DOMAIN ids = 1 .. Len(ids)
  /\ names # <<>> => Len(names) = Len(model.map)
  /\ ids # <<>> => Len(ids) = Len(model.map)
  /\ names # <<>> /\ ids # <<>> =>
       /\ count = Len(model.map)
       /\ \A i \in DOMAIN names : /\ ids[i] = model.map[i].id
                                  /\ names[i] \in {None, model.map[i].name}
  /\ names # <<>> /\ ids = <<>> =>
       count = model.num /\ \A i \in DOMAIN names : names[i] = None
  /\ ppc \in Calling \cup {"table", "ready"} /\ pfaults = 0 /\ model.map # <<>> =>
       /\ names # <<>> /\ ids # <<>>
       /\ \A i \in DOMAIN names : names[i] = model.map[i].name

\* The samples of the call: once converted up to the chunk.
AudioInv ==
  /\ audioBuf \in Seq(Int) /\ chunk \in Seq(Int)
  /\ said \in Speech <=> ppc \in Calling
  /\ ppc \in {"alloc", "next"} => audioBuf = ConvertAll(said)
  /\ ppc \in {"grow", "convert"} => chunk = ConvertAll(said)

\* What is allocated.
HeapInv ==
  /\ ppc \in {"none", "table"} => utterances = 0
  /\ ppc = "none" => pheap = Nothing
  /\ ppc = "table" => \A t \in Things \ Freed : pheap[t] = 0
  /\ ppc \in {"ready", "start", "alloc"} => pheap["pcm"] = 0
  /\ ppc \in {"start", "alloc", "next"} => pheap["chunk"] < utterances

PiperInv ==
  /\ PiperTypeOK
  /\ TableInv /\ AudioInv /\ HeapInv /\ PiperHeap /\ SpeakerHonoured

=============================================================================
