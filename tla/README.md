# TLA+ verification of libwyoming

libwyoming is a C library for the Wyoming voice protocol: events (a JSON header
line, an optional JSON data block, an optional binary payload) over TCP, a
client API, a single-threaded server with pluggable TTS and ASR callbacks, and
a daemon that puts Piper and Sherpa-ONNX behind it. This directory models the
protocol layer, the server, the client calls, the registry, the engines and the
daemon, checks the models with TLC and proves with TLAPS that every safety
property and every refinement the passing runs check holds for all values of the
constants.

Paths below are relative to the repository root.

## 1. Inventory

| Component | State | Operations | Interacts through |
|---|---|---|---|
| Event framing, `src/event.c`, `src/internal.h` | `wyoming_iobuf_t` (8 KiB buffer, `pos`, `len`); the event under construction | `iobuf_read_line`, `iobuf_read_exact`, `wyoming_event_read_iobuf`, `write_all`, `wyoming_event_write_fd` | a socket; called by handler and client |
| Client handler, `src/server.c:392-777` | the connection's iobuf and receive timeout; `got_stop`, the PCM buffer, the stream context | dispatch of describe, synthesize, transcribe, transcribe-start; the batch and the stream loop; the drain | events with the peer; the engine callbacks; `srv->running` |
| Server loop, `src/server.c:65-138, 259-302, 783-894` | `running`, the stop pipe, the listening socket, the ready descriptors | `create`, `run` (epoll or poll), `stop` (from a signal handler or another thread), `destroy` | calls the handler; shares `running` and the pipe with `stop` |
| Service registry, `src/server.c:140-257, 306-386` | voices, speakers, models in fixed arrays | `set_tts`, `add_voice`, `add_speaker`, `set_asr`, `add_asr_model`, `set_asr_streaming`, `build_info_data` | read by `describe` |
| Client library, `src/client.c` | a connection: socket and iobuf | `connect`, `synthesize(_pcm)`, `describe`, `transcribe_pcm`, `transcribe_start/chunk/stop`, `close` | events with the server |
| Daemon, `tools/wyoming-server.c` | `g_server`, the configuration, the installed handlers | `main`, `handle_signal` | creates, runs and destroys the server; stopped by signals |
| Piper subprocess, `tools/wyoming-server.c:73-161` | two pipes, a child, a growing buffer | `piper_tts_callback` | called by the handler |
| Piper engine, `src/piper.c`, `src/piper_bridge.cpp` | speaker table, the synthesizer's `audio_buf` | create, callback, destroy | called by the handler; external inference library |
| Sherpa engine, `src/sherpa.c` | recognizer, stream contexts | create, batch and streaming callbacks, destroy | called by the handler; external recognizer |
| Configuration, `src/wyoming_config.c` | the entries of the INI file | load, `get`, `get_bool` | read by the daemon |
| Logging, CLI tools, cJSON | | | |

Hard behaviours: the byte stream can be cut anywhere, and a payload can look
like a frame; a receive timeout can strike in the middle of an event; `stop`
races `run` and the handler through one volatile flag and one pipe; a stream
context has to survive every way a stream can end; writes have no timeout and
the server has one thread; a signal can interrupt every system call of the
subprocess callback; two pipes of limited size connect two processes that each
may wait for the other; every allocation can fail half way through an
operation. `PROJECT.json` lists these hazards with their lines.

What makes each part correct:

* framing: whole events, in order, none lost or duplicated, until a failed read
  drops bytes; end of file only after the last event; no waiting for bytes that
  are already buffered;
* handler: whole answers, contexts created and destroyed in pairs, PCM within
  its buffer, the drain's timeout confined to the drain, a quick end after a
  stop, and an end at all;
* loop: a stop is never lost, few clients are accepted after it, and `run`
  returns with nothing left open, and for no other reason than a stop;
* registry: limits respected, and `describe` returns what was registered;
* client: every call returns, takes only answers to its own request, and leaves
  nothing of it behind;
* engines: an answer that is good has all the audio of its text, or a transcript
  of all the audio; the speaker is the one asked for; what is allocated is
  released;
* daemon: it offers what its file configures, a signal ends it, and a request
  ends.

## 2. Modules

| Module | Role |
|---|---|
| `EventChannel` | abstract specification: a FIFO channel of whole events that may lose step once and for all |
| `EventStream` | `event.c`, byte by byte; refines `EventChannel` |
| `MCEventStream` | a small instance of `EventStream`: bytes, headers and events |
| `ClientHandler` | `handle_client` against an arbitrary peer and arbitrary engines |
| `WyomingServer` | `run` and `stop` around `ClientHandler`, which it extends |
| `WyomingSession` | the client library's calls composed with `ClientHandler` over two queues |
| `ServiceRegistry` | the registration calls, `build_info_data` and the client's parsing of it |
| `TtsCallback` | abstract specification: what the handler relies on in a `wyoming_tts_fn` |
| `PiperProcess` | the subprocess callback and the piper process; refines `TtsCallback` |
| `WyomingDaemon` | configuration, `main` and signals around `PiperProcess`, which it extends |
| `MCWyomingDaemon` | configuration files and texts for it |
| `PiperEngine` | `piper.c` and `piper_bridge.cpp`; refines `TtsCallback` |
| `SherpaEngine` | `sherpa.c` |
| `Engines`, `MCEngines` | a server with one of the two, and a small instance |
| `Selection` | what is left of a sequence when some of its elements are dropped; used by `ServiceRegistry` and `PiperProcess` |
| `EventStream_proofs`, `ClientHandler_proofs`, `WyomingServer_proofs`, `WyomingSession_proofs`, `ServiceRegistry_proofs`, `Engines_proofs`, `WyomingDaemon_proofs` | theorems and proofs about the module of the same name; `WyomingDaemon_proofs` has those of `PiperProcess` too |
| `Selection_proofs` | the lemmas about `Selection` these need |

Operators named as *Mutant* in a comment are not part of the specifications:
each is a wrong variant of the definition that follows it, kept to show that a
property notices the difference.

### EventStream

`wire` holds every byte the kernel has accepted; `kpos` counts those `read()`
has returned, so at most `SockBuf` lie between. `buf`, `pos` are
`io->buf[0..len-1]` and `io->pos`; `rphase` says where
`wyoming_event_read_iobuf` is: in the line, the data block or the payload.
`acc` is the dynamic line or the destination of `iobuf_read_exact`. Each
`read()`, `write()` and hand-over between them is an action: `WriteSome(n)` is
one `write()` of one segment, `Fill(n)` and `ReadDirect(n)` are one `read()`,
`Save`, `ScanLine` and `Drain` the copies out of `io->buf`. The error returns
are `ReadEof`, `ReadIoError` (timeout or reset), `NoMem` and `ParseNoMem` (no
memory inside `cJSON_Parse`, which the code reports as a parse error); each frees
what was accumulated, which is where bytes are lost.

JSON is abstracted to what matters here: a header is one line that determines
its fields even if garbage follows (cJSON ignores it), and no JSON object is a
proper prefix of another. These are the named assumptions of the module; the
instance satisfies them. `synced` is a history variable: it falls when a call
fails after it consumed bytes. EINTR is a stutter. The writer never drops a
header field for want of memory (`cJSON_AddNumberToObject` is not checked by
the code and is assumed to succeed once the header object exists). Fields of the
data block can be lost in that way: see `WyomingSession`.

### ClientHandler

`pc` follows `handle_client` from one blocking or branching point to the next.
A read gives any event of `Events` or fails; events are abstracted to type,
"has a text" and payload size. `todo` holds the answer's events not yet given
to `wyoming_event_write_fd`; `Write` gives the next one and blocks while `room`
is 0, since the socket has no send timeout. `WriteFails` is the early return of
the writer for want of memory, before any byte is out; no caller looks at its
result, so `answer` records what was given to the writer, not what arrived. An
event that goes out without a part of its data is still that event here;
`WyomingSession` tells the difference, which only a client sees. `gotStop` keeps which
event set `got_stop`; the code keeps only the bit, and `gotStop # "no"` is that
bit. `due`, `answer`, `late` and `nread` are history.

`pcm`, `cap`, `total` are the batch buffer with its real growth rule;
`MinCap` stands for 16000. The format fields and the language are data no
property depends on. In `transcribe`'s early exit the language string leaks
(`src/server.c:554-556` frees the event only); memory that no later step can
see is not modelled.

### WyomingServer

Extends `ClientHandler`: `Handle` is one step of the handler while `runpc` is
`"handle"`, and `Open` resets the connection's variables on `accept`. `stop` is
two steps, `StopClears` and `StopWrites`, with anything in between; a stop
inside a signal handler is the special case in which the loop does not move in
between. `pipe` is a Boolean because the code never reads the pipe: one byte or
many are the same. `Orders` gives the orders in which the loop may look at the
ready descriptors, for epoll (any) and poll (the pipe first). `LooksOn` is the
condition under which it looks at the next: the epoll loop tests `running` each
time, the poll build does not test it between `poll` and `accept`.

### WyomingSession

Extends `ClientHandler` and ties its reads and writes to two queues: a read of
the handler returns the head of `toServer`, its writes append to `toClient`,
and taking an answer out gives the handler its `room` back. A library call is
the sequence of events it writes (`Scripts`) followed by its read loop
(`TakeInfo`, `TakeAudio`, `TakeTranscript`, `TakeFinal`). The program follows
`wyoming.h:139-141` (start, chunks, stop) and is otherwise free in the calls it
makes, also after one has failed. `Forms` is what the unchecked `cJSON_Create*`
and `cJSON_Add*` calls of the handler can leave of an event: a partial transcript
without `is_partial`, or a transcript without data. The former matters:
`wyoming_transcribe_stop` takes it for the final transcript and returns
`WYOMING_OK` (`client.c:683-689`), and the rest of the stream's transcripts are
left for the next call. What a lost text, format or description changes is not
read by the control flow; a request that loses its text (`client.c:89`) is one
the handler does not answer, like one its engine refuses. `clean` falls when a
call fails and when a stop is misled in this way; what the session promises of
answers, it promises while `clean`. `ReadError` is a read of the library that
fails other than by the end of the connection: no memory, or a reset. Events and answers carry the number of the
request they belong to, which is history: the protocol has no such field. PCM
and texts are left out. The handler's reads fail only on an empty queue or a
reset connection: a timeout inside an event, which costs the handler its place
in the stream, is `EventStream`'s subject and ends what is promised here.
`wyoming_synthesize`, `wyoming_read_event` and `wyoming_write_event` on their
own are the halves of the calls above.

### ServiceRegistry

`voices` and `models` are the used parts of the fixed arrays, `tts` and `asr`
the two services. A string is the pair of the call that gave it and its place
among that call's arguments, so that every string in an answer can be traced;
a failed `strdup` is `Null`. Each registration call is one action with the
choice of which of its copies fail; a refused call (no room, or a NULL name)
changes nothing. `BuildInfo` and `DescribeInfo` are pure operators, because
`describe` changes neither side: cJSON drops an item made from NULL, so a
language that could not be copied is missing from its array, while a voice or a
speaker without a name keeps its place (`ElementsAt` of module `Selection` is
what remains). `DescribeInfo(bad)` is the client's
`wyoming_info_t` if its allocation at `bad` fails. `heap` and `log` are history:
the strings in use, and the accepted calls, from which `Said` derives what a
client ought to be told without looking at the arrays. An allocation of cJSON that
fails inside `build_info_data` (`server.c:306-386`) drops the item it was for, or
what hangs below it, and nothing else; it is not modelled. Description and version
are treated in the code exactly like name and are left out. What the client
allocates is not accounted for (`wyoming_info_free` is not modelled).

### TtsCallback

One call at a time, answered by an error and no audio, or by OK and the audio of
the text asked for: all of it, or a beginning of it if the call was disturbed.
Both text-to-speech engines are shown to implement it.

### PiperProcess and WyomingDaemon

`PiperProcess` has the two processes of `piper_tts_callback`: the parent (`tpc`)
step by step from `pipe()` to `waitpid`, and the child, which is our reading of
piper's behaviour and marked external: it speaks its input line by line and
reads no further line before the audio of the last is written. `fds` and `cfds`
are the pipe ends each holds, and end of file and EPIPE follow from them. A text
is a sequence of letters and newlines; a letter is spoken by one sample of two
bytes that carry it, so that audio can be compared with its text. `Interrupt` is
EINTR, or a short write, in whichever call the parent sleeps in; `waitpid` then
leaves `status` uninitialized, which is a choice of any status. `lost` and
`zombies` count what is never closed and never waited for. A child that is left
behind is forgotten: it holds no end of any later pipe.

`WyomingDaemon` runs `main`: the loader line by line, `wyoming_server_create`,
the engines, `g_server`, the two `sigaction` calls, the server's loop, destroy
and exit. The loop and `handle_client` are reduced to the places where a signal
can find the thread waiting (`conn`): the read of a request, which ends after the
socket's timeout at the latest, the callback, and the write of the answer, which
has no timeout and goes on after EINTR. Their full form is `ClientHandler` and
`WyomingServer`, where the poll build is too. A signal kills before its `sigaction`
and runs `handle_signal` after it, at any step. Both optional engines are taken
as built in. A file is a sequence of headers, entries and comments; a value is
one of the values `main` compares with, quoted or not. `ServesConfiguration`
compares the engines with a reading of the file that is stated on the file
itself (`SectionOf`, `Means`), not on the loader's array. `DaemonAssumption`
says what a line may hold: a value is a string, never NULL, and one that begins
with a quote is told from the rest by `quoted`.

### Engines

`PiperEngine` keeps the table of speakers with the two counts of speakers the
code has, the synthesizer's `audio_buf`, the callback's buffer and, as history,
the number of allocations by kind. A text is the sequence of samples it is spoken
with, in units of 1/`Scale`; `ToInt16` is the code's clip, scaling and
truncation, applied twice as in the code, and `Heard` says independently what
comes out. Reading past the table (`PastTable`) is not given an outcome: the
property says when it can happen. `SherpaEngine` counts samples: `fed` and
`done` are the recognizer's input and progress, a transcript is the number of
samples it covers, and the recognizer is external: an online one is ready when
it has a frame, or at the end with less. `sheap` is what is held: the floats and
the result of each call as well as the handles that live longer. Endpoint detection is configured in the
code but never asked for. `Engines` takes one engine at a time: the server has
one thread, and the engines share nothing.

## 3. Runs

| Run | Result |
|---|---|
| `event_stream` | TypeOK, BytesInOrder, DeliveredInOrder, EofAfterLastEvent and the refinement of EventChannel hold; 661,004 states |
| `event_stream_live` | EventsArrive holds; 92,150 states |
| `client_handler` | HandlerTypeOK, AnswersComplete, ContextLifetime, PcmFits, TimeoutRestored, StopIsPrompt hold, and HandlerReturns for a peer that reads its answers; 15,602 states |
| `wyoming_server` | StopAdmitsFew, CleanReturn, ReturnsForAStop and StopEndsRun hold in the epoll build; 498,809 states. The poll build and its tighter bound are covered by the theorems |
| `wyoming_session` | OwnAnswers, CallsEndBoth, RequestsDispatched, OnlyStreamsBlock and CallsReturn hold; 1,769,409 states |
| `registry` | TypeOK (arrays within bounds), HeapAccounted, DescribeExact, DescribeNeverWrong hold; 871,676 states |
| `engines` | TypeOK, SpeakerHonoured, TableBounds, PiperHeap, TranscriptCovers, HandlesReleased and the refinement of TtsCallback hold; 297,414 states |
| `daemon` | TypeOK, ServesConfiguration, StuckOnlyOnLongLines, LeaksExplained, the refinement of TtsCallback, SignalEndsDaemon and RequestReturns hold; 217,165 states |
| `client_handler_blocked` | violated: a peer that does not read blocks the handler for good, although `server.c:397` sets a timeout "so misbehaving clients don't block forever" |
| `client_handler_drain` | violated: after a `transcribe-stop` the drain swallows the next request, although `server.c:751` speaks of `audio-stop` only |
| `wyoming_server_rerun` | violated: a second `run` returns at once, where `README.md:259` says it blocks until `stop` |
| `daemon_signal` | violated: a signal between `wyoming_server_destroy` and exit makes `handle_signal` stop a freed server, where `README.md:11` says "signal-safe shutdown" |

Some of the passing properties state what is wrong along with what is right,
because the code is so: `OwnAnswers`, `CallsEndBoth`, `RequestsDispatched` and
`OnlyStreamsBlock` end with a stop that took an unmarked partial transcript for
the final one, as they end with a failed call, `SignalEndsDaemon` names the two
things that can keep a daemon from ending, `StuckOnlyOnLongLines` says on which texts callback and
piper can wait for each other for ever, `LeaksExplained` when descriptors and
children are left behind, `PiperHeap` that the chunk of every request is never
freed, and `TableBounds` when the speaker table is overrun. `SpeakerHonoured`
excepts configurations that contradict themselves, and the refinements of
`TtsCallback` a call that was disturbed, which may return a beginning of the
audio as if it were all.

### Bounds

* `MCEventStream`: the read buffer (3) and the socket buffer (4) are smaller
  than every frame (5 to 7 bytes), so each frame is cut in every possible way;
  one payload spells a header and a newline, one data block and payload start
  like other parts of a frame. Three events let a reader that lost step meet a
  whole later frame. The live run uses two.
* `ClientHandler`: six events are enough for a whole transcription followed by
  another request; payload sizes 0, 1, 2 and 6 cover empty, odd, one sample and
  more than the minimal buffer of 2 samples, so the buffer grows more than
  once; the answer to a synthesis (up to 4 events) is larger than `OutCap` = 2.
* `WyomingServer`: two stops and two runs cover a stop before, during and after
  each run; three clients are one more than the bound of StopAdmitsFew.
* `WyomingSession`: both queues hold one event, so that every write can block;
  four calls are a stream with two chunks, the shortest that blocks both ends,
  or any two requests with a stream in between. `MaxReads` is above the number
  of events four calls can send, and never binds.
* `ServiceRegistry`: two voices, one speaker, one language and one model, with
  five calls: enough to fill each array and be refused, to name a service twice,
  and to give speakers to two voices; callers pass none or two languages, one
  more than fits. One copy may fail on the server, and one allocation in the
  client.
* `WyomingDaemon`: pipes and the first buffer hold two bytes, one sample, so
  that every text of more than one letter fills them, and the buffer is exactly
  full before it grows. The two longest texts differ by one byte: callback and
  piper can get stuck over one and not over the other. Six entries are one fewer
  than one of the files has. Two failures, two clients, two requests and two
  signals let a failed request be followed by a good one, on the same connection
  or the next, and a second signal come at any step after the first, also after
  destroy.
* `Engines`: `Scale` = 8 with samples beyond both ends, a first buffer of three
  samples with a text of five, voices whose two counts of speakers agree and
  disagree either way, a negative count and a negative id; frames of two samples with chunks of none, one and three,
  so that a stream ends within a frame.

### Fairness

* `EventStream!FairSpec`: the writer finishes the event it has begun and the
  consumer reads in a loop. `Save` and `ScanLine` are strongly fair because an
  allocation failure may pre-empt them, but does not do so every time.
* `ClientHandler!FairHandlerSpec`: the handler's thread is scheduled, and a read
  ends because of `SO_RCVTIMEO`. The timeout bounds each `read()`, not each
  event: a peer that sends one byte every 29 seconds keeps a read from ending,
  and weak fairness of the handler assumes such a peer away. `ReadingPeerSpec`
  adds a peer that reads its answers; without it the handler can block for
  good, which is what `client_handler_blocked` shows.
* `WyomingServer!FairSpec`: the same for the loop, the thread in `stop`, and the
  peers. The bounds on events and connections are what makes clients fall silent.
* `WyomingSession!FairSpec`: both threads are scheduled. The program is under
  no obligation to make another call.
* `WyomingDaemon!FairSpec`: main, the handler, the callback and the piper process
  each go on while they can; a read of the handler ends because of `SO_RCVTIMEO`,
  with the same reservation about dribbling peers as above. Clients, signals and
  failures are under no obligation. A callback and a piper that wait for each
  other can do nothing, which is why `SignalEndsDaemon` and `RequestReturns` name
  that case, and a client that never takes its answer keeps the handler in
  `write_all`, which is the other exception of `SignalEndsDaemon`. `MaxRequests`
  is an assumption as well: after a signal that comes before `running = 1`, the
  flag is set again and a client accepted before the byte is seen is served as
  long as it keeps sending requests; the bound says that it stops some time.

## 4. Proofs

All theorems hold for every value of the constants that satisfies the named
assumptions of the modules, in particular every buffer size, any number of
events, clients, stops and runs, and every configuration of callbacks.

`EventStream_proofs` proves that `IndInv` is inductive. `BytesInOrder` and
`DeliveredInOrder` are not inductive: one needs to know where the reader is.
`WireOK` says that the wire is the concatenation of the frames of `written`,
the last one up to byte `wdone`, with `starts` giving each frame's offset.
`SyncOK` says that a reader in step has returned the first `d` events, that its
call began at `starts[d+1]` and that it is as far into that frame as its phase
says, with that frame's header and data block. Then a newline found in the line
phase is the header's own (headers contain none), the parsed header is the
written one (prefix assumption), the blocks have its lengths, and the event
returned is `written[d+1]`. `EofOK` places the reader at the end of the wire
after an end of file. From `IndInv` follow `TypeCorrect`,
`ReaderKeepsBytesInOrder`, `ReaderDeliversInOrder`, `EofComesLast`, and
`StreamImplementsChannel`, whose mapping is the identity on `written`,
`delivered` and `synced`.

`ClientHandler_proofs` proves `HandlerInv`. `AnswersComplete` speaks only of the
moments between requests; `AnswerInv` says for every place in the handler what
`answer \o todo` may be. `LateInv` bounds the reads after a stop place by place.
From it follow the theorems for answers, contexts, PCM, timeout and stop.

`WyomingServer_proofs` proves `ServerInv`: `HandlerInv` together with `ReadyInv`
(which descriptors may still be waiting in the batch) and `AdmitInv` (how many
clients can have been accepted since the byte was written, by place in the
loop). `StopInv` says that a `running` that is clear inside the loop, and a byte
in the pipe, go back to a stop; with it every return of `run` does that no failed
wait explains: to a stop that has ended no run yet, or to the byte an earlier stop
left behind (`RunReturnsForAStop`). `EveryConnectionIsServed` carries the handler's theorems over to every
connection of the server.

`WyomingSession_proofs` proves `SessionInv`, with `HandlerInv` as a part of it,
so that the step lemmas of `ClientHandler_proofs` carry over. The guarantees end
with the first call that fails or is misled by an unmarked partial transcript
(`clean`), and until then `Protocol` relates the
two queues, the handler and the call. `QuietInv`: nothing is on its way to the
client before the current request is read. `EndInv`: the event that ends an
answer is the last one. `AnswerOwnInv`: whatever is in the client's queue or
still to be written is for the current request. `QueueInv`: in the server's
queue leftovers of earlier requests come before the current one. `WriteInv`: a
call that still writes has not been answered. `DrainInv`: the two events that end
a stream stay next to each other, so that the drain takes the `transcribe-stop`
and not the next request; that is the part that `RequestsAreDispatched` needs.
`AnswersAreOwn`, `CallsEndAtBothEnds` and `OnlyStreamsBlockEachOther` follow from
the others.

`ServiceRegistry_proofs` proves `RegistryInv` for every array limit and any
number of calls and failed copies. `HeapAccounted` needs `OwnInv` (every string
comes from a call made so far, and a service's name is nowhere else), or a
replaced name could be freed under an entry. `SaidInv` says that the arrays hold
what the log of accepted calls says, place by place, up to copies that failed;
`ClientIsToldAll` and `ClientIsToldTheTruth` then follow the strings through
`BuildInfo` and the client's parser, for a failing allocation at any site. The
lemmas of `Selection_proofs` say where an element goes when others are dropped
(`Ranks`, `ElementsAtPlaces`), that order is kept, and how the selection of a
concatenation is made of two.

`Engines_proofs` proves `PiperInv` and `SherpaInv`. For the table of speakers
`TableInv` distinguishes which of the two arrays could be allocated, since the
code keeps the configured count when the ids could not. `SpeakerHonoured` is for
configurations that are consistent, and the proof showed that this has to include
ids that are not negative: the look-up returns -1 for an unknown name, so
`piper.c:237` takes a negative id in the map for none and speaks with the default. `AudioInv` follows the samples from the text
through the two conversions, which gives the refinement `PiperIsTtsCallback`; its
mapping takes the disturbance of a call to be a failing allocation. `HeldInv` says
what is held at each place of the sherpa engine, `DecodedInv` what was fed and
decoded, for any frame and chunk sizes.

`WyomingDaemon_proofs` proves `DaemonInv`, in two halves.

* The callback and the piper process, for all texts and all sizes of pipes and
  buffer: `ParentInv` and `ChildInv` say which ends each process holds at each
  place. `FlowInv` follows the bytes. While both processes are there, some
  part `d` of the text has been spoken: `buf \o outp \o out` is the audio of `d`,
  and `d \o got \o inp` is what the parent has written of the text. Each action
  moves bytes across one of these boundaries, and `ChildSpeaks` moves a line from
  the second to the first; `SpokenOf` (the audio of a concatenation is the
  concatenation of the audio) carries it over. A child that exits has read to the
  end of its input, so without a cut all of the text is in `d`; a child that fails
  leaves a beginning, which the callback does not return as good. From this
  follow the refinement `PiperProcessIsTtsCallback`, step by step (a call is
  `Ask`, a return is `Answer`, an interrupted read or write is `Disturb`, anything
  else is not seen), and `StuckOnlyOverLongLines`, by counting what is on each
  side of the last newline spoken.
* `main`: `LoadInv` says that the loader's array is the selection of the entry
  lines read so far that are kept, each with the section `SectionOf` gives it.
  `GetMeans` concludes that a look-up finds what the file means, and `SetupInv`
  that the engines are those the file says, for every file and array size.
  `LeaksAreExplained` counts, over any number of requests.

Only model-checked: the liveness properties `EventsArrive`, `HandlerReturns`,
`StopEndsRun`, `CallsReturn`, `SignalEndsDaemon` and `RequestReturns` (fairness
and ENABLED are beyond the prover), and the four violations.

## 5. Not modelled, and plan

Not modelled: logging (formatting and output), the CLI tools (one client call
each), cJSON (vendored; `EventStream` and `ServiceRegistry` say what they assume
of it), phonemization, inference and recognition (external libraries),
`wyoming_info_free`, name resolution in `wyoming_connect`, and the reading of
voice names, languages and sample rates from paths and files in the daemon.
Hazards without a property are listed in `PROJECT.json` with the reason.

Every safety property and refinement of the passing runs is proved. What could
still be added, in the order of worth:

1. the safety half of the liveness arguments: that a state in which the daemon or
   the handler can do nothing is one of the states the liveness properties name;
2. the composition of `PiperProcess` with `ClientHandler` through `TtsCallback`:
   that the audio a client receives is that of the text it sent.
