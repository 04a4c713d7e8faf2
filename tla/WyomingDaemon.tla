--------------------------- MODULE WyomingDaemon ---------------------------
(***************************************************************************)
(* The daemon, tools/wyoming-server.c: main reads the configuration, makes *)
(* a server, registers the engines that are configured and can be loaded,  *)
(* installs the signal handlers, runs the server and takes it down.  A     *)
(* signal may arrive at any moment of this, and while the server answers a *)
(* request through the piper process of module PiperProcess.               *)
(*                                                                         *)
(* The server's loop and connections are those of module WyomingServer;    *)
(* here they are reduced to the places where the thread may have to wait:  *)
(* the read of a request, the callback, the write of the answer.           *)
(***************************************************************************)
EXTENDS PiperProcess

CONSTANTS
  Files,                    \* the configuration files
  MaxEntries,               \* WY_CFG_MAX_ENTRIES (128)
  Installed,                \* the voice models that exist
  MaxSignals,               \* bound on the signals
  MaxClients,               \* bound on the connections
  MaxRequests               \* bound on the requests

NoValue == "(null)"

\* A value is not the null pointer, and begins with a quote only if quoted.
IsValue(v) == v \notin {NoValue, "quoted"}

FileLines == UNION {{f[i] : i \in DOMAIN f} : f \in Files}

ASSUME DaemonAssumption ==
  /\ MaxEntries \in Nat /\ MaxSignals \in Nat
  /\ MaxClients \in Nat /\ MaxRequests \in Nat
  /\ Files # {} /\ \A f \in Files : f \in Seq(FileLines)
  /\ \A l \in FileLines :
       l.kind = "entry" => IsValue(l.value.is) /\ l.value.quoted \in BOOLEAN
  /\ \A m \in Installed : IsValue(m)

VARIABLES
  pc,                       \* where main is
  file, line,               \* the configuration file, the lines read
  section, entries,         \* the section of the loader, the entries stored
  srv, gserver,             \* the server: none, live, freed; g_server is set
  tts, asr,                 \* the engines registered
  handlers,                 \* the signals that are handled
  running, stopPipe,        \* the server's flag, a byte in its pipe
  conn,                     \* where handle_client is, "none" without client
  status,                   \* main's return value
  caught, usedFreed,        \* history: handlers run, on a freed server
  sigs, clients, requests   \* history: signals sent, clients and requests served

configVars == <<file, line, section, entries>>
engineVars == <<tts, asr>>
stopVars   == <<running, stopPipe>>
sigVars    == <<caught, usedFreed, sigs>>
clientVars == <<conn, clients, requests>>
mainVars   == <<pc, configVars, srv, gserver, engineVars, handlers, stopVars,
                status, sigVars, clientVars>>
vars       == <<mainVars, piperVars>>

Signals == {"INT", "TERM"}

Init ==
  /\ pc = "args" /\ file \in Files /\ line = 0
  /\ section = "general" /\ entries = <<>>
  /\ srv = "none" /\ gserver = FALSE
  /\ tts = "none" /\ asr = "none"
  /\ handlers = {} /\ running = FALSE /\ stopPipe = FALSE
  /\ status = 0 /\ caught = FALSE /\ usedFreed = FALSE
  /\ conn = "none" /\ sigs = 0 /\ clients = 0 /\ requests = 0
  /\ PiperInit

Exit(code) == pc' = "exit" /\ status' = code

-----------------------------------------------------------------------------
(* Reading the configuration.                                              *)

\* -v and -h, an unknown option, or a file to read.
Arguments ==
  /\ pc = "args"
  /\ \/ \E code \in {0, 1} : Exit(code)
     \/ pc' = "load" /\ UNCHANGED status
  /\ UNCHANGED <<configVars, srv, gserver, engineVars, handlers, stopVars,
                 sigVars, clientVars, piperVars>>

\* The file cannot be opened, or there is no memory for the entries.
LoadFails ==
  /\ pc = "load" /\ line = 0
  /\ Fault /\ Exit(1)
  /\ UNCHANGED <<configVars, srv, gserver, engineVars, handlers, stopVars,
                 sigVars, clientVars, parentVars, childVars, halfPipes>>

\* A quoted value keeps its quotes and so is none of the values main knows.
\* An inline comment is cut off a value that is not quoted.
Stored(v) == IF v.quoted THEN "quoted" ELSE v.is

\* Mutant: a section header that does not end closes the section.
NewSectionAny(l) == IF l.kind = "section" THEN l.name ELSE section

\* A header without its bracket changes nothing.
NewSection(l) ==
  IF l.kind = "section" /\ l.closed THEN l.name ELSE section

\* Mutant: the check of the array's size is off by one.
FitsOver == Len(entries) <= MaxEntries

Fits == Len(entries) < MaxEntries

\* Blank lines, comments and lines without "=" are skipped, and so is what
\* no longer fits.
ReadLine ==
  /\ pc = "load" /\ line < Len(file)
  /\ line' = line + 1
  /\ LET l == file[line + 1]
     IN  /\ section' = NewSection(l)
         /\ entries' = IF l.kind = "entry" /\ Fits
                       THEN Append(entries, [section |-> section, key |-> l.key,
                                             value |-> Stored(l.value)])
                       ELSE entries
  /\ UNCHANGED <<pc, file, srv, gserver, engineVars, handlers, stopVars, status,
                 sigVars, clientVars, piperVars>>

LoadEnds ==
  /\ pc = "load" /\ line = Len(file)
  /\ pc' = "create"
  /\ UNCHANGED <<configVars, srv, gserver, engineVars, handlers, stopVars,
                 status, sigVars, clientVars, piperVars>>

\* wyoming_config_get: the first entry counts.
Get(s, k) ==
  LET hits == {i \in DOMAIN entries : entries[i].section = s /\ entries[i].key = k}
  IN  IF hits = {} THEN NoValue
      ELSE entries[CHOOSE i \in hits : \A j \in hits : i <= j].value

GetBool(s, k) == Get(s, k) \in {"on", "yes", "true", "1"}

-----------------------------------------------------------------------------
(* Server and engines.                                                     *)

\* wyoming_server_create; the pipe, the socket, bind or listen may fail.
Create ==
  /\ pc = "create"
  /\ srv' = "live" /\ pc' = "tts"
  /\ UNCHANGED <<configVars, gserver, engineVars, handlers, stopVars, status,
                 sigVars, clientVars, piperVars>>

CreateFails ==
  /\ pc = "create"
  /\ Fault /\ Exit(1)
  /\ UNCHANGED <<configVars, srv, gserver, engineVars, handlers, stopVars,
                 sigVars, clientVars, parentVars, childVars, halfPipes>>

Has(s, k) == Get(s, k) # NoValue

WantsPiper  == Has("tts", "model") /\ Get("tts", "engine") = "piper"
WantsNative == Has("tts", "model") /\ Get("tts", "engine") = "piper-native"
WantsSherpa == Has("asr", "model_dir") /\ Get("asr", "engine") = "sherpa"

\* piper needs a model that exists; piper-native one it can load.  Without
\* either the daemon goes on without the service.
SetupTts ==
  /\ pc = "tts" /\ pc' = "asr"
  /\ \/ tts' = (CASE WantsPiper /\ Get("tts", "model") \in Installed -> "piper"
                  [] WantsNative -> "piper-native"
                  [] OTHER -> "none") /\ UNCHANGED faults
     \/ WantsNative /\ Fault /\ tts' = "none"
  /\ UNCHANGED <<configVars, srv, gserver, asr, handlers, stopVars, status,
                 sigVars, clientVars, parentVars, childVars, halfPipes>>

SherpaKind == IF GetBool("asr", "streaming") THEN "streaming" ELSE "batch"

ModelType == IF Has("asr", "model_type") THEN Get("asr", "model_type")
                                         ELSE "whisper"

\* The model types the two kinds of recognizer are made for.
Types(kind) ==
  IF kind = "streaming" THEN {"zipformer", "paraformer", "nemo_ctc"}
  ELSE {"whisper", "paraformer", "nemo_ctc", "sense_voice"}

LoadsSherpa == WantsSherpa /\ ModelType \in Types(SherpaKind)

SetupAsr ==
  /\ pc = "asr" /\ pc' = "publish"
  /\ \/ asr' = (IF LoadsSherpa THEN SherpaKind ELSE "none") /\ UNCHANGED faults
     \/ LoadsSherpa /\ Fault /\ asr' = "none"
  /\ UNCHANGED <<configVars, srv, gserver, tts, handlers, stopVars, status,
                 sigVars, clientVars, parentVars, childVars, halfPipes>>

-----------------------------------------------------------------------------
(* Running.                                                                *)

Publish ==
  /\ pc = "publish" /\ pc' = "sigint"
  /\ gserver' = TRUE
  /\ UNCHANGED <<configVars, srv, engineVars, handlers, stopVars, status,
                 sigVars, clientVars, piperVars>>

SigAction ==
  /\ \/ pc = "sigint"  /\ handlers' = handlers \cup {"INT"}  /\ pc' = "sigterm"
     \/ pc = "sigterm" /\ handlers' = handlers \cup {"TERM"} /\ pc' = "run"
  /\ UNCHANGED <<configVars, srv, gserver, engineVars, stopVars, status,
                 sigVars, clientVars, piperVars>>

\* wyoming_server_run, up to running = 1.
RunStarts ==
  /\ pc = "run" /\ pc' = "loop"
  /\ running' = TRUE
  /\ UNCHANGED <<configVars, srv, gserver, engineVars, handlers, stopPipe,
                 status, sigVars, clientVars, piperVars>>

\* epoll_create1 fails.
RunFails ==
  /\ pc = "run" /\ pc' = "destroy"
  /\ Fault /\ status' = 1
  /\ UNCHANGED <<configVars, srv, gserver, engineVars, handlers, stopVars,
                 sigVars, clientVars, parentVars, childVars, halfPipes>>

\* The loop accepts a client and enters handle_client.
Accept ==
  /\ pc = "loop" /\ conn = "none" /\ running
  /\ clients < MaxClients /\ clients' = clients + 1
  /\ conn' = "head"
  /\ UNCHANGED <<pc, configVars, srv, gserver, engineVars, handlers, stopVars,
                 status, sigVars, requests, piperVars>>

\* handle_client moves to p, and nothing else changes.
MoveTo(p) ==
  /\ conn' = p
  /\ UNCHANGED <<pc, configVars, srv, gserver, engineVars, handlers, stopVars,
                 status, sigVars, clients, piperVars>>

LoopHead ==
  /\ conn = "head" /\ MoveTo(IF running THEN "read" ELSE "none")
  /\ UNCHANGED requests

\* The read fails, after the socket's timeout at the latest.
ReadEnds == conn = "read" /\ MoveTo("none") /\ UNCHANGED requests

\* A request is read, and the callback called.
Serve ==
  /\ conn = "read" /\ tts = "piper" /\ conn' = "call"
  /\ requests < MaxRequests /\ requests' = requests + 1
  /\ \E t \in Texts : Call(t)
  /\ UNCHANGED <<pc, configVars, srv, gserver, engineVars, handlers, stopVars,
                 status, sigVars, clients>>

\* A request that needs no process is read: it is answered, or ignored.
ServeOther ==
  /\ conn = "read"
  /\ requests < MaxRequests /\ requests' = requests + 1
  /\ MoveTo("write") \/ MoveTo("head")

\* The callback has returned; there is an answer if it succeeded.
CallReturns ==
  /\ conn = "call" /\ tpc = "idle"
  /\ MoveTo(IF answer.rc = "OK" THEN "write" ELSE "head")
  /\ UNCHANGED requests

\* The client has taken the answer, or is gone.  Until then write_all, which
\* has no timeout and goes on after a signal, may be waiting for it.
AnswerTaken == conn = "write" /\ MoveTo("head") /\ UNCHANGED requests

\* The loop finds the byte in the pipe.
SeeStop ==
  /\ pc = "loop" /\ conn = "none" /\ running /\ stopPipe
  /\ running' = FALSE
  /\ UNCHANGED <<pc, configVars, srv, gserver, engineVars, handlers, stopPipe,
                 status, sigVars, clientVars, piperVars>>

\* running is clear, and the handler has returned.
RunEnds ==
  /\ pc = "loop" /\ conn = "none" /\ ~running
  /\ pc' = "destroy"
  /\ UNCHANGED <<configVars, srv, gserver, engineVars, handlers, stopVars,
                 status, sigVars, clientVars, piperVars>>

\* epoll_wait fails: run returns, and returns WYOMING_OK.
WaitFails ==
  /\ pc = "loop" /\ conn = "none"
  /\ Fault /\ pc' = "destroy"
  /\ UNCHANGED <<configVars, srv, gserver, engineVars, handlers, stopVars,
                 status, sigVars, clientVars, parentVars, childVars, halfPipes>>

\* g_server keeps pointing to the server.
Destroy ==
  /\ pc = "destroy" /\ pc' = "destroyed"
  /\ srv' = "freed"
  /\ UNCHANGED <<configVars, gserver, engineVars, handlers, stopVars, status,
                 sigVars, clientVars, piperVars>>

Finish ==
  /\ pc = "destroyed" /\ Exit(status)
  /\ UNCHANGED <<configVars, srv, gserver, engineVars, handlers, stopVars,
                 sigVars, clientVars, piperVars>>

Main ==
  \/ Arguments \/ ReadLine \/ LoadEnds \/ Create \/ SetupTts \/ SetupAsr
  \/ Publish \/ SigAction \/ RunStarts \/ SeeStop \/ RunEnds \/ Destroy
  \/ Finish

\* What handle_client does by itself, and what its client does.
Handler == LoopHead \/ ReadEnds \/ CallReturns
Client  == Accept \/ Serve \/ ServeOther \/ AnswerTaken

Failing == LoadFails \/ CreateFails \/ RunFails \/ WaitFails

-----------------------------------------------------------------------------
(* Signals.                                                                *)

Ended == pc \in {"exit", "killed"}

\* Before its sigaction a signal kills the daemon.
Kill(sig) ==
  /\ sig \notin handlers
  /\ pc' = "killed"
  /\ UNCHANGED <<handlers, stopVars, caught, usedFreed, piperVars>>

\* Mutant: wyoming_server_stop without the byte in the pipe.
StopOnlyFlag == running' = FALSE /\ stopPipe' = stopPipe

\* wyoming_server_stop.
Stop == running' = FALSE /\ stopPipe' = TRUE

\* handle_signal, and its effect on a system call of the callback.
Handle(sig) ==
  /\ sig \in handlers
  /\ caught' = TRUE
  /\ usedFreed' = (usedFreed \/ (gserver /\ srv = "freed"))
  /\ IF gserver /\ srv = "live" THEN Stop ELSE UNCHANGED stopVars
  /\ Interrupt \/ (~Blocked /\ UNCHANGED piperVars)
  /\ UNCHANGED <<pc, handlers>>

Signal ==
  /\ ~Ended
  /\ sigs < MaxSignals /\ sigs' = sigs + 1
  /\ \E sig \in Signals : Kill(sig) \/ Handle(sig)
  /\ UNCHANGED <<configVars, srv, gserver, engineVars, status, clientVars>>

-----------------------------------------------------------------------------
Piper == (Parent \/ Child \/ ChildFails) /\ UNCHANGED mainVars

Done == Ended /\ UNCHANGED vars

\* Callback and child wait for each other.
Waiting == Stuck /\ UNCHANGED vars

Next == Main \/ Handler \/ Client \/ Failing \/ Signal \/ Piper \/ Done \/ Waiting

Spec == Init /\ [][Next]_vars

\* main, the handler, the callback and the child go on while they can; a
\* client is under no obligation, but its reads time out (ReadEnds).
FairSpec ==
  /\ Spec
  /\ WF_vars(Main)
  /\ WF_vars(Handler)
  /\ WF_vars(Parent /\ UNCHANGED mainVars)
  /\ WF_vars(Child /\ UNCHANGED mainVars)

-----------------------------------------------------------------------------
(* Properties.                                                             *)

\* Type correctness.
TypeOK ==
  /\ PiperTypeOK
  /\ pc \in {"args", "load", "create", "tts", "asr", "publish", "sigint",
             "sigterm", "run", "loop", "destroy", "destroyed", "exit", "killed"}
  /\ line \in 0 .. Len(file) /\ Len(entries) <= MaxEntries
  /\ srv \in {"none", "live", "freed"} /\ gserver \in BOOLEAN
  /\ tts \in {"none", "piper", "piper-native"}
  /\ asr \in {"none", "batch", "streaming"}
  /\ handlers \subseteq Signals
  /\ running \in BOOLEAN /\ stopPipe \in BOOLEAN /\ status \in {0, 1}
  /\ conn \in {"none", "head", "read", "call", "write"}
  /\ caught \in BOOLEAN /\ usedFreed \in BOOLEAN

\* How the file reads: an entry belongs to the last complete header above
\* it, the first of the same name counts, and only MaxEntries are kept.
Headers(i) == {h \in 1 .. i - 1 : file[h].kind = "section" /\ file[h].closed}

SectionOf(i) ==
  IF Headers(i) = {} THEN "general"
  ELSE file[CHOOSE h \in Headers(i) : \A g \in Headers(i) : g <= h].name

EntryLines(n) == {i \in 1 .. n : file[i].kind = "entry"}

KeptTo(n) == {i \in EntryLines(n) : Cardinality(EntryLines(i)) <= MaxEntries}

Kept == KeptTo(Len(file))

Means(s, k, i) ==
  /\ i \in Kept /\ SectionOf(i) = s /\ file[i].key = k
  /\ ~\E j \in Kept : j < i /\ SectionOf(j) = s /\ file[j].key = k

Says(s, k, v) ==
  \E i \in Kept : Means(s, k, i) /\ file[i].value.is = v /\ ~file[i].value.quoted

Mentions(s, k) == \E i \in Kept : Means(s, k, i)

SaidTts ==
  CASE Says("tts", "engine", "piper-native") /\ Mentions("tts", "model")
         -> "piper-native"
    [] /\ Says("tts", "engine", "piper")
       /\ \E m \in Installed : Says("tts", "model", m) -> "piper"
    [] OTHER -> "none"

SaidAsr ==
  LET kind == IF \E v \in {"on", "yes", "true", "1"} : Says("asr", "streaming", v)
              THEN "streaming" ELSE "batch"
  IN  IF /\ Says("asr", "engine", "sherpa") /\ Mentions("asr", "model_dir")
         /\ \/ \E t \in Types(kind) : Says("asr", "model_type", t)
            \/ ~Mentions("asr", "model_type") /\ kind = "batch"
      THEN kind ELSE "none"

TtsAsSaid == \/ tts = SaidTts
             \/ tts = "none" /\ SaidTts = "piper-native" /\ faults > 0

AsrAsSaid == asr = SaidAsr \/ (asr = "none" /\ faults > 0)

\* A daemon that runs offers what its file says, and an engine is missing
\* only if its model is, is of no type that kind of recognizer knows (as the
\* default whisper is for a streaming one), or could not be loaded (wyoming_config.c:38-124 with
\* wyoming-server.c:273-380).
ServesConfiguration ==
  pc = "loop" => TtsAsSaid /\ AsrAsSaid

\* No end of a pipe is left open but by a failing second pipe(), and no
\* child is left without its waitpid but by a signal, over any sequence of
\* requests (wyoming-server.c:85-93, 121-148).
LeaksExplained == lost = 2 * halfPipes /\ zombies <= (IF caught THEN sigs ELSE 0)

\* A signal that is handled ends the daemon, at whatever point of its life
\* and of a request it comes, between sigaction and running = 1 as well, and
\* with clients that fall silent (MaxRequests).  Two things can keep it from
\* ending: a callback and a piper process that wait for each other, and a
\* client that does not take its answer, which holds handle_client in
\* write_all (wyoming-server.c:382-400, server.c:259-265, 404-524,
\* event.c:230-243).
SignalEndsDaemon == caught ~> (Ended \/ []Stuck \/ [](conn = "write"))

\* The callback returns, unless it and the child wait for each other.
RequestReturns == (tpc # "idle") ~> (tpc = "idle" \/ []Stuck)

\* The server that a handler stops is there: "signal-safe shutdown".
SignalSafeStop == ~usedFreed

-----------------------------------------------------------------------------
(***************************************************************************)
(* The inductive invariant behind the properties.                          *)
(***************************************************************************)

EntryOf(i) == [section |-> SectionOf(i), key |-> file[i].key,
               value |-> Stored(file[i].value)]

EntriesTo(n) == [i \in 1 .. n |-> EntryOf(i)]

\* The loader has stored the lines it read that are kept, in their order.
LoadInv ==
  /\ file \in Files
  /\ section = SectionOf(line + 1)
  /\ entries = ElementsAt(EntriesTo(line), KeptTo(line))
  /\ Len(entries) = Min2(Cardinality(EntryLines(line)), MaxEntries)

\* What main has found in them, place by place.
SetupInv ==
  /\ pc \notin {"args", "load"} /\ ~Ended => line = Len(file)
  /\ pc \notin {"args", "load", "create", "tts"} /\ ~Ended => TtsAsSaid
  /\ pc \notin {"args", "load", "create", "tts", "asr"} /\ ~Ended => AsrAsSaid

DaemonInv ==
  /\ TypeOK /\ sigs \in Nat
  /\ PiperInv
  /\ LoadInv /\ SetupInv
  /\ LeaksExplained

=============================================================================
