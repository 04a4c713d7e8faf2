-------------------------- MODULE ServiceRegistry --------------------------
(***************************************************************************)
(* What a server offers, and what a client is told of it: the registration *)
(* calls of server.c, build_info_data, which puts the registry into an     *)
(* info event, and wyoming_describe, which takes it apart in the client.   *)
(*                                                                         *)
(* A string is the pair <<number of the call that gave it, its place among *)
(* that call's arguments>>: all strings differ and each can be traced to   *)
(* its call.  A copy made by strdup is the string itself, or Null where    *)
(* there was no memory.                                                    *)
(***************************************************************************)
EXTENDS Selection

CONSTANTS
  Null,                     \* the null pointer
  MaxVoices,                \* WYOMING_MAX_VOICES (64)
  MaxSpeakers,              \* WYOMING_MAX_SPEAKERS (32)
  MaxLangs,                 \* WYOMING_MAX_LANGS (8)
  MaxModels,                \* WYOMING_MAX_MODELS (16)
  LangCounts,               \* numbers of languages a caller passes
  MaxCalls,                 \* bound on the registration calls
  MaxNoMem                  \* bound on the strdup that fail

ASSUME RegistryAssumption ==
  /\ MaxVoices \in Nat \ {0} /\ MaxSpeakers \in Nat
  /\ MaxLangs \in Nat /\ MaxModels \in Nat
  /\ LangCounts \subseteq Nat
  /\ MaxCalls \in Nat /\ MaxNoMem \in Nat
  /\ Null \notin Nat \X Nat

VARIABLES
  srv,                      \* the wyoming_server_t: live or freed
  tts, asr,                 \* the two services: callback set, name
  stream,                   \* the streaming callbacks are set
  voices, models,           \* the arrays, up to voice_count, asr_model_count
  heap,                     \* history: the strings on the server's heap
  ncalls, nomem,            \* history: calls made, strdup failed
  log                       \* history: the calls that were not refused

entryVars == <<tts, asr, stream, voices, models>>
vars == <<srv, entryVars, heap, ncalls, nomem, log>>

Str == Nat \X Nat
Ptr == Str \cup {Null}

NoService == [fn |-> FALSE, name |-> Null]

\* A fresh server, zeroed by calloc.
Init ==
  /\ srv = "live"
  /\ tts = NoService /\ asr = NoService /\ stream = FALSE
  /\ voices = <<>> /\ models = <<>>
  /\ heap = {}
  /\ ncalls = 0 /\ nomem = 0
  /\ log = <<>>

-----------------------------------------------------------------------------
(* The registration calls.                                                 *)

Call == ncalls + 1
Arg(i) == <<Call, i>>

\* The strings among a whose strdup fails in this call.
Losses(a) == {lost \in SUBSET a : nomem + Cardinality(lost) <= MaxNoMem}

Dup(s, lost) == IF s \in lost THEN Null ELSE s

\* The caller's array ends with NULL; at most MaxLangs elements are copied.
Copied(n) == IF n < MaxLangs THEN n ELSE MaxLangs

\* The strings an entry with n languages copies: its name (the description
\* is treated alike) and the languages.
Strings(n) == {Arg(i) : i \in 1 .. Copied(n) + 1}

\* A server_voice_t or server_model_t as it is filled in.
Entry(n, lost) ==
  [name      |-> Dup(Arg(1), lost),
   languages |-> [i \in 1 .. Copied(n) |-> Dup(Arg(i + 1), lost)],
   speakers  |-> <<>>]

Calling == srv = "live" /\ ncalls < MaxCalls /\ srv' = srv /\ ncalls' = Call

\* The call returns WYOMING_OK, or nothing.
Accept(op, on, n, lost) ==
  /\ log' = Append(log, [op |-> op, id |-> Call, on |-> on,
                         langs |-> n])
  /\ nomem' = nomem + Cardinality(lost)

\* WYOMING_ERR_INVAL for a NULL name, whether there is room or not, or
\* WYOMING_ERR_NOMEM where there is none, before anything is changed.
Refuse == UNCHANGED <<entryVars, heap, nomem, log>>

\* Mutant: the name the service had is not freed.
ReplaceNameLeaks(old, lost) == heap' = heap \cup ({Arg(1)} \ lost)

ReplaceName(old, lost) == heap' = (heap \ {old}) \cup ({Arg(1)} \ lost)

\* The callback may be NULL; callers give a name.  The version is treated like
\* the name.
SetTts ==
  /\ Calling
  /\ \E fn \in BOOLEAN, lost \in Losses({Arg(1)}) :
       /\ tts' = [fn |-> fn, name |-> Dup(Arg(1), lost)]
       /\ ReplaceName(tts.name, lost)
       /\ Accept("tts", fn, 0, lost)
  /\ UNCHANGED <<asr, stream, voices, models>>

SetAsr ==
  /\ Calling
  /\ \E fn \in BOOLEAN, lost \in Losses({Arg(1)}) :
       /\ asr' = [fn |-> fn, name |-> Dup(Arg(1), lost)]
       /\ ReplaceName(asr.name, lost)
       /\ Accept("asr", fn, 0, lost)
  /\ UNCHANGED <<tts, stream, voices, models>>

SetAsrStreaming ==
  /\ Calling
  /\ stream' = TRUE
  /\ UNCHANGED <<tts, asr, voices, models, heap, nomem, log>>

\* Mutant: the limit is off by one.
AddVoiceOver ==
  /\ Calling
  /\ \/ /\ Len(voices) <= MaxVoices
        /\ \E n \in LangCounts : \E lost \in Losses(Strings(n)) :
             /\ voices' = Append(voices, Entry(n, lost))
             /\ heap' = heap \cup (Strings(n) \ lost)
             /\ Accept("voice", TRUE, n, lost)
        /\ UNCHANGED <<tts, asr, stream, models>>
     \/ Refuse

AddVoice ==
  /\ Calling
  /\ \/ /\ Len(voices) < MaxVoices
        /\ \E n \in LangCounts : \E lost \in Losses(Strings(n)) :
             /\ voices' = Append(voices, Entry(n, lost))
             /\ heap' = heap \cup (Strings(n) \ lost)
             /\ Accept("voice", TRUE, n, lost)
        /\ UNCHANGED <<tts, asr, stream, models>>
     \/ Refuse

\* Mutant: the speaker goes to the first voice.
LastVoiceIsFirst == 1

LastVoice == Len(voices)

SpeakerFits ==
  IF voices = <<>> THEN FALSE ELSE Len(voices[LastVoice].speakers) < MaxSpeakers

\* A speaker belongs to the voice that was added last.
AddSpeaker ==
  /\ Calling
  /\ \/ /\ SpeakerFits
        /\ \E lost \in Losses({Arg(1)}) :
             /\ voices' = [voices EXCEPT ![LastVoice].speakers =
                                            Append(@, Dup(Arg(1), lost))]
             /\ heap' = heap \cup ({Arg(1)} \ lost)
             /\ Accept("speaker", TRUE, 0, lost)
        /\ UNCHANGED <<tts, asr, stream, models>>
     \/ Refuse

AddAsrModel ==
  /\ Calling
  /\ \/ /\ Len(models) < MaxModels
        /\ \E n \in LangCounts : \E lost \in Losses(Strings(n)) :
             /\ models' = Append(models, Entry(n, lost))
             /\ heap' = heap \cup (Strings(n) \ lost)
             /\ Accept("model", TRUE, n, lost)
        /\ UNCHANGED <<tts, asr, stream, voices>>
     \/ Refuse

-----------------------------------------------------------------------------
ElementsOf(s) == {s[i] : i \in DOMAIN s}

\* The strings wyoming_server_destroy frees on its way through an entry.
EntryStrings(e) ==
  ({e.name} \cup ElementsOf(e.languages) \cup ElementsOf(e.speakers)) \ {Null}

Reachable ==
  ({tts.name, asr.name} \ {Null})
    \cup UNION {EntryStrings(e) : e \in ElementsOf(voices) \cup ElementsOf(models)}

Destroy ==
  /\ srv = "live"
  /\ srv' = "freed"
  /\ heap' = heap \ Reachable
  /\ UNCHANGED <<entryVars, ncalls, nomem, log>>

Freed == srv = "freed" /\ UNCHANGED vars

Next ==
  \/ SetTts \/ SetAsr \/ SetAsrStreaming
  \/ AddVoice \/ AddSpeaker \/ AddAsrModel
  \/ Destroy \/ Freed

Spec == Init /\ [][Next]_vars

-----------------------------------------------------------------------------
(* The info event and the client's wyoming_info_t.                         *)

\* cJSON does not add an item made from NULL: a language whose copy failed
\* is missing from the array, a name from its object.
JsonEntry(e) ==
  [e EXCEPT !.languages = ElementsAt(e.languages,
     {i \in DOMAIN e.languages : e.languages[i] # Null})]

\* Mutant: an entry without a name is left out, and the later ones move up.
JsonServiceSkips(s, entries) ==
  IF s.fn
  THEN LET named == SelectSeq(entries, LAMBDA e : e.name # Null)
       IN  <<[name    |-> s.name,
              entries |-> [i \in DOMAIN named |-> JsonEntry(named[i])]]>>
  ELSE <<>>

JsonService(s, entries) ==
  IF s.fn
  THEN <<[name    |-> s.name,
          entries |-> [i \in DOMAIN entries |-> JsonEntry(entries[i])]]>>
  ELSE <<>>

\* build_info_data.
BuildInfo ==
  [tts |-> JsonService(tts, voices), asr |-> JsonService(asr, models)]

\* The allocations of the client that may fail: a service array, and in it
\* the name, the array of voices or models, and in each of these the strings
\* and the arrays, and the strings in the arrays.
Sites ==
  LET entries == 1 .. MaxVoices + MaxModels
      arrays  == {"languages", "speakers"}
  IN  {<<"service">>, <<"name">>, <<"entries">>}
        \cup ({"name"} \cup arrays) \X entries
        \cup arrays \X entries \X (1 .. MaxLangs + MaxSpeakers)

CopyStr(p, site, bad) == IF site = bad THEN Null ELSE p

\* An array that cannot be allocated keeps the count 0.
CopyArray(a, f, i, bad) ==
  IF bad = <<f, i>> THEN <<>>
  ELSE [j \in DOMAIN a |-> CopyStr(a[j], <<f, i, j>>, bad)]

\* One voice (parse_voices) or model of the info event.
ParseEntry(e, i, bad) ==
  [name      |-> CopyStr(e.name, <<"name", i>>, bad),
   languages |-> CopyArray(e.languages, "languages", i, bad),
   speakers  |-> CopyArray(e.speakers, "speakers", i, bad)]

ParseService(json, bad) ==
  IF json = <<>> \/ bad = <<"service">> THEN <<>>
  ELSE <<[name    |-> CopyStr(json[1].name, <<"name">>, bad),
          entries |-> IF bad = <<"entries">> THEN <<>>
                      ELSE [i \in DOMAIN json[1].entries |->
                              ParseEntry(json[1].entries[i], i, bad)]]>>

\* wyoming_describe, with the client's allocation at bad failing.
DescribeInfo(bad) ==
  [tts |-> ParseService(BuildInfo.tts, bad),
   asr |-> ParseService(BuildInfo.asr, bad)]

-----------------------------------------------------------------------------
(* Properties.                                                             *)

EntryRecords == [name : Ptr, languages : Seq(Ptr), speakers : Seq(Ptr)]

\* Type correctness, with every array within its fixed size
\* (internal.h:38-60, server.c:162, 191, 221).
TypeOK ==
  /\ srv \in {"live", "freed"}
  /\ tts \in [fn : BOOLEAN, name : Ptr] /\ asr \in [fn : BOOLEAN, name : Ptr]
  /\ stream \in BOOLEAN
  /\ voices \in Seq(EntryRecords) /\ Len(voices) <= MaxVoices
  /\ models \in Seq(EntryRecords) /\ Len(models) <= MaxModels
  /\ \A i \in DOMAIN voices : /\ Len(voices[i].languages) <= MaxLangs
                              /\ Len(voices[i].speakers) <= MaxSpeakers
  /\ \A i \in DOMAIN models : Len(models[i].languages) <= MaxLangs
  /\ heap \subseteq Str
  /\ ncalls \in Nat /\ nomem \in Nat

\* The server's heap holds exactly the strings the registry still points
\* to, through refused calls, failed copies and replaced names, and nothing
\* once wyoming_server_destroy has returned (server.c:140-302).
HeapAccounted == heap = IF srv = "live" THEN Reachable ELSE {}

Calls(op) == ElementsAt(log, {i \in DOMAIN log : log[i].op = op})

\* What the accepted calls say: a service is offered if the last call that
\* set it gave a callback, the k-th entry is that of the k-th accepted call,
\* and a voice has the speakers of the calls between it and the next voice.
LastOf(c) == c[Len(c)]

Offered(c) == c # <<>> /\ LastOf(c).on

After(c, k, sp) ==
  {j \in DOMAIN sp : /\ c[k].id < sp[j].id
                     /\ k < Len(c) => sp[j].id < c[k + 1].id}

SpeakersOf(c, k, sp) ==
  LET own == ElementsAt(sp, After(c, k, sp))
  IN  [j \in DOMAIN own |-> <<own[j].id, 1>>]

SaidEntry(c, speakers) ==
  [name      |-> <<c.id, 1>>,
   languages |-> [i \in 1 .. Copied(c.langs) |-> <<c.id, i + 1>>],
   speakers  |-> speakers]

SaidEntries(c, sp) ==
  [k \in DOMAIN c |-> SaidEntry(c[k], SpeakersOf(c, k, sp))]

SaidVoices == SaidEntries(Calls("voice"), Calls("speaker"))
SaidModels == SaidEntries(Calls("model"), <<>>)

SaidService(c, entries) ==
  IF Offered(c)
  THEN <<[name |-> <<LastOf(c).id, 1>>, entries |-> entries]>>
  ELSE <<>>

\* With memory on both sides a client is told exactly what was registered:
\* every accepted voice and model, in order, with its own languages up to
\* the limit and its own speakers (server.c:306-386 against client.c:208-395).
DescribeExact ==
  srv = "live" /\ nomem = 0 =>
    DescribeInfo(<<>>) = [tts |-> SaidService(Calls("tts"), SaidVoices),
                          asr |-> SaidService(Calls("asr"), SaidModels)]

Precedes(a, b) == a[1] < b[1] \/ (a[1] = b[1] /\ a[2] < b[2])

\* The strings of told are some of all, in order.
SomeOf(told, all) ==
  /\ ElementsOf(told) \subseteq ElementsOf(all) \cup {Null}
  /\ \A i, j \in DOMAIN told :
       i < j /\ told[i] # Null /\ told[j] # Null => Precedes(told[i], told[j])

TrueEntry(e, x) ==
  /\ e.name \in {Null, x.name}
  /\ SomeOf(e.languages, x.languages)
  /\ SomeOf(e.speakers, x.speakers)

TrueService(told, c, said) ==
  \A s \in ElementsOf(told) :
    /\ Offered(c)
    /\ s.name \in {Null, <<LastOf(c).id, 1>>}
    /\ s.entries # <<>> => Len(s.entries) = Len(said)
    /\ \A i \in DOMAIN s.entries : TrueEntry(s.entries[i], said[i])

\* Whatever allocation fails, on the server when it registers or in the
\* client when it parses, the client is told less and never something wrong:
\* no service without a callback, every voice in its place and none with
\* another's name, language or speaker.
DescribeNeverWrong ==
  srv = "live" =>
    LET saidVoices == SaidVoices
        saidModels == SaidModels
    IN  \A bad \in Sites \cup {<<>>} :
          /\ TrueService(DescribeInfo(bad).tts, Calls("tts"), saidVoices)
          /\ TrueService(DescribeInfo(bad).asr, Calls("asr"), saidModels)

-----------------------------------------------------------------------------
(* The inductive invariant.                                                *)

Records == [op : {"tts", "asr", "voice", "speaker", "model"}, id : Nat,
            on : BOOLEAN, langs : Nat]

\* The accepted calls are logged in their order.
LogInv ==
  /\ log \in Seq(Records)
  /\ \A i \in DOMAIN log : log[i].id <= ncalls
  /\ \A i, j \in DOMAIN log : i < j => log[i].id < log[j].id

Kept == UNION {EntryStrings(e) : e \in ElementsOf(voices) \cup ElementsOf(models)}

\* Every string is of a call made so far, and no service's name is elsewhere.
OwnInv ==
  /\ \A x \in Reachable : x[1] <= ncalls
  /\ tts.name # Null => tts.name # asr.name /\ tts.name \notin Kept
  /\ asr.name # Null => asr.name \notin Kept

\* p is the copy of s, which may have failed if m copies have.
CopyOf(p, s, m) == p = s \/ (p = Null /\ m > 0)

CopiesOf(a, b, m) ==
  Len(a) = Len(b) /\ \A j \in 1 .. Len(b) : CopyOf(a[j], b[j], m)

ServiceSaid(s, c, m) ==
  /\ s.fn <=> Offered(c)
  /\ s.fn => CopyOf(s.name, <<LastOf(c).id, 1>>, m)

EntrySaid(e, x, m) ==
  /\ CopyOf(e.name, x.name, m)
  /\ CopiesOf(e.languages, x.languages, m)
  /\ CopiesOf(e.speakers, x.speakers, m)

EntriesSaid(entries, said, m) ==
  /\ Len(entries) = Len(said)
  /\ \A k \in 1 .. Len(said) : EntrySaid(entries[k], said[k], m)

\* The registry holds what the accepted calls said.
SaidInv ==
  /\ ServiceSaid(tts, Calls("tts"), nomem)
  /\ ServiceSaid(asr, Calls("asr"), nomem)
  /\ EntriesSaid(voices, SaidVoices, nomem)
  /\ EntriesSaid(models, SaidModels, nomem)

RegistryInv == TypeOK /\ HeapAccounted /\ LogInv /\ OwnInv /\ SaidInv

=============================================================================
