---------------------------- MODULE PiperProcess ----------------------------
(***************************************************************************)
(* The daemon's text-to-speech callback: piper_tts_callback of             *)
(* tools/wyoming-server.c starts one piper process per request, writes the *)
(* text to its standard input, reads raw audio from its standard output    *)
(* until the end and waits for it.  The parent's calls may be interrupted  *)
(* by a signal (Interrupt), which the daemon composes with its handler.    *)
(*                                                                         *)
(* A text is a sequence of letters and NL, a byte each.  A letter is       *)
(* spoken by one sample, two bytes, that carry the letter.                 *)
(***************************************************************************)
EXTENDS Selection

CONSTANTS
  None,                     \* no text
  NL,                       \* the newline
  Texts,                    \* the texts clients ask for
  InCap, OutCap,            \* what a pipe holds (65536 bytes)
  InitCap,                  \* the first size of the audio buffer (65536)
  MaxFaults                 \* bound on failing calls and crashing children

Chars == {NL} \cup UNION {{t[i] : i \in DOMAIN t} : t \in Texts}

ASSUME ProcessAssumption ==
  /\ InCap \in Nat \ {0} /\ OutCap \in Nat \ {0} /\ InitCap \in Nat \ {0}
  /\ MaxFaults \in Nat
  /\ None \notin Texts /\ \A t \in Texts : t \in Seq(Chars)

VARIABLES
  tpc,                      \* where the parent is in the callback
  text, sent,               \* the text, and how much of it has been written
  fds,                      \* the ends of the two pipes the parent holds
  buf, cap,                 \* the audio read so far, the size of its buffer
  child, cfds,              \* the piper process, and the ends it holds
  got, out,                 \* what it has read, and has yet to write
  inp, outp,                \* what is in the two pipes
  answer,                   \* what the callback returned last
  cut,                      \* history: a signal interrupted a call
  faults,                   \* history: failures so far
  halfPipes, lost,          \* history: failed second pipe(), ends never closed
  zombies                   \* history: children never waited for

parentVars == <<tpc, text, sent, fds, buf, cap, answer, cut, lost, zombies>>
childVars  == <<child, cfds, got, out, inp, outp>>
piperVars  == <<parentVars, childVars, faults, halfPipes>>

Min2(a, b) == IF a < b THEN a ELSE b
Ends == {"in_r", "in_w", "out_r", "out_w"}
Letters(s) == ElementsAt(s, {i \in DOMAIN s : s[i] # NL})

PiperInit ==
  /\ tpc = "idle" /\ text = None /\ sent = 0 /\ fds = {}
  /\ buf = <<>> /\ cap = 0
  /\ child = "none" /\ cfds = {} /\ got = <<>> /\ out = <<>>
  /\ inp = <<>> /\ outp = <<>>
  /\ answer = [rc |-> "IO", audio |-> <<>>]
  /\ cut = FALSE /\ faults = 0 /\ halfPipes = 0 /\ lost = 0 /\ zombies = 0

Fault == faults < MaxFaults /\ faults' = faults + 1

-----------------------------------------------------------------------------
(* The parent.                                                             *)

\* The callback returns.  A child that was not waited for runs on without
\* any end of the pipes a later call opens.
Return(rc, audio, open, waited) ==
  /\ tpc' = "idle" /\ text' = None /\ sent' = 0
  /\ answer' = [rc |-> rc, audio |-> audio]
  /\ fds' = {} /\ lost' = lost + Cardinality(open)
  /\ buf' = <<>> /\ cap' = 0
  /\ child' = "none" /\ cfds' = {} /\ got' = <<>> /\ out' = <<>>
  /\ inp' = <<>> /\ outp' = <<>>
  /\ zombies' = IF child # "none" /\ ~waited THEN zombies + 1 ELSE zombies

Call(t) ==
  /\ tpc = "idle"
  /\ tpc' = "start" /\ text' = t /\ cut' = FALSE
  /\ UNCHANGED <<sent, fds, buf, cap, answer, lost, zombies, childVars,
                 faults, halfPipes>>

RejectEmpty ==
  /\ tpc = "start" /\ text = <<>>
  /\ Return("INVAL", <<>>, {}, FALSE)
  /\ UNCHANGED <<cut, faults, halfPipes>>

OpenPipes ==
  /\ tpc = "start" /\ text # <<>>
  /\ fds' = Ends /\ tpc' = "fork"
  /\ UNCHANGED <<text, sent, buf, cap, answer, cut, lost, zombies, childVars,
                 faults, halfPipes>>

\* When the second pipe() fails the first pipe stays open.
PipeFails ==
  /\ tpc = "start" /\ text # <<>>
  /\ Fault
  /\ \/ Return("IO", <<>>, {}, FALSE) /\ halfPipes' = halfPipes
     \/ Return("IO", <<>>, {"in_r", "in_w"}, FALSE) /\ halfPipes' = halfPipes + 1
  /\ UNCHANGED cut

\* Mutant: the four ends are not closed.
ForkFailsOpen ==
  /\ tpc = "fork"
  /\ Fault
  /\ Return("IO", <<>>, fds, FALSE)
  /\ UNCHANGED <<cut, halfPipes>>

ForkFails ==
  /\ tpc = "fork"
  /\ Fault
  /\ Return("IO", <<>>, {}, FALSE)
  /\ UNCHANGED <<cut, halfPipes>>

\* The child starts with every end; the parent closes the child's two.
Fork ==
  /\ tpc = "fork"
  /\ child' = "forked" /\ cfds' = fds
  /\ fds' = fds \ {"in_r", "out_w"} /\ tpc' = "text"
  /\ UNCHANGED <<text, sent, buf, cap, answer, cut, lost, zombies, got, out,
                 inp, outp, faults, halfPipes>>

InHasReader  == "in_r" \in fds \cup cfds
InHasWriter  == "in_w" \in fds \cup cfds
OutHasReader == "out_r" \in fds \cup cfds
OutHasWriter == "out_w" \in fds \cup cfds
Room == InCap - Len(inp)

\* Mutant: the text is ended by two bytes.
ToWriteCrLf ==
  IF tpc = "text" THEN SubSeq(text, sent + 1, Len(text)) ELSE <<NL, NL>>

\* What one write call has still to put into the pipe, and what follows it.
ToWrite == IF tpc = "text" THEN SubSeq(text, sent + 1, Len(text)) ELSE <<NL>>

AfterWrite ==
  IF tpc = "text" THEN tpc' = "newline" /\ fds' = fds
                  ELSE tpc' = "malloc" /\ fds' = fds \ {"in_w"}

\* The pipe takes what it has room for; the call goes on until all is in.
WriteSome ==
  /\ tpc \in {"text", "newline"} /\ InHasReader /\ Room > 0
  /\ LET n == Min2(Room, Len(ToWrite))
     IN  /\ inp' = inp \o SubSeq(ToWrite, 1, n)
         /\ IF n = Len(ToWrite) THEN AfterWrite /\ sent' = 0
                                ELSE sent' = sent + n /\ UNCHANGED <<tpc, fds>>
  /\ UNCHANGED <<text, buf, cap, answer, cut, lost, zombies, child, cfds, got,
                 out, outp, faults, halfPipes>>

\* EPIPE (run ignores SIGPIPE): the result of write is not looked at.
WriteBroken ==
  /\ tpc \in {"text", "newline"} /\ ~InHasReader
  /\ AfterWrite /\ sent' = 0
  /\ UNCHANGED <<text, buf, cap, answer, cut, lost, zombies, childVars, faults,
                 halfPipes>>

Malloc ==
  /\ tpc = "malloc"
  /\ cap' = InitCap /\ tpc' = "read"
  /\ UNCHANGED <<text, sent, fds, buf, answer, cut, lost, zombies, childVars,
                 faults, halfPipes>>

\* malloc or realloc returns NULL: the output is closed and the child
\* waited for, and the call fails.
NoMemory ==
  /\ tpc \in {"malloc", "grow"}
  /\ Fault
  /\ tpc' = "wait_nomem" /\ fds' = fds \ {"out_r"} /\ buf' = <<>>
  /\ UNCHANGED <<text, sent, cap, answer, cut, lost, zombies, childVars,
                 halfPipes>>

\* Mutant: the buffer grows only once it has overflowed.
FullOver == Len(buf') > cap

Full == Len(buf') >= cap

ReadSome ==
  /\ tpc = "read" /\ outp # <<>> /\ Len(buf) < cap
  /\ LET n == Min2(Len(outp), cap - Len(buf))
     IN  /\ buf' = buf \o SubSeq(outp, 1, n)
         /\ outp' = SubSeq(outp, n + 1, Len(outp))
  /\ tpc' = IF Full THEN "grow" ELSE "read"
  /\ UNCHANGED <<text, sent, fds, cap, answer, cut, lost, zombies, child, cfds,
                 got, out, inp, faults, halfPipes>>

Grow ==
  /\ tpc = "grow"
  /\ cap' = 2 * cap /\ tpc' = "read"
  /\ UNCHANGED <<text, sent, fds, buf, answer, cut, lost, zombies, childVars,
                 faults, halfPipes>>

StopReading == tpc' = "wait" /\ fds' = fds \ {"out_r"}

\* read returns 0: no writer is left, or there is no room in the buffer.
ReadEnd ==
  /\ tpc = "read"
  /\ (outp = <<>> /\ ~OutHasWriter) \/ Len(buf) >= cap
  /\ StopReading
  /\ UNCHANGED <<text, sent, buf, cap, answer, cut, lost, zombies, childVars,
                 faults, halfPipes>>

Samples == [i \in 1 .. Len(buf) \div 2 |-> buf[2 * i]]

AnswerOf(good) ==
  IF good /\ Len(buf) >= 2 THEN [rc |-> "OK", audio |-> Samples]
                           ELSE [rc |-> "PIPER", audio |-> <<>>]

ReturnAnswer(good, waited) ==
  Return(AnswerOf(good).rc, AnswerOf(good).audio, fds, waited)

Waited ==
  /\ child \in {"exited", "failed"}
  /\ \/ tpc = "wait" /\ ReturnAnswer(child = "exited", TRUE)
     \/ tpc = "wait_nomem" /\ Return("NOMEM", <<>>, fds, TRUE)
  /\ UNCHANGED <<cut, faults, halfPipes>>

\* The parent sleeps in a system call.
WriteBlocked == tpc \in {"text", "newline"} /\ InHasReader /\ Room = 0
ReadBlocked  == tpc = "read" /\ outp = <<>> /\ OutHasWriter
WaitBlocked  == /\ tpc \in {"wait", "wait_nomem"}
                /\ child \notin {"exited", "failed"}
Blocked == WriteBlocked \/ ReadBlocked \/ WaitBlocked

\* A signal handler has run meanwhile: the call returns a short count or
\* EINTR.  status is then uninitialized, and may look like success.  A child
\* that has closed its ends need not have ended: waitpid may still sleep.
Interrupt ==
  /\ cut' = TRUE
  /\ \/ /\ WriteBlocked /\ AfterWrite /\ sent' = 0
        /\ UNCHANGED <<text, buf, cap, answer, lost, zombies, childVars>>
     \/ /\ ReadBlocked /\ StopReading
        /\ UNCHANGED <<text, sent, buf, cap, answer, lost, zombies, childVars>>
     \/ /\ tpc = "wait"
        /\ \E good \in BOOLEAN : ReturnAnswer(good, FALSE)
     \/ /\ tpc = "wait_nomem"
        /\ Return("NOMEM", <<>>, fds, FALSE)
  /\ UNCHANGED <<faults, halfPipes>>

Parent ==
  \/ RejectEmpty \/ OpenPipes \/ PipeFails \/ ForkFails \/ Fork
  \/ WriteSome \/ WriteBroken \/ Malloc \/ NoMemory \/ ReadSome \/ Grow
  \/ ReadEnd \/ Waited

-----------------------------------------------------------------------------
(* The piper process: it speaks its input line by line.                    *)

\* Mutant: the child keeps the writing end of its own input.
ChildEndsAll == {"in_r", "out_w", "in_w"}

\* What the child keeps before it calls execlp.
ChildEnds == {"in_r", "out_w"}

Exec ==
  /\ child = "forked"
  /\ child' = "running" /\ cfds' = cfds \cap ChildEnds
  /\ UNCHANGED <<parentVars, got, out, inp, outp, faults, halfPipes>>

ChildEnded(how) ==
  /\ child' = how /\ cfds' = {} /\ out' = <<>>
  /\ UNCHANGED <<parentVars, got, inp, outp, halfPipes>>

\* execlp fails and the child exits with 127, or piper is killed or gives up.
ChildFails ==
  /\ child \in {"forked", "running"}
  /\ Fault
  /\ ChildEnded("failed")

Lines == {i \in DOMAIN got : got[i] = NL}
Listening == child = "running" /\ out = <<>> /\ Lines = {}

ChildReads ==
  /\ Listening
  /\ \E n \in 1 .. Len(inp) :
       /\ got' = got \o SubSeq(inp, 1, n)
       /\ inp' = SubSeq(inp, n + 1, Len(inp))
  /\ UNCHANGED <<parentVars, child, cfds, out, outp, faults, halfPipes>>

Spoken(s) == LET w == Letters(s)
             IN  [i \in 1 .. 2 * Len(w) |-> w[(i + 1) \div 2]]

EndOfInput == Listening /\ inp = <<>> /\ ~InHasWriter

\* A line, or what is left at the end of the input.
ChildSpeaks ==
  /\ child = "running" /\ out = <<>> /\ got # <<>>
  /\ Lines # {} \/ EndOfInput
  /\ LET n == IF Lines = {} THEN Len(got)
              ELSE CHOOSE i \in Lines : \A j \in Lines : i <= j
     IN  /\ out' = Spoken(SubSeq(got, 1, n))
         /\ got' = SubSeq(got, n + 1, Len(got))
  /\ UNCHANGED <<parentVars, child, cfds, inp, outp, faults, halfPipes>>

ChildWrites ==
  /\ out # <<>> /\ OutHasReader /\ Len(outp) < OutCap
  /\ LET n == Min2(OutCap - Len(outp), Len(out))
     IN  /\ outp' = outp \o SubSeq(out, 1, n)
         /\ out' = SubSeq(out, n + 1, Len(out))
  /\ UNCHANGED <<parentVars, child, cfds, got, inp, faults, halfPipes>>

\* Nobody reads the audio.  SIGPIPE is still ignored after execlp: piper
\* goes on or exits, with any status.
ChildBroken ==
  /\ out # <<>> /\ ~OutHasReader
  /\ \/ out' = <<>> /\ UNCHANGED <<parentVars, child, cfds, got, inp, outp, halfPipes>>
     \/ ChildEnded("exited")
     \/ ChildEnded("failed")
  /\ UNCHANGED faults

ChildExits ==
  /\ EndOfInput /\ got = <<>>
  /\ ChildEnded("exited")
  /\ UNCHANGED faults

Child ==
  \/ Exec \/ ChildReads \/ ChildSpeaks \/ ChildWrites \/ ChildBroken
  \/ ChildExits

-----------------------------------------------------------------------------
(* Properties.                                                             *)

Codes == {"OK", "INVAL", "IO", "NOMEM", "PIPER"}

PiperTypeOK ==
  /\ tpc \in {"idle", "start", "fork", "text", "newline", "malloc", "read",
              "grow", "wait", "wait_nomem"}
  /\ text \in Texts \cup {None}
  /\ sent \in Nat /\ cap \in Nat /\ Len(buf) <= cap
  /\ {buf, got, out, inp, outp} \subseteq Seq(Chars)
  /\ fds \subseteq Ends /\ cfds \subseteq Ends
  /\ child \in {"none", "forked", "running", "exited", "failed"}
  /\ Len(inp) <= InCap /\ Len(outp) <= OutCap
  /\ answer \in [rc : Codes, audio : Seq(Chars)]
  /\ cut \in BOOLEAN /\ faults \in 0 .. MaxFaults
  /\ halfPipes \in Nat /\ lost \in Nat /\ zombies \in Nat

Tts == INSTANCE TtsCallback
         WITH Text <- Texts, Audio <- Letters, Null <- None,
              Errors <- Codes \ {"OK"},
              asked <- text, disturbed <- cut, answer <- answer

\* The callback keeps the contract handle_client relies on: WYOMING_OK comes
\* with all the audio of this call's text, whatever the pipes hold, however
\* the buffer grows and however the child ends, unless a signal interrupted
\* one of the callback's system calls; then it is still a beginning of it
\* (wyoming-server.c:120-160).
ImplementsTts == Tts!Spec

\* Each waits for the other to read.
Stuck == WriteBlocked /\ out # <<>> /\ OutHasReader /\ Len(outp) = OutCap

\* The text is written before any audio is read, so parent and child can wait
\* for each other for ever; but only over a text of several lines, where what
\* is spoken up to the end of one and what is written after it are each more
\* than a pipe holds (wyoming-server.c:124-135).
StuckOnlyOnLongLines ==
  Stuck => \E i \in DOMAIN text :
             /\ text[i] = NL
             /\ Len(Spoken(SubSeq(text, 1, i))) > OutCap
             /\ Len(text) + 1 - i > InCap

-----------------------------------------------------------------------------
(***************************************************************************)
(* The inductive invariant behind the properties.                          *)
(***************************************************************************)

\* The pipe ends the parent holds, place by place; the buffer, and the child.
ParentInv ==
  /\ tpc = "idle" <=> text = None
  /\ tpc = "fork" => text # <<>>
  /\ tpc \in {"idle", "start", "wait", "wait_nomem"} => fds = {}
  /\ tpc = "fork" => fds = Ends
  /\ tpc \in {"text", "newline"} => fds = {"in_w", "out_r"}
  /\ tpc \in {"malloc", "read", "grow"} => fds = {"out_r"}
  /\ tpc \in {"idle", "start", "fork"} <=> child = "none"
  /\ tpc \notin {"read", "grow", "wait"} => buf = <<>>
  /\ tpc = "read" => Len(buf) < cap
  /\ tpc = "grow" => cap > 0
  /\ tpc = "text" => sent < Len(text)
  /\ tpc # "text" => sent = 0

ChildInv ==
  /\ child = "forked" => cfds = Ends
  /\ child = "running" => cfds = {"in_r", "out_w"}
  /\ child \notin {"forked", "running"} => cfds = {} /\ out = <<>>
  /\ child = "none" => got = <<>> /\ inp = <<>> /\ outp = <<>>
  /\ child = "forked" => got = <<>> /\ out = <<>>

Begins(s, t) == \E r \in Seq(Chars) : s \o r = t

\* What the child has spoken (d), has read and will find in its pipe is what
\* was written: the text up to t, and then the newline.
Flow(d, t) ==
  /\ buf \o outp \o out = Spoken(d)
  /\ "in_w" \in fds => d = <<>> \/ d[Len(d)] = NL
  /\ \/ d \o got \o inp = SubSeq(text, 1, t) /\ (fds = {"out_r"} => cut)
     \/ d \o got \o inp = SubSeq(text, 1, t) \o <<NL>> /\ fds = {"out_r"}
  /\ tpc = "text" => t = sent
  /\ tpc # "text" /\ ~cut => t = Len(text)

\* The parent has forked and not stopped reading; the child is there.
Talking  == tpc \in {"text", "newline", "malloc", "read", "grow"}
Speaking == child \in {"forked", "running"}

\* Audio is lost only by a cut, and made of nothing but the text.
FlowInv ==
  /\ Talking => Begins(buf \o outp \o out, Spoken(text))
  /\ Talking /\ Speaking => \E d \in Seq(Chars), t \in 0 .. Len(text) : Flow(d, t)
  /\ tpc = "wait" => Begins(buf, Spoken(text))
  /\ tpc = "wait" /\ ~cut => ~Speaking /\ outp = <<>>
  /\ tpc \in {"text", "newline"} => child # "exited"
  /\ tpc \in {"malloc", "read", "grow", "wait"} /\ child = "exited" /\ ~cut =>
       buf \o outp = Spoken(text)

PiperInv == PiperTypeOK /\ ParentInv /\ ChildInv /\ FlowInv

=============================================================================
