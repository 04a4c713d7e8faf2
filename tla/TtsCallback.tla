----------------------------- MODULE TtsCallback -----------------------------
(***************************************************************************)
(* What handle_client relies on when it calls a text-to-speech engine      *)
(* (wyoming_tts_fn): one call at a time, answered by WYOMING_OK with the   *)
(* audio of the text that was asked for, all of it unless the engine was   *)
(* disturbed, or by an error and no audio.                                 *)
(***************************************************************************)
EXTENDS Naturals, Sequences

CONSTANTS
  Text,                     \* the texts
  Audio(_),                 \* the samples a text is spoken with
  Errors,                   \* the error codes
  Null                      \* no call

VARIABLES
  asked,                    \* the text of the call, Null between calls
  disturbed,                \* a signal or a lack of memory met this call
  answer                    \* the last answer: return code and samples

vars == <<asked, disturbed, answer>>

Prefix(s, t) == Len(s) <= Len(t) /\ s = SubSeq(t, 1, Len(s))

Failures == [rc : Errors, audio : {<<>>}]

Init ==
  /\ asked = Null
  /\ disturbed = FALSE
  /\ answer \in Failures

Ask ==
  /\ asked = Null
  /\ asked' \in Text
  /\ disturbed' = FALSE
  /\ UNCHANGED answer

Disturb ==
  /\ asked # Null
  /\ disturbed' = TRUE
  /\ UNCHANGED <<asked, answer>>

Whole(a) == a.audio = Audio(asked)
Part(a)  == disturbed' /\ Prefix(a.audio, Audio(asked))

\* The disturbance may come with the answer.
Answer ==
  /\ asked # Null
  /\ asked' = Null
  /\ disturbed' \in {disturbed, TRUE}
  /\ \/ answer' \in Failures
     \/ answer'.rc = "OK" /\ (Whole(answer') \/ Part(answer'))

Next == Ask \/ Disturb \/ Answer

Spec == Init /\ [][Next]_vars

=============================================================================
