-------------------------- MODULE MCWyomingDaemon --------------------------
(* The daemon on a few configuration files and texts. *)
EXTENDS WyomingDaemon

MCHeader(n) == [kind |-> "section", name |-> n, closed |-> TRUE]
MCBroken(n) == [kind |-> "section", name |-> n, closed |-> FALSE]
MCEntry(k, v) == [kind |-> "entry", key |-> k,
                  value |-> [is |-> v, quoted |-> FALSE]]
MCQuoted(k, v) == [kind |-> "entry", key |-> k,
                   value |-> [is |-> v, quoted |-> TRUE]]
MCComment == [kind |-> "comment"]

\* Both services; a streaming recognizer and a voice that is not there; two
\* values for one key, a header without its bracket and an entry too many; a
\* quoted engine and an entry outside any section; a streaming recognizer
\* without a model type.
MCFiles ==
  {<<MCHeader("tts"), MCEntry("engine", "piper"), MCEntry("model", "lessac"),
     MCComment, MCHeader("asr"), MCEntry("engine", "sherpa"),
     MCEntry("model_dir", "dir")>>,
   <<MCHeader("asr"), MCEntry("engine", "sherpa"), MCEntry("model_dir", "dir"),
     MCEntry("streaming", "true"), MCEntry("model_type", "zipformer"),
     MCHeader("tts"), MCEntry("engine", "piper"), MCEntry("model", "absent")>>,
   <<MCHeader("tts"), MCEntry("engine", "piper-native"), MCBroken("asr"),
     MCEntry("engine", "sherpa"), MCEntry("engine", "piper"),
     MCEntry("model", "lessac"), MCHeader("asr"), MCEntry("engine", "sherpa"),
     MCEntry("streaming", "no"), MCEntry("model_dir", "dir")>>,
   <<MCEntry("engine", "piper"), MCHeader("tts"), MCQuoted("engine", "piper"),
     MCEntry("engine", "piper"), MCEntry("model", "lessac")>>,
   <<MCHeader("asr"), MCEntry("streaming", "true"), MCEntry("engine", "sherpa"),
     MCEntry("model_dir", "dir")>>}

\* Nothing; one letter; one line longer than a pipe; two lines, the first of
\* which is spoken by more than a pipe holds, with the rest as long as a pipe
\* and one longer.
MCTexts == {<<>>, <<1>>, <<1, 2, 3>>, <<1, 2, 0, 3>>, <<1, 2, 0, 3, 4>>}

=============================================================================
