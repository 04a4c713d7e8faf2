SPECIFICATION HandlerSpec
CONSTANTS
  HasTTS = TRUE
  HasASR = TRUE
  HasStream = TRUE
  HasDestroy = TRUE
  Bytes = {0, 1, 2, 6}
  MinCap = 2
  OutCap = 2
  MaxChunks = 2
  MaxReads = 6
INVARIANT
  DrainAfterAudioStop
