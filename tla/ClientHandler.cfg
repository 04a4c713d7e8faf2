SPECIFICATION ReadingPeerSpec
CONSTANTS
  HasTTS = TRUE
  HasASR = TRUE
  HasStream = TRUE
  HasDestroy = TRUE
  Bytes = {0, 1, 2, 6}
  MinCap = 2
  OutCap = 2
  MaxChunks = 2
  MaxReads = 6
INVARIANTS
  HandlerTypeOK
  AnswersComplete
  ContextLifetime
  PcmFits
  TimeoutRestored
  StopIsPrompt
PROPERTY
  HandlerReturns
