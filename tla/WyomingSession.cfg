SPECIFICATION FairSpec
CONSTANTS
  HasTTS = TRUE
  HasASR = TRUE
  HasStream = TRUE
  HasDestroy = TRUE
  Bytes = {0, 2}
  MinCap = 2
  OutCap = 1
  MaxChunks = 1
  MaxReads = 30
  InCap = 1
  MaxSamples = 2
  MaxCalls = 4
INVARIANTS
  OwnAnswers
  CallsEndBoth
  RequestsDispatched
  OnlyStreamsBlock
PROPERTY
  CallsReturn
