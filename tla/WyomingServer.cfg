SPECIFICATION FairSpec
CONSTANTS
  HasTTS = TRUE
  HasASR = TRUE
  HasStream = TRUE
  HasDestroy = TRUE
  Bytes = {0, 2}
  MinCap = 2
  OutCap = 1
  MaxChunks = 1
  MaxReads = 3
  UseEpoll = TRUE
  MaxStops = 2
  MaxRuns = 2
  MaxConns = 3
INVARIANTS
  StopAdmitsFew
  CleanReturn
PROPERTIES
  ReturnsForAStop
  StopEndsRun
