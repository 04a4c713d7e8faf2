SPECIFICATION FairSpec
CONSTANTS
  Byte <- MCByte
  NL = 0
  Type = {"a"}
  Length <- MCLength
  Header <- MCHeader
  JsonDoc <- MCJsonDoc
  Event <- MCEvent
  ReadBufSize = 3
  SockBuf = 4
  RcvTimeout = TRUE
  MaxEvents = 2
PROPERTY
  EventsArrive
