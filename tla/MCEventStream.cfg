SPECIFICATION Spec
CONSTANTS
  Byte <- MCByte
  NL = 0
  Type = {"a"}
  Length <- MCLength
  Header <- MCHeader
  JsonDoc <- MCJsonDoc
  Event <- MCEvent
  ReadBufSize = 3
  SockBuf = 4
  RcvTimeout = TRUE
  MaxEvents = 3
INVARIANTS
  TypeOK
  BytesInOrder
  DeliveredInOrder
  EofAfterLastEvent
PROPERTY
  ImplementsChannel
