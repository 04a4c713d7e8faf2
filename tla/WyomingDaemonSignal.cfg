SPECIFICATION Spec
CONSTANTS
  None = None
  NL = 0
  Texts <- MCTexts
  InCap = 2
  OutCap = 2
  InitCap = 2
  MaxFaults = 0
  Files <- MCFiles
  MaxEntries = 6
  Installed = {"lessac"}
  MaxSignals = 2
  MaxClients = 0
  MaxRequests = 0
INVARIANT SignalSafeStop
