SPECIFICATION FairSpec
CONSTANTS
  None = None
  NL = 0
  Texts <- MCTexts
  InCap = 2
  OutCap = 2
  InitCap = 2
  MaxFaults = 2
  Files <- MCFiles
  MaxEntries = 6
  Installed = {"lessac"}
  MaxSignals = 2
  MaxClients = 2
  MaxRequests = 2
INVARIANTS TypeOK ServesConfiguration StuckOnlyOnLongLines LeaksExplained
PROPERTIES ImplementsTts SignalEndsDaemon RequestReturns
