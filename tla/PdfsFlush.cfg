SPECIFICATION Spec
CONSTANTS
  BASE = 12
  RESET_BASE = 1
  RESERVED = 12
  TOTAL = 20
  SLOTS = 1
  Usb = TRUE
  OldVolume = FALSE
  Names <- MCNames
  Contents <- MCContents
  Scaffold <- MCScaffold
  Callers <- MCRoot
  Paths <- MCPaths
  Modes <- MCModes
  Values <- MCValues
  FaultIn = {"sb"}
  MaxCalls = 2
  MaxFaults = 1
  MaxCrashes = 1
CHECK_DEADLOCK FALSE
INVARIANT SectorsExclusive
