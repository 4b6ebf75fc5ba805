SPECIFICATION Spec
CONSTANTS
  BASE = 12
  RESET_BASE = 1
  RESERVED = 12
  TOTAL = 20
  SLOTS = 1
  Usb = FALSE
  OldVolume = TRUE
  Names <- MCNames
  Contents <- MCContents
  Scaffold <- MCScaffold
  Callers <- MCCallers
  Paths <- MCPaths
  Modes <- MCModes
  Values <- MCValues
  FaultIn = {}
  MaxCalls = 0
  MaxFaults = 0
  MaxCrashes = 1
CHECK_DEADLOCK FALSE
INVARIANT NoSharing
