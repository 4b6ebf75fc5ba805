SPECIFICATION Spec
CONSTANTS
  BASE = 12
  RESET_BASE = 1
  RESERVED = 12
  TOTAL = 20
  SLOTS = 1
  Usb = TRUE
  OldVolume = FALSE
  Names <- MCNames
  Contents <- MCContents
  Scaffold <- MCScaffold
  Callers <- MCCallers
  Paths <- MCPaths
  Modes <- MCModes
  Values <- MCValues
  FaultIn = {"format", "other"}
  MaxCalls = 2
  MaxFaults = 1
  MaxCrashes = 1
INVARIANTS NoSharing UniqueNames NoForeignData
PROPERTIES OnlyNamedPathChanges WrittenIsDurable AllocatorMonotonic
CHECK_DEADLOCK FALSE
