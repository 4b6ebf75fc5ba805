SPECIFICATION VolumesSpec
CONSTANTS
  NCLUS = 4
  FSLOTS = 3
  to_83 <- MC83
  NBLOCKS = 7
  NINODES = 4
  NDIRECT = 1
  PTRS = 3
  UNITS = 3
  Paths <- MCPaths
  Values <- MCValues
  SubDir = "d"
  FAT_LBA = 1
  EXT_LBA = 10
  MaxCommands <- MCCommands
  MaxFaults = 1
INVARIANTS FatConsistent ExtConsistent
PROPERTIES OthersUntouched
CHECK_DEADLOCK FALSE
