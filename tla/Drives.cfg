SPECIFICATION Spec
CONSTANTS
  Buses <- MCBuses
  Lba <- MCLba
  Image <- MCImage
  Values <- MCValues
  Zero <- MCZero
  Junk <- MCJunk
  MaxTag = 4
  WizardSecs = 2
  INST_BOOT_SECS = 3
  INST_CHUNK = 2
  INST_PDFS_ZERO = 1
  Fitted <- MCFitted
  Used <- MCUsed
  MaxCount = 2
  MaxBoots = 1
INVARIANTS
  DiskAddressed
  CompletedIsOnMedium
  InstalledIsImage
CHECK_DEADLOCK FALSE
