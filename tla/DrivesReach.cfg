SPECIFICATION Spec
CONSTANTS
  Buses <- MCKeyboardLast
  Lba <- MCLba
  Image <- MCImage
  Values <- MCValues
  Zero <- MCZero
  Junk <- MCJunk
  MaxTag = 4
  WizardSecs = 2
  INST_BOOT_SECS = 3
  INST_CHUNK = 2
  INST_PDFS_ZERO = 1
  Fitted <- MCFitted
  Used <- MCUsed
  MaxCount = 2
  MaxBoots = 1
INVARIANT DiskReachable
CHECK_DEADLOCK FALSE
