SPECIFICATION Spec
CONSTANTS
  ann = ann
  bob = bob
  cat = cat
  MAX_USERS = 5
  UIDS = 256
  Names <- MCNames
  Hashes = {"hr", "hp"}
  RootHash = "hr"
  PdHash = "hp"
  MAX_ATTEMPTS = 2
  MaxCalls = 3
  MaxFaults = 1
  MaxBoots = 2
SYMMETRY Symmetry
INVARIANTS AccountsDistinct RebootRestores SessionFresh OwnsHome
CHECK_DEADLOCK FALSE
