SPECIFICATION HeapSpec
CONSTANTS
  START = 8
  POOL = 12
  HEADER = 2
  WRAP = 64
  Requests <- MCRequests
INVARIANTS Tiling AllocationsDisjoint Coalesced
PROPERTIES FailsOnlyWhenFull CallsReturn
