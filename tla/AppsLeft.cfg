SPECIFICATION SpecK
CONSTANTS
  TREE_MAX = 4
  CHILD_MAX = 2
  PANE_MAX = 3
  Order <- MCOrder
  TextNames = {"t"}
  TE_BUF_MAX = 5
  TE_LINE_MAX = 5
  VISIBLE = 2
  Placeholder <- MCPlaceholder
  Volumes <- MCVolumes
  Contents <- MCContents
  NewFile <- MCNewFile
  Keys <- MCKeys
  MaxInputs = 5

PROPERTIES ArrowsOnlyMove
CHECK_DEADLOCK FALSE
