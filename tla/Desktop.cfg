SPECIFICATION MCSpec
CONSTANTS
  MAX_WINDOWS = 2
  TASKBAR_H = 1
  MIN_W = 4
  MIN_H = 2
  CTX_W = 2
  MENU_W = 2
  KB_BUF_SIZE = 3
  MaxEvents = 5
  MaxBurst = 2
  Resolutions <- MCResolutions
  Boot <- MCBoot
  Geo <- MCGeo
  Icons <- MCIcons
  CtxItems <- MCCtxItems
  StartItems <- MCStartItems
  Opened <- MCOpened
  Points <- MCPoints
INVARIANTS
  FocusSound
  TitleBarReachable
PROPERTIES
  PressActedOn
CHECK_DEADLOCK FALSE
