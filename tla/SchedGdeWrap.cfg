\* The graphical build: idle is created before sti, gde-session after it, and
\* the boot thread then sleeps for good.
SPECIFICATION SpecH
CONSTANTS
  PROC_MAX = 4
  PROC_QUANTUM = 3
  MaxStacks = 2
  InitTasks = 1
  GdeBuild = TRUE
  Calls <- GdeCalls
CHECK_DEADLOCK FALSE
PROPERTIES DispatchRunnable
