\* The text-mode build: boot thread, up to three tasks, two-tick quantum.
SPECIFICATION SpecH
CONSTANTS
  PROC_MAX = 5
  PROC_QUANTUM = 2
  MaxStacks = 3
  InitTasks = 4
  GdeBuild = FALSE
  Calls <- TextCalls
INVARIANTS OneRunning OwnStack
PROPERTIES DispatchRunnable NoOvertaking RunnableRuns DeadStops ImplementsProcessor
