------------------------------ MODULE MCSched ------------------------------
(***************************************************************************)
(* Model checking of Sched.tla: the environments of the two builds of the  *)
(* kernel and a history variable for the round-robin order.                *)
(***************************************************************************)
EXTENDS Sched

\* Text build: the shell runs on the boot thread and kills tasks; the other
\* threads are arbitrary users of the process calls.
TextCalls == [c \in Contexts |-> IF c = 0 THEN {"kill"} ELSE {"sleep", "exit", "kill"}]

\* Graphical build: context 1 is idle_task, context 2 the gde-session thread,
\* whose terminal window runs the shell's `kill' command.
GdeCalls == [c \in Contexts |-> IF c = 1 THEN {"sleep"} ELSE IF c = 2 THEN {"kill"} ELSE {}]

VARIABLE since   \* per slot: the slots dispatched while it has been waiting

Waiting(s) == state[s] = "RUNNABLE" /\ s # g_current

InitH == Init /\ since = [s \in Slots |-> {}]

NextH ==
  /\ Next
  /\ since' = [s \in Slots |->
                 IF Waiting(s) /\ Waiting(s)' THEN since[s] \cup ({g_current'} \ {g_current}) ELSE {}]

SpecH == InitH /\ [][NextH]_<<vars, since>> /\ Fairness

-----------------------------------------------------------------------------
\* Round robin: while a task waits for the CPU no other is dispatched twice.
NoOvertaking ==
  [][\A s \in Slots : g_current' # g_current /\ Waiting(s) => g_current' \notin since[s]]_<<vars, since>>

\* No starvation: with interrupts on, a task that is RUNNABLE gets the CPU
\* unless it is killed first.
RunnableRuns ==
  \A s \in Slots : irqOn /\ state[s] = "RUNNABLE" ~> g_current = s \/ state[s] = "DEAD"

\* A task that is killed, or exits, while it holds the CPU loses it.
DeadStops ==
  \A s \in Slots : irqOn /\ g_current = s /\ state[s] = "DEAD" ~> g_current # s
=============================================================================
