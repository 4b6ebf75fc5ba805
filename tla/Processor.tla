----------------------------- MODULE Processor -----------------------------
(***************************************************************************)
(* What PD-OS's process manager promises, without slots, quanta or frames: *)
(* one CPU, a set of tasks, and a dispatcher that only ever gives the CPU  *)
(* to a task that is ready.  A task is admitted once, may block and be     *)
(* woken any number of times, and once finished never comes back.          *)
(*                                                                         *)
(* Sched.tla is shown to implement this module.                            *)
(***************************************************************************)
CONSTANT Tasks

VARIABLES
  phase,  \* the life-cycle phase of each task
  on      \* the task the CPU is executing

vars == <<phase, on>>

Phases == {"new", "ready", "blocked", "done"}

TypeOK ==
  /\ phase \in [Tasks -> Phases]
  /\ on \in Tasks

Init ==
  \E t \in Tasks :
    /\ on = t
    /\ phase = [u \in Tasks |-> IF u = t THEN "ready" ELSE "new"]

Move(t, from, to) ==
  /\ phase[t] \in from
  /\ phase' = [phase EXCEPT ![t] = to]
  /\ UNCHANGED on

Admit(t)  == Move(t, {"new"}, "ready")
Block     == Move(on, {"ready"}, "blocked")    \* only the task itself blocks
Wake(t)   == Move(t, {"blocked"}, "ready")
\* A task that has blocked holds the CPU until the next tick and may still end.
Finish(t) == Move(t, {"ready", "blocked"}, "done")

Dispatch(t) ==
  /\ phase[t] = "ready"
  /\ on' = t
  /\ UNCHANGED phase

Next ==
  \/ Block
  \/ \E t \in Tasks : Admit(t) \/ Wake(t) \/ Finish(t) \/ Dispatch(t)

Spec == Init /\ [][Next]_vars
=============================================================================
