------------------------------- MODULE Sched -------------------------------
(***************************************************************************)
(* The process manager of PD-OS: kernel/core/process.c, its IRQ0 entry     *)
(* kernel/arch/x86/sched_entry.asm and the threads kernel_main starts.     *)
(*                                                                         *)
(* A thread of control is named by the stack it runs on, a member of       *)
(* Contexts: context 0 is the boot thread, context k > 0 the thread whose  *)
(* stack was the k-th one kmalloc handed to proc_create.  A saved ESP is   *)
(* therefore the context it resumes, or NoFrame for the value 0 that a PCB *)
(* holds before anything was saved there.  `cpu' is the context the        *)
(* processor is really executing, which the kernel's own g_current may or  *)
(* may not describe.                                                       *)
(*                                                                         *)
(* IRQ0 arrives through an interrupt gate, so Tick is atomic; every other  *)
(* function runs with interrupts enabled and is cut into the steps between *)
(* which the timer can preempt it.                                         *)
(***************************************************************************)
EXTENDS Integers

CONSTANTS
  PROC_MAX,      \* slots of the PCB table
  PROC_QUANTUM,  \* timer ticks of a time slice
  MaxStacks,     \* kernel stacks the heap can supply (none is ever freed)
  InitTasks,     \* tasks the boot thread creates before its first sti
  GdeBuild,      \* TRUE for the graphical build, which creates a task after sti
  Calls          \* the process calls each thread's own code makes

ASSUME SchedAssumption ==
  /\ PROC_MAX \in Nat /\ PROC_MAX >= 2
  /\ PROC_QUANTUM \in Nat \ {0}
  /\ MaxStacks \in Nat
  /\ InitTasks \in Nat
  /\ GdeBuild \in BOOLEAN
  /\ Calls \in [0..MaxStacks -> SUBSET {"sleep", "exit", "kill"}]

Slots    == 0..(PROC_MAX - 1)
Contexts == 0..MaxStacks
NoFrame  == -1          \* saved_esp = 0
NoSlot   == PROC_MAX    \* proc_create's search ran off the table

States == {"UNUSED", "RUNNABLE", "RUNNING", "SLEEPING", "DEAD"}

\* What the boot thread is doing: kernel_main before and after sti, the four
\* stages of a proc_create call, and the final sleep loop of the GDE build.
BootStages == {"boot", "main", "yield"}
CreateStages == {"none", "pid", "state", "frame"}

VARIABLES
  pid, state, ticks_rem,   \* fields of g_procs[slot]
  stack_base, saved_esp,
  g_current, g_next_pid,
  cpu,                     \* the context being executed
  irqOn,                   \* the IF flag of the boot thread's sti
  boot,                    \* the boot thread's stage in kernel_main
  create,                  \* ... and inside proc_create: the stage it is at,
  slot, stack,             \*     its locals,
  nstacks,                 \*     and how many stacks kmalloc gave out
  exited                   \* contexts spinning at the end of proc_exit

table == <<pid, state, ticks_rem, stack_base, saved_esp>>
call  == <<create, slot, stack, nstacks>>
vars  == <<table, g_current, g_next_pid, cpu, irqOn, boot, call, exited>>

TypeOK ==
  /\ pid \in [Slots -> Nat]
  /\ state \in [Slots -> States]
  /\ ticks_rem \in [Slots -> Int]
  /\ stack_base \in [Slots -> Contexts \cup {NoFrame}]
  /\ saved_esp \in [Slots -> Contexts \cup {NoFrame}]
  /\ g_current \in Slots
  /\ g_next_pid \in Nat
  /\ cpu \in Contexts \cup {NoFrame}
  /\ irqOn \in BOOLEAN
  /\ boot \in BootStages
  /\ create \in CreateStages
  /\ slot \in 1..NoSlot
  /\ stack \in Contexts
  /\ nstacks \in Contexts
  /\ exited \subseteq Contexts

-----------------------------------------------------------------------------
(* proc_init: the boot thread takes slot 0 and pid 0. *)
Init ==
  /\ pid = [s \in Slots |-> 0]
  /\ state = [s \in Slots |-> IF s = 0 THEN "RUNNING" ELSE "UNUSED"]
  /\ ticks_rem = [s \in Slots |-> IF s = 0 THEN PROC_QUANTUM ELSE 0]
  /\ stack_base = [s \in Slots |-> IF s = 0 THEN 0 ELSE NoFrame]
  /\ saved_esp = [s \in Slots |-> NoFrame]
  /\ g_current = 0
  /\ g_next_pid = 1
  /\ cpu = 0
  /\ irqOn = FALSE
  /\ boot = "boot"
  /\ create = "none" /\ slot = NoSlot /\ stack = 0 /\ nstacks = 0
  /\ exited = {}

-----------------------------------------------------------------------------
(* sched_irq *)

\* Mutant: the search forgets that sleeping tasks are to be skipped.
Mutant_CanRunSleeping(s) == state[s] \in {"RUNNABLE", "RUNNING", "SLEEPING"}

CanRun(s) == state[s] \in {"RUNNABLE", "RUNNING"}

\* The slot d places after s in the circular table.
After(s, d) == IF s + d < PROC_MAX THEN s + d ELSE s + d - PROC_MAX

\* Mutant: the search starts one slot too far.
Mutant_PickedSkips(s, next) ==
  \/ \E d \in 2..PROC_MAX :
       /\ next = After(s, d)
       /\ CanRun(next)
       /\ \A e \in 2..(d - 1) : ~CanRun(After(s, e))
  \/ /\ \A d \in 2..PROC_MAX : ~CanRun(After(s, d))
     /\ next = After(s, 2)

\* The round-robin search: the first slot after s that can run or, when
\* all PROC_MAX tries fail, the slot the index has wrapped around to.
Picked(s, next) ==
  \/ \E d \in 1..PROC_MAX :
       /\ next = After(s, d)
       /\ CanRun(next)
       /\ \A e \in 1..(d - 1) : ~CanRun(After(s, e))
  \/ /\ \A d \in 1..PROC_MAX : ~CanRun(After(s, d))
     /\ next = After(s, 1)

\* The interrupted thread goes on with what is left of its quantum.
Stay(rem) ==
  /\ ticks_rem' = [ticks_rem EXCEPT ![g_current] = rem]
  /\ UNCHANGED <<state, g_current, cpu>>

\* The search came back to the current slot: it gets a new quantum.
Renew ==
  /\ state' = [state EXCEPT ![g_current] = IF @ = "SLEEPING" THEN "RUNNING" ELSE @]
  /\ ticks_rem' = [ticks_rem EXCEPT ![g_current] = PROC_QUANTUM]
  /\ UNCHANGED <<g_current, cpu>>

\* Mutant: the preempted task keeps the state RUNNING.
Mutant_SwitchNoDemote(next, rem) ==
  /\ state' = [state EXCEPT ![next] = "RUNNING"]
  /\ ticks_rem' = [ticks_rem EXCEPT ![g_current] = rem, ![next] = PROC_QUANTUM]
  /\ g_current' = next
  /\ cpu' = saved_esp[next]

\* Mutant: the switch returns the ESP of the task it leaves.
Mutant_SwitchOldEsp(next, rem) ==
  /\ state' = [state EXCEPT ![g_current] = IF @ = "RUNNING" THEN "RUNNABLE" ELSE @,
                            ![next] = "RUNNING"]
  /\ ticks_rem' = [ticks_rem EXCEPT ![g_current] = rem, ![next] = PROC_QUANTUM]
  /\ g_current' = next
  /\ cpu' = saved_esp[g_current]

\* Switch to slot next: iret pops whatever frame its saved ESP points at.
SwitchTo(next, rem) ==
  /\ state' = [state EXCEPT ![g_current] = IF @ = "RUNNING" THEN "RUNNABLE" ELSE @,
                            ![next] = "RUNNING"]
  /\ ticks_rem' = [ticks_rem EXCEPT ![g_current] = rem, ![next] = PROC_QUANTUM]
  /\ g_current' = next
  /\ cpu' = saved_esp[next]

\* Mutant: a task that is dead returns before its quantum is counted.
Mutant_TickDead ==
  /\ irqOn /\ cpu \in Contexts
  /\ saved_esp' = [saved_esp EXCEPT ![g_current] = cpu]
  /\ LET rem == ticks_rem[g_current] - 1 IN
       IF state[g_current] = "DEAD"
       THEN UNCHANGED <<ticks_rem, state, g_current, cpu>>
       ELSE IF rem > 0 /\ state[g_current] # "SLEEPING"
       THEN Stay(rem)
       ELSE \E next \in Slots :
              /\ Picked(g_current, next)
              /\ IF next = g_current THEN Renew ELSE SwitchTo(next, rem)
  /\ UNCHANGED <<pid, stack_base, g_next_pid, irqOn, boot, call, exited>>

Tick ==
  /\ irqOn /\ cpu \in Contexts
  /\ saved_esp' = [saved_esp EXCEPT ![g_current] = cpu]
  /\ LET rem == ticks_rem[g_current] - 1 IN
       IF rem > 0 /\ state[g_current] # "SLEEPING"
       THEN Stay(rem)
       ELSE \E next \in Slots :
              /\ Picked(g_current, next)
              /\ IF next = g_current THEN Renew ELSE SwitchTo(next, rem)
  /\ UNCHANGED <<pid, stack_base, g_next_pid, irqOn, boot, call, exited>>

-----------------------------------------------------------------------------
(* proc_create, called only by the boot thread *)

Free(s) == state[s] \in {"UNUSED", "DEAD"}

MayCreate ==
  /\ cpu = 0 /\ create = "none"
  /\ \/ boot = "boot" /\ g_next_pid <= InitTasks
     \/ boot = "main" /\ GdeBuild

\* In the GDE build kernel_main ignores the result and falls asleep.
AfterCreate == IF boot = "main" THEN "yield" ELSE boot

NoRoom == (\A s \in Slots \ {0} : ~Free(s)) \/ nstacks = MaxStacks

CreateFail ==
  /\ MayCreate
  /\ NoRoom
  /\ boot' = AfterCreate
  /\ UNCHANGED <<table, g_current, g_next_pid, cpu, irqOn, call, exited>>

\* Pick the lowest free slot, take a stack from the heap, build the frame.
CreateBegin ==
  /\ MayCreate
  /\ nstacks < MaxStacks
  /\ \E s \in Slots \ {0} :
       /\ Free(s)
       /\ \A t \in 1..(s - 1) : ~Free(t)
       /\ slot' = s
  /\ nstacks' = nstacks + 1
  /\ stack' = nstacks + 1
  /\ create' = "pid"
  /\ UNCHANGED <<table, g_current, g_next_pid, cpu, irqOn, boot, exited>>

CreatePid ==
  /\ cpu = 0 /\ create = "pid"
  /\ pid' = [pid EXCEPT ![slot] = g_next_pid]
  /\ g_next_pid' = g_next_pid + 1
  /\ create' = "state"
  /\ UNCHANGED <<state, ticks_rem, stack_base, saved_esp, g_current, cpu, irqOn,
                 boot, slot, stack, nstacks, exited>>

CreateState ==
  /\ cpu = 0 /\ create = "state"
  /\ state' = [state EXCEPT ![slot] = "RUNNABLE"]
  /\ create' = "frame"
  /\ UNCHANGED <<pid, ticks_rem, stack_base, saved_esp, g_current, g_next_pid,
                 cpu, irqOn, boot, slot, stack, nstacks, exited>>

CreateFrame ==
  /\ cpu = 0 /\ create = "frame"
  /\ ticks_rem' = [ticks_rem EXCEPT ![slot] = PROC_QUANTUM]
  /\ stack_base' = [stack_base EXCEPT ![slot] = stack]
  /\ saved_esp' = [saved_esp EXCEPT ![slot] = stack]
  /\ create' = "none"
  /\ boot' = AfterCreate
  /\ UNCHANGED <<pid, state, g_current, g_next_pid, cpu, irqOn, slot, stack,
                 nstacks, exited>>

Sti ==
  /\ cpu = 0 /\ boot = "boot" /\ create = "none"
  /\ MayCreate => NoRoom
  /\ irqOn' = TRUE
  /\ boot' = "main"
  /\ UNCHANGED <<table, g_current, g_next_pid, cpu, call, exited>>

-----------------------------------------------------------------------------
(* The calls of the threads' own code.  Each touches one word of the table
   and none of them looks at which stack it runs on: the victim is g_current. *)

\* A thread can make the call c: its program contains it, it is not inside
\* proc_create and not spinning after proc_exit.
Executes(c) ==
  /\ cpu \in Contexts \ exited
  /\ IF cpu = 0
     THEN /\ create = "none"
          /\ \/ boot = "main" /\ ~GdeBuild /\ c \in Calls[0]
             \/ boot = "yield" /\ c = "sleep"
     ELSE c \in Calls[cpu]

SetState(s, v) ==
  /\ state' = [state EXCEPT ![s] = v]
  /\ UNCHANGED <<pid, ticks_rem, stack_base, saved_esp, g_current, g_next_pid,
                 cpu, irqOn, boot, call>>

ProcSleep ==
  /\ Executes("sleep")
  /\ state[g_current] = "RUNNING"
  /\ SetState(g_current, "SLEEPING")
  /\ UNCHANGED exited

ProcExit ==
  /\ Executes("exit")
  /\ SetState(g_current, "DEAD")
  /\ exited' = exited \cup {cpu}

\* proc_kill(p): a task that sleeps is found and refused (the call returns -1
\* as it does for an unknown pid, and changes nothing).
ProcKill(p) ==
  /\ Executes("kill")
  /\ p # 0
  /\ \E s \in Slots :
       /\ pid[s] = p
       /\ \A t \in 0..(s - 1) : pid[t] # p
       /\ CanRun(s)
       /\ SetState(s, "DEAD")
  /\ UNCHANGED exited

\* Mutant: a wake-up does not look at the state of the task it finds.
Mutant_WakeAny(p) ==
  /\ irqOn
  /\ p < PROC_MAX
  /\ \E s \in Slots :
       /\ pid[s] = p
       /\ \A t \in 0..(s - 1) : pid[t] # p
       /\ SetState(s, "RUNNABLE")
  /\ UNCHANGED exited

\* proc_wake(p), offered to interrupt handlers.  Its bound check compares a
\* pid, which only grows, with the size of the table.
ProcWake(p) ==
  /\ irqOn
  /\ p < PROC_MAX
  /\ \E s \in Slots :
       /\ pid[s] = p /\ state[s] = "SLEEPING"
       /\ \A t \in 0..(s - 1) : ~(pid[t] = p /\ state[t] = "SLEEPING")
       /\ SetState(s, "RUNNABLE")
  /\ UNCHANGED exited

-----------------------------------------------------------------------------
BootStep == CreateFail \/ CreateBegin \/ CreatePid \/ CreateState \/ CreateFrame \/ Sti

Next ==
  \/ Tick
  \/ BootStep
  \/ ProcSleep
  \/ ProcExit
  \/ \E s \in Slots : ProcKill(pid[s])
  \/ \E s \in Slots : ProcWake(pid[s])

\* The PIT keeps interrupting, and the boot thread goes on with its program.
Fairness == WF_vars(Tick) /\ WF_vars(BootStep)

Spec == Init /\ [][Next]_vars /\ Fairness

-----------------------------------------------------------------------------
(* Correctness *)

\* At most one slot is RUNNING, and it is the slot the kernel believes is
\* executing (g_current), whoever was put to sleep, woken or killed meanwhile.
OneRunning == \A s \in Slots : state[s] = "RUNNING" => s = g_current

\* The processor really executes the thread that g_current's slot describes.
OwnStack == cpu = stack_base[g_current]

\* As long as any task can run, the timer dispatches only RUNNABLE ones.
DispatchIfAny ==
  [][g_current' # g_current /\ (\E s \in Slots : CanRun(s))
       => state[g_current'] = "RUNNABLE"]_vars

\* The timer gives the CPU only to a task that is RUNNABLE: never to one that
\* sleeps, is dead or never existed ("skip SLEEPING and UNUSED/DEAD",
\* process.c:86), however sleeps, kills and ticks interleave.
DispatchRunnable ==
  [][g_current' # g_current => state[g_current'] = "RUNNABLE"]_vars

\* A newly dispatched task resumes on its own stack; for a task that has not
\* run yet this is the interrupt frame proc_create built there.
DispatchOwnFrame ==
  [][g_current' # g_current /\ state[g_current'] = "RUNNABLE"
       => cpu' \in Contexts /\ cpu' = stack_base'[g_current']]_vars

-----------------------------------------------------------------------------
(* Refinement: the life of a context, read off the table. *)
HasSlot(c, states) == \E s \in Slots : stack_base[s] = c /\ state[s] \in states

PhaseOf(c) ==
  CASE HasSlot(c, {"RUNNABLE", "RUNNING"})             -> "ready"
    [] HasSlot(c, {"SLEEPING"})                        -> "blocked"
    [] c > nstacks \/ (create # "none" /\ c = stack)   -> "new"
    [] OTHER                                           -> "done"

Abs == INSTANCE Processor WITH Tasks <- Contexts, on <- cpu,
                               phase <- [c \in Contexts |-> PhaseOf(c)]

\* The kernel implements the abstract processor of Processor.tla: a finished
\* task never comes back, and only ready tasks are dispatched.
ImplementsProcessor == Abs!Spec
=============================================================================
