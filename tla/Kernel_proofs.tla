--------------------------- MODULE Kernel_proofs ---------------------------
(***************************************************************************)
(* Proofs about the scheduler, the heap, and the volumes under the mount   *)
(* table.                                                                  *)
(*                                                                         *)
(* Sched.tla: for every table size, quantum, number of tasks and for every *)
(* interleaving of the timer with the process calls, first the text-mode   *)
(* build, that it implements Processor.tla among it, then what holds of    *)
(* both builds, round robin among it. In the text build the boot thread    *)
(* runs the shell for ever: it neither sleeps nor exits, and proc_kill     *)
(* refuses its pid, so there is always a task the round-robin search can   *)
(* find; and proc_create runs only before the first sti, so the timer      *)
(* never sees a half-built table entry. Inv says exactly that, slot by     *)
(* slot.                                                                   *)
(*                                                                         *)
(* KHeap.tla: for every pool, header size and set of request sizes.        *)
(* Tiling is almost inductive by itself: a split or a merge only needs to  *)
(* know that its cursor is on the list.  What the two loops have already   *)
(* seen (SearchInv, CoalesceInv) then gives the completeness of the search *)
(* and the fact that no two neighbours stay free.                          *)
(*                                                                         *)
(* Volumes.tla: for volumes of every size and commands, paths, contents    *)
(* and I/O errors of any number.  A table leads nowhere in a circle        *)
(* (NoLoop): a cluster is linked to one that was free and is now the end   *)
(* of its chain.  Who owns a cluster is a ghost (Owned); only the error    *)
(* that cuts a write short takes it away.  The ext2 volume shares the      *)
(* commands, and what it must keep for them is its shape (ExtTyped).       *)
(***************************************************************************)
EXTENDS MCSched, KHeap, Volumes, DataLemmas

-----------------------------------------------------------------------------
(* The scheduler *)

\* The environment of the text build.
TextBuild == ~GdeBuild /\ Calls[0] \subseteq {"kill"}

\* Slots whose entry is complete and belongs to a task that can still run.
Live(s) == state[s] \in {"RUNNABLE", "RUNNING", "SLEEPING"} /\ ~(create = "frame" /\ s = slot)

\* The boot thread owns slot 0, its stack and pid 0, and can always run.
BootInv ==
  /\ CanRun(0)
  /\ pid[0] = 0
  /\ stack_base[0] = 0
  /\ \A s \in Slots \ {0} : stack_base[s] # 0

\* The text build creates tasks only while interrupts are still off.
CreateInv ==
  /\ boot \in {"boot", "main"}
  /\ irqOn <=> boot = "main"
  /\ ~irqOn => g_current = 0
  /\ create # "none" => ~irqOn /\ slot \in Slots \ {0} /\ stack # 0

\* Every live task other than the current one has its frame on its own stack.
FrameInv ==
  \A s \in Slots : Live(s) /\ s # g_current =>
    stack_base[s] \in Contexts /\ saved_esp[s] = stack_base[s]

Inv ==
  /\ TypeOK
  /\ OneRunning
  /\ OwnStack /\ cpu \in Contexts
  /\ BootInv
  /\ CreateInv
  /\ FrameInv

USE SchedAssumption

-----------------------------------------------------------------------------
\* The circular successor stays inside the table.
LEMMA AfterInSlots ==
  ASSUME NEW s \in Slots, NEW d \in 1..PROC_MAX
  PROVE  After(s, d) \in Slots
BY DEF After, Slots

\* The search of sched_irq visits every slot.
LEMMA AfterReachesAll ==
  ASSUME NEW s \in Slots, NEW t \in Slots
  PROVE  \E d \in 1..PROC_MAX : After(s, d) = t
<1>1. CASE t > s
  <2>1. t - s \in 1..PROC_MAX /\ After(s, t - s) = t
    BY <1>1 DEF After, Slots
  <2> QED BY <2>1
<1>2. CASE t <= s
  <2>1. t - s + PROC_MAX \in 1..PROC_MAX /\ After(s, t - s + PROC_MAX) = t
    BY <1>2 DEF After, Slots
  <2> QED BY <2>1
<1> QED BY <1>1, <1>2 DEF Slots

\* As long as some slot can run, the search ends at one that can.
LEMMA PickedCanRun ==
  ASSUME NEW s \in Slots, NEW t \in Slots, CanRun(t),
         NEW nxt \in Slots, Picked(s, nxt)
  PROVE  CanRun(nxt)
BY AfterReachesAll DEF Picked

-----------------------------------------------------------------------------
LEMMA InvInit == ASSUME TextBuild PROVE Init => Inv
<1> SUFFICES ASSUME Init PROVE Inv
  OBVIOUS
<1> USE DEF Init, Slots, Contexts, NoFrame, NoSlot
<1>1. TypeOK
  <2>1. pid \in [Slots -> Nat] OBVIOUS
  <2>2. state \in [Slots -> States] BY DEF States
  <2>3. ticks_rem \in [Slots -> Int] OBVIOUS
  <2>4. stack_base \in [Slots -> Contexts \cup {NoFrame}] OBVIOUS
  <2>5. saved_esp \in [Slots -> Contexts \cup {NoFrame}] OBVIOUS
  <2>6. g_current \in Slots /\ g_next_pid \in Nat OBVIOUS
  <2>7. irqOn \in BOOLEAN OBVIOUS
  <2>8. cpu \in Contexts /\ slot \in 1..NoSlot /\ stack \in Contexts /\ nstacks \in Contexts OBVIOUS
  <2>9. boot \in BootStages /\ create \in CreateStages BY DEF BootStages, CreateStages
  <2>10. exited \subseteq Contexts OBVIOUS
  <2> QED BY <2>1, <2>2, <2>3, <2>4, <2>5, <2>6, <2>7, <2>8, <2>9, <2>10 DEF TypeOK, States, BootStages, CreateStages
<1>2. OneRunning /\ OwnStack /\ cpu \in Contexts
  BY DEF OneRunning, OwnStack
<1>3. BootInv /\ CreateInv
  BY DEF BootInv, CreateInv, CanRun
<1>4. FrameInv
  BY DEF FrameInv, Live
<1> QED BY <1>1, <1>2, <1>3, <1>4 DEF Inv

LEMMA TickInv ==
  ASSUME Inv, Tick
  PROVE  Inv'
<1> USE DEF Inv, Slots, Contexts, NoFrame
<1> DEFINE rem == ticks_rem[g_current] - 1
<1>0. rem \in Int /\ create = "none"
  BY DEF Tick, TypeOK, CreateInv
<1>1. UNCHANGED <<pid, stack_base, g_next_pid, irqOn, boot, call, exited>>
  BY DEF Tick
<1>2. saved_esp' = [saved_esp EXCEPT ![g_current] = cpu]
  BY DEF Tick
<1>3. CASE rem > 0 /\ state[g_current] # "SLEEPING"
  <2>1. Stay(rem)
    BY <1>3 DEF Tick
  <2>2. TypeOK'
    BY <1>0, <1>1, <1>2, <2>1 DEF Stay, TypeOK, call
  <2> QED
    BY <1>1, <1>2, <2>1, <2>2 DEF Stay, TypeOK, OneRunning, OwnStack, BootInv, CreateInv,
         FrameInv, Live, CanRun, call
<1>4. CASE ~(rem > 0 /\ state[g_current] # "SLEEPING")
  <2>1. PICK nxt \in Slots :
          /\ Picked(g_current, nxt)
          /\ IF nxt = g_current THEN Renew ELSE SwitchTo(nxt, rem)
    BY <1>4 DEF Tick
  <2>2. CanRun(nxt)
    BY <2>1, PickedCanRun, 0 \in Slots DEF TypeOK, BootInv
  <2>3. CASE nxt = g_current
    <3>1. /\ ticks_rem' = [ticks_rem EXCEPT ![g_current] = PROC_QUANTUM]
          /\ UNCHANGED <<state, g_current, cpu>>
      BY <2>1, <2>2, <2>3 DEF Renew, CanRun, TypeOK
    <3>2. TypeOK'
      BY SMTT(30), <1>1, <1>2, <3>1 DEF TypeOK, call
    <3> QED
      BY <1>1, <1>2, <3>1, <3>2 DEF TypeOK, OneRunning, OwnStack, BootInv, CreateInv,
         FrameInv, Live, CanRun, call
  <2>4. CASE nxt # g_current
    <3>1. state[nxt] = "RUNNABLE"
      BY <2>2, <2>4 DEF CanRun, OneRunning
    <3>2. saved_esp[nxt] = stack_base[nxt] /\ stack_base[nxt] \in Contexts
      BY <3>1, <2>4, <1>0 DEF FrameInv, Live
    <3>3. SwitchTo(nxt, rem)
      BY <2>1, <2>4
    <3>4. state' = [t \in Slots |->
                      IF t = nxt THEN "RUNNING"
                      ELSE IF t = g_current /\ state[t] = "RUNNING" THEN "RUNNABLE"
                      ELSE state[t]]
      BY <2>4, <3>3 DEF SwitchTo, TypeOK
    <3>5. TypeOK'
      <4>1. state' \in [Slots -> States]
        BY <3>4 DEF TypeOK, States
      <4>2. ticks_rem' \in [Slots -> Int]
        <5>1. ticks_rem' = [ticks_rem EXCEPT ![g_current] = rem, ![nxt] = PROC_QUANTUM]
          BY <3>3 DEF SwitchTo
        <5>2. ticks_rem \in [Slots -> Int] /\ PROC_QUANTUM \in Int
          BY DEF TypeOK
        <5> HIDE DEF rem
        <5> QED BY <1>0, <5>1, <5>2
      <4>3. g_current' \in Slots /\ cpu' \in Contexts
        BY <3>2, <3>3 DEF SwitchTo
      <4> QED BY <1>1, <1>2, <4>1, <4>2, <4>3 DEF TypeOK, call
    <3>6. OneRunning' /\ OwnStack' /\ cpu' \in Contexts
      BY <1>1, <3>2, <3>3, <3>4 DEF SwitchTo, OneRunning, OwnStack
    <3>7. BootInv'
      BY <1>1, <3>4 DEF TypeOK, BootInv, CanRun
    <3>8. CreateInv'
      BY <1>0, <1>1 DEF CreateInv, call, Tick
    <3>9. FrameInv'
      <4> SUFFICES ASSUME NEW t \in Slots, Live(t)', t # nxt
                   PROVE  stack_base[t] \in Contexts /\ saved_esp'[t] = stack_base[t]
        BY <1>1, <3>3 DEF FrameInv, SwitchTo
      <4>1. CASE t = g_current
        BY <1>2, <4>1 DEF TypeOK, OwnStack
      <4>2. CASE t # g_current
        BY <1>0, <1>2, <3>4, <4>2 DEF TypeOK, FrameInv, Live
      <4> QED BY <4>1, <4>2
    <3> QED BY <3>5, <3>6, <3>7, <3>8, <3>9
  <2> QED BY <2>3, <2>4
<1> QED BY <1>3, <1>4

LEMMA BootStepInv ==
  ASSUME TextBuild, Inv, BootStep
  PROVE  Inv'
<1> USE DEF Inv, TextBuild, Slots, Contexts, NoFrame, NoSlot, TypeOK, OneRunning, OwnStack,
            BootInv, CreateInv, FrameInv, Live, CanRun
<1>1. CASE CreateFail
  BY <1>1 DEF CreateFail, MayCreate, AfterCreate, table, call
<1>2. CASE CreateBegin
  BY <1>2 DEF CreateBegin, MayCreate, Free, CreateStages, table
<1>3. CASE CreatePid
  BY <1>3 DEF CreatePid, CreateStages
<1>4. CASE CreateState
  BY <1>4 DEF CreateState, CreateStages, States
<1>5. CASE CreateFrame
  BY <1>5 DEF CreateFrame, CreateStages, AfterCreate
<1>6. CASE Sti
  BY <1>6 DEF Sti, BootStages, table, call
<1> QED BY <1>1, <1>2, <1>3, <1>4, <1>5, <1>6 DEF BootStep

\* Killing a task other than the boot thread keeps the invariant.
LEMMA KillInv ==
  ASSUME Inv, NEW s \in Slots, ProcKill(pid[s])
  PROVE  Inv'
<1> USE DEF Inv, Slots, Contexts, NoFrame
<1>1. PICK t \in Slots : pid[t] = pid[s] /\ SetState(t, "DEAD")
  BY DEF ProcKill
<1>2. t # 0 /\ exited' = exited /\ pid[s] # 0
  BY <1>1 DEF ProcKill, BootInv, CanRun
<1>3. TypeOK'
  BY <1>1, <1>2 DEF SetState, TypeOK, States, call
<1>4. OneRunning' /\ OwnStack' /\ cpu' \in Contexts
  BY <1>1 DEF SetState, TypeOK, OneRunning, OwnStack
<1>5. BootInv' /\ CreateInv'
  BY <1>1, <1>2 DEF SetState, TypeOK, BootInv, CreateInv, CanRun, call
<1>6. FrameInv'
  BY <1>1, <1>2 DEF SetState, TypeOK, FrameInv, CreateInv, Live, call
<1> QED BY <1>3, <1>4, <1>5, <1>6

\* So does waking a task: the boot thread never sleeps, and wake-ups come
\* only from interrupt handlers.
LEMMA WakeInv ==
  ASSUME Inv, NEW s \in Slots, ProcWake(pid[s])
  PROVE  Inv'
<1> USE DEF Inv, Slots, Contexts, NoFrame
<1>1. PICK t \in Slots : state[t] = "SLEEPING" /\ SetState(t, "RUNNABLE")
  BY DEF ProcWake
<1>2. t # 0 /\ exited' = exited /\ create = "none"
  BY <1>1 DEF ProcWake, BootInv, CreateInv, CanRun
<1>3. TypeOK'
  BY <1>1, <1>2 DEF SetState, TypeOK, States, call
<1>4. OneRunning' /\ OwnStack' /\ cpu' \in Contexts
  BY <1>1 DEF SetState, TypeOK, OneRunning, OwnStack
<1>5. BootInv' /\ CreateInv'
  BY <1>1, <1>2 DEF SetState, TypeOK, BootInv, CreateInv, CanRun, call
<1>6. FrameInv'
  BY <1>1, <1>2 DEF SetState, TypeOK, FrameInv, CreateInv, Live, call
<1> QED BY <1>3, <1>4, <1>5, <1>6

LEMMA SleepInv ==
  ASSUME TextBuild, Inv, ProcSleep
  PROVE  Inv'
<1> USE DEF Inv, Slots, Contexts, NoFrame
<1>1. SetState(g_current, "SLEEPING") /\ exited' = exited
  BY DEF ProcSleep
<1>2. g_current # 0
  BY DEF ProcSleep, Executes, TextBuild, OwnStack, BootInv, CreateInv
<1>3. TypeOK'
  BY <1>1 DEF SetState, TypeOK, States, call
<1>4. OneRunning' /\ OwnStack' /\ cpu' \in Contexts
  BY <1>1 DEF SetState, TypeOK, OneRunning, OwnStack
<1>5. BootInv' /\ CreateInv'
  BY <1>1, <1>2 DEF SetState, TypeOK, BootInv, CreateInv, CanRun, call
<1>6. FrameInv'
  BY <1>1 DEF SetState, TypeOK, FrameInv, Live, call
<1> QED BY <1>3, <1>4, <1>5, <1>6

LEMMA ExitInv ==
  ASSUME TextBuild, Inv, ProcExit
  PROVE  Inv'
<1> USE DEF Inv, Slots, Contexts, NoFrame
<1>1. SetState(g_current, "DEAD") /\ exited' \subseteq Contexts
  BY DEF ProcExit, TypeOK
<1>2. g_current # 0
  BY DEF ProcExit, Executes, TextBuild, OwnStack, BootInv, CreateInv
<1>3. TypeOK'
  BY <1>1 DEF SetState, TypeOK, States, call
<1>4. OneRunning' /\ OwnStack' /\ cpu' \in Contexts
  BY <1>1 DEF SetState, TypeOK, OneRunning, OwnStack
<1>5. BootInv' /\ CreateInv'
  BY <1>1, <1>2 DEF SetState, TypeOK, BootInv, CreateInv, CanRun, call
<1>6. FrameInv'
  BY <1>1 DEF SetState, TypeOK, FrameInv, Live, call
<1> QED BY <1>3, <1>4, <1>5, <1>6

LEMMA InvNext == ASSUME TextBuild, Inv, [Next]_vars PROVE Inv'
<1>1. CASE UNCHANGED vars
  BY <1>1 DEF vars, table, call, Inv, TypeOK, OneRunning, OwnStack, BootInv, CreateInv,
       FrameInv, Live, CanRun
<1> QED BY <1>1, TickInv, BootStepInv, SleepInv, ExitInv, KillInv, WakeInv DEF Next

LEMMA Invariance == ASSUME TextBuild PROVE Spec => []Inv
<1>1. Init => Inv
  BY InvInit
<1>2. Inv /\ [Next]_vars => Inv'
  BY InvNext
<1> QED BY <1>1, <1>2, PTL DEF Spec

-----------------------------------------------------------------------------
\* In the text build the process table keeps its types: indices stay inside
\* the table and every context that is saved was handed out by the heap.
THEOREM TextTypeOK == ASSUME TextBuild PROVE Spec => []TypeOK
<1>1. Inv => TypeOK
  BY DEF Inv
<1> QED BY <1>1, Invariance, PTL

\* In the text build at most one task is RUNNING, the one g_current names.
THEOREM TextOneRunning == ASSUME TextBuild PROVE Spec => []OneRunning
<1>1. Inv => OneRunning
  BY DEF Inv
<1> QED BY <1>1, Invariance, PTL

\* In the text build the processor always executes the thread that the
\* current table entry describes: no context is lost or run under another's
\* name, whatever the timer interrupts.
THEOREM TextOwnStack == ASSUME TextBuild PROVE Spec => []OwnStack
<1>1. Inv => OwnStack
  BY DEF Inv
<1> QED BY <1>1, Invariance, PTL

\* In the text build every task switch goes to a task that is RUNNABLE: never
\* to one that sleeps, was killed, exited or was never created.
THEOREM TextDispatchRunnable == ASSUME TextBuild PROVE Spec => DispatchRunnable
<1>1. ASSUME Inv, [Next]_vars
      PROVE  [g_current' # g_current => state[g_current'] = "RUNNABLE"]_vars
  <2>1. SUFFICES ASSUME Next, g_current' # g_current
                 PROVE  state[g_current'] = "RUNNABLE"
    BY <1>1 DEF vars
  <2>2. Tick
    BY <2>1 DEF Next, BootStep, CreateFail, CreateBegin, CreatePid, CreateState,
         CreateFrame, Sti, ProcSleep, ProcExit, ProcKill, ProcWake, SetState
  <2>3. PICK nxt \in Slots :
          Picked(g_current, nxt) /\ IF nxt = g_current THEN Renew ELSE g_current' = nxt
    BY <2>1, <2>2 DEF Tick, Stay, SwitchTo
  <2>4. g_current' = nxt
    BY <2>1, <2>3 DEF Renew
  <2>5. CanRun(nxt)
    BY <1>1, <2>3, PickedCanRun, 0 \in Slots DEF Inv, TypeOK, BootInv, Slots
  <2> QED BY <1>1, <2>1, <2>4, <2>5 DEF Inv, OneRunning, CanRun
<1> QED BY <1>1, Invariance, PTL DEF Spec, DispatchRunnable

\* In the text build a task that is dispatched resumes on its own stack, a
\* new one on the frame proc_create built for it.
THEOREM TextDispatchOwnFrame == ASSUME TextBuild PROVE Spec => DispatchOwnFrame
<1>1. ASSUME Inv', [Next]_vars
      PROVE  [g_current' # g_current /\ state[g_current'] = "RUNNABLE"
                => cpu' \in Contexts /\ cpu' = stack_base'[g_current']]_vars
  BY <1>1 DEF Inv, OwnStack
<1> QED BY <1>1, Invariance, PTL DEF Spec, DispatchOwnFrame

-----------------------------------------------------------------------------
(* The refinement of Processor *)

\* A slot in use has a stack of its own, one that the heap has given out, and
\* nothing is dead before the timer runs: no entry is made on a dead slot.
StackInv ==
  /\ \A s \in Slots : stack_base[s] \in 0..nstacks \cup {NoFrame}
  /\ \A s \in Slots : \A t \in Slots : stack_base[s] = stack_base[t] /\ stack_base[s] # NoFrame => s = t
  /\ \A s \in Slots : stack_base[s] = NoFrame <=> state[s] = "UNUSED" \/ (create = "frame" /\ s = slot)
  /\ ~irqOn => \A s \in Slots : state[s] # "DEAD"
  /\ create \in {"pid", "state"} => state[slot] = "UNUSED"
  /\ create = "frame" => state[slot] = "RUNNABLE"
  /\ create # "none" => stack = nstacks /\ \A s \in Slots : stack_base[s] # stack

LEMMA StackInit == ASSUME Init PROVE StackInv
BY DEF Init, StackInv, Slots, NoFrame

\* A step that gives a slot a new state keeps the stacks apart.
LEMMA StackSet ==
  ASSUME Inv, StackInv, NEW t \in Slots, NEW v, state' = [state EXCEPT ![t] = v],
         state[t] # "UNUSED", v # "UNUSED", create = "none", irqOn,
         UNCHANGED <<stack_base, nstacks, create, slot, stack, irqOn>>
  PROVE  StackInv'
BY DEF StackInv, Inv, TypeOK

LEMMA StackNext == ASSUME TextBuild, Inv, StackInv, [Next]_vars PROVE StackInv'
<1> USE DEF Slots, NoFrame
<1>1. CASE UNCHANGED vars
  BY <1>1 DEF vars, table, call, StackInv
<1>2. CASE Tick
  <2>1. /\ UNCHANGED <<stack_base, nstacks, create, slot, stack, irqOn>> /\ irqOn /\ create = "none"
    BY <1>2 DEF Tick, call, Inv, CreateInv
  <2>2. \A s \in Slots : state'[s] = "UNUSED" <=> state[s] = "UNUSED"
    <3> DEFINE rem == ticks_rem[g_current] - 1
    <3>1. CASE Stay(rem)
      BY <3>1 DEF Stay
    <3>2. CASE Renew
      BY <3>2 DEF Renew, Inv, TypeOK
    <3>3. ASSUME NEW nxt \in Slots, Picked(g_current, nxt), SwitchTo(nxt, rem)
          PROVE  \A s \in Slots : state'[s] = "UNUSED" <=> state[s] = "UNUSED"
      <4>1. CanRun(nxt)
        BY <3>3, PickedCanRun, 0 \in Slots DEF Inv, TypeOK, BootInv
      <4> QED BY <3>3, <4>1 DEF SwitchTo, CanRun, Inv, TypeOK
    <3> QED BY <1>2, <3>1, <3>2, <3>3 DEF Tick
  <2> QED BY <2>1, <2>2 DEF StackInv
<1>3. CASE BootStep
  <2> USE DEF Inv, TextBuild, TypeOK, CreateInv, StackInv, Contexts, NoSlot
  <2>1. CASE CreateFail
    BY <2>1 DEF CreateFail, table, call
  <2>2. CASE CreateBegin
    <3>1. /\ nstacks' = nstacks + 1 /\ stack' = nstacks + 1 /\ create' = "pid" /\ create = "none"
          /\ UNCHANGED <<stack_base, state, irqOn>> /\ ~irqOn
      BY <2>2 DEF CreateBegin, MayCreate, table
    <3>2. slot' \in Slots /\ state[slot'] = "UNUSED"
      BY <2>2, <3>1 DEF CreateBegin, Free
    <3>3. nstacks \in Nat
      OBVIOUS
    <3>4. \A s \in Slots : stack_base'[s] \in 0..nstacks' \cup {NoFrame} /\ stack_base'[s] # stack'
      BY <3>1, <3>3
    <3> QED BY <3>1, <3>2, <3>4
  <2>3. CASE CreatePid
    BY <2>3 DEF CreatePid
  <2>4. CASE CreateState
    BY <2>4 DEF CreateState
  <2>5. CASE CreateFrame
    <3>1. /\ stack_base' = [stack_base EXCEPT ![slot] = stack] /\ create' = "none" /\ create = "frame"
          /\ UNCHANGED <<state, nstacks, irqOn>> /\ slot \in Slots /\ stack = nstacks
      BY <2>5 DEF CreateFrame
    <3>2. \A s \in Slots : stack_base'[s] = IF s = slot THEN nstacks ELSE stack_base[s]
      BY <3>1
    <3>3. nstacks \in Nat
      OBVIOUS
    <3>4. \A s \in Slots : stack_base'[s] \in 0..nstacks' \cup {NoFrame}
      BY <3>1, <3>2, <3>3
    <3>5. \A s \in Slots : \A t \in Slots :
            stack_base'[s] = stack_base'[t] /\ stack_base'[s] # NoFrame => s = t
      BY <3>1, <3>2
    <3>6. \A s \in Slots : stack_base'[s] = NoFrame <=> state'[s] = "UNUSED"
      <4>1. state[slot] # "UNUSED"
        BY <3>1
      <4> QED BY <3>1, <3>2, <3>3, <4>1
    <3> QED BY <3>1, <3>4, <3>5, <3>6
  <2>6. CASE Sti
    BY <2>6 DEF Sti, table, call
  <2> QED BY <1>3, <2>1, <2>2, <2>3, <2>4, <2>5, <2>6 DEF BootStep
<1>4. CASE ProcSleep
  <2>1. g_current \in Slots /\ irqOn /\ create = "none"
    BY <1>4 DEF ProcSleep, Executes, Inv, TypeOK, CreateInv, OwnStack, BootInv, TextBuild
  <2> QED BY <1>4, <2>1, StackSet DEF ProcSleep, SetState, call
<1>5. CASE ProcExit
  <2>1. g_current \in Slots /\ irqOn /\ create = "none" /\ state[g_current] # "UNUSED"
    BY <1>5 DEF StackInv, Contexts, ProcExit, Executes, Inv, TypeOK, CreateInv, OwnStack, BootInv, TextBuild
  <2> QED BY <1>5, <2>1, StackSet DEF ProcExit, SetState, call
<1>6. ASSUME NEW p \in Slots, ProcKill(pid[p]) PROVE StackInv'
  <2>1. PICK t \in Slots : CanRun(t) /\ SetState(t, "DEAD")
    BY <1>6 DEF ProcKill
  <2>2. irqOn /\ create = "none"
    BY <1>6 DEF ProcKill, Executes, Inv, CreateInv, OwnStack, BootInv, TextBuild
  <2> QED BY <2>1, <2>2, StackSet DEF SetState, call, CanRun
<1>7. ASSUME NEW p \in Slots, ProcWake(pid[p]) PROVE StackInv'
  <2>1. PICK t \in Slots : state[t] = "SLEEPING" /\ SetState(t, "RUNNABLE")
    BY <1>7 DEF ProcWake
  <2>2. irqOn /\ create = "none"
    BY <1>7 DEF ProcWake, Inv, CreateInv
  <2> QED BY <2>1, <2>2, StackSet DEF SetState, call
<1> QED BY <1>1, <1>2, <1>3, <1>4, <1>5, <1>6, <1>7 DEF Next

-----------------------------------------------------------------------------
(* The steps as steps of the abstract processor. *)

Tables == <<stack_base, nstacks, create, stack>>

Runs(v) == v \in {"RUNNABLE", "RUNNING"}

\* What the phase of a context is when it has a slot.
PhaseFor(v) == IF Runs(v) THEN "ready" ELSE IF v = "SLEEPING" THEN "blocked" ELSE "done"

LEMMA SlotPhase ==
  ASSUME Inv, StackInv, NEW s \in Slots, stack_base[s] # NoFrame
  PROVE  PhaseOf(stack_base[s]) = PhaseFor(state[s])
<1>1. \A t \in Slots : stack_base[t] = stack_base[s] <=> t = s
  BY DEF StackInv
<1>2. \A X : HasSlot(stack_base[s], X) <=> state[s] \in X
  BY <1>1 DEF HasSlot
<1>3. ~(stack_base[s] > nstacks) /\ ~(create # "none" /\ stack_base[s] = stack)
  BY DEF StackInv, Inv, TypeOK, Contexts, NoFrame
<1> QED BY <1>2, <1>3 DEF PhaseOf, PhaseFor, Runs

\* No phase changes when no slot goes from one class of states to another.
LEMMA SamePhases ==
  ASSUME UNCHANGED Tables,
         \A s \in Slots : /\ Runs(state'[s]) <=> Runs(state[s])
                          /\ state'[s] = "SLEEPING" <=> state[s] = "SLEEPING"
  PROVE  \A c : PhaseOf(c)' = PhaseOf(c)
<1> TAKE c
<1>1. HasSlot(c, {"RUNNABLE", "RUNNING"})' <=> HasSlot(c, {"RUNNABLE", "RUNNING"})
  BY DEF HasSlot, Tables, Runs
<1>2. HasSlot(c, {"SLEEPING"})' <=> HasSlot(c, {"SLEEPING"})
  BY DEF HasSlot, Tables
<1> QED BY <1>1, <1>2 DEF PhaseOf, Tables

\* A new state of one slot moves one context.
LEMMA OneMoves ==
  ASSUME Inv, StackInv, NEW t \in Slots, NEW v, state' = [state EXCEPT ![t] = v],
         UNCHANGED Tables, NEW b \in Contexts, stack_base[t] = b
  PROVE  /\ \A c : c # b => PhaseOf(c)' = PhaseOf(c)
         /\ PhaseOf(b)' = PhaseFor(v)
<1>1. \A s \in Slots : state'[s] = IF s = t THEN v ELSE state[s]
  BY DEF Inv, TypeOK
<1>2. b # NoFrame /\ \A s \in Slots : stack_base[s] = b <=> s = t
  BY DEF StackInv, Contexts, NoFrame
<1>3. ASSUME NEW c, c # b PROVE PhaseOf(c)' = PhaseOf(c)
  <2>1. \A X : HasSlot(c, X)' <=> HasSlot(c, X)
    BY <1>1, <1>3 DEF HasSlot, Tables
  <2> QED BY <2>1 DEF PhaseOf, Tables
<1>4. PhaseOf(b)' = PhaseFor(v)
  <2>1. \A X : HasSlot(b, X)' <=> v \in X
    BY <1>1, <1>2 DEF HasSlot, Tables
  <2>2. ~(b > nstacks) /\ ~(create # "none" /\ b = stack)
    <3>1. stack_base[t] \in 0..nstacks /\ (create # "none" => stack_base[t] # stack)
      BY <1>2 DEF StackInv
    <3> QED BY <3>1 DEF Inv, TypeOK, Contexts
  <2> QED BY <2>1, <2>2 DEF PhaseOf, Tables, PhaseFor, Runs
<1> QED BY <1>3, <1>4

\* The abstract state after one context has moved.
LEMMA AbsMove ==
  ASSUME NEW t \in Contexts, NEW from, NEW to, PhaseOf(t) \in from, PhaseOf(t)' = to,
         \A c : c # t => PhaseOf(c)' = PhaseOf(c), cpu' = cpu
  PROVE  Abs!Move(t, from, to)
BY DEF Abs!Move

LEMMA AbsStutter ==
  ASSUME \A c : PhaseOf(c)' = PhaseOf(c), cpu' = cpu
  PROVE  UNCHANGED Abs!vars
BY DEF Abs!vars

LEMMA AbsInit == ASSUME TextBuild, Init PROVE Abs!Init
<1>1. 0 \in Contexts /\ 0 \in Slots /\ nstacks = 0 /\ create = "none" /\ cpu = 0
  BY DEF Init, Contexts, Slots
<1>2. \A s \in Slots : /\ stack_base[s] = IF s = 0 THEN 0 ELSE NoFrame
                       /\ state[s] = IF s = 0 THEN "RUNNING" ELSE "UNUSED"
  BY DEF Init
<1>3. PhaseOf(0) = "ready"
  BY <1>1, <1>2 DEF PhaseOf, HasSlot
<1>4. ASSUME NEW c \in Contexts, c # 0 PROVE PhaseOf(c) = "new"
  <2>1. \A X : ~HasSlot(c, X)
    BY <1>2, <1>4 DEF HasSlot, Contexts, NoFrame
  <2> QED BY <1>1, <1>4, <2>1 DEF PhaseOf, Contexts
<1> QED BY <1>1, <1>3, <1>4 DEF Abs!Init

\* A slot whose state the step sets: its context makes the abstract move.
LEMMA SetMoves ==
  ASSUME Inv, StackInv, NEW t \in Slots, NEW v, SetState(t, v),
         NEW b \in Contexts, stack_base[t] = b, NEW from, PhaseFor(state[t]) \in from
  PROVE  Abs!Move(b, from, PhaseFor(v))
<1>1. UNCHANGED Tables /\ cpu' = cpu /\ state' = [state EXCEPT ![t] = v]
  BY DEF SetState, Tables, call
<1>2. (\A c : c # b => PhaseOf(c)' = PhaseOf(c)) /\ PhaseOf(b)' = PhaseFor(v)
  BY <1>1, OneMoves
<1>3. PhaseOf(b) \in from
  BY SlotPhase DEF Contexts, NoFrame
<1> QED BY <1>1, <1>2, <1>3, AbsMove

\* While no entry is being made, every slot that is in use has its stack.
LEMMA InUse ==
  ASSUME StackInv, NEW s \in Slots, create = "none" PROVE stack_base[s] = NoFrame <=> state[s] = "UNUSED"
BY DEF StackInv

LEMMA CallMoves ==
  ASSUME TextBuild, Inv, StackInv, Next,
         ProcSleep \/ ProcExit \/ (\E s \in Slots : ProcKill(pid[s]) \/ ProcWake(pid[s]))
  PROVE  Abs!Next \/ UNCHANGED Abs!vars
<1>1. CASE ProcSleep
  <2>1. /\ g_current \in Slots /\ create = "none" /\ cpu = stack_base[g_current]
        /\ cpu \in Contexts /\ state[g_current] = "RUNNING" /\ SetState(g_current, "SLEEPING")
    BY <1>1 DEF ProcSleep, Executes, Inv, TypeOK, OwnStack, CreateInv, TextBuild, BootInv
  <2>2. PICK b \in Contexts : b = cpu
    BY <2>1
  <2>3. PhaseFor(state[g_current]) \in {"ready"} /\ PhaseFor("SLEEPING") = "blocked"
    BY <2>1 DEF PhaseFor, Runs
  <2>4. Abs!Move(b, {"ready"}, PhaseFor("SLEEPING"))
    BY <2>1, <2>2, <2>3, SetMoves
  <2> QED BY <2>2, <2>3, <2>4 DEF Abs!Next, Abs!Block, Abs!Move
<1>2. CASE ProcExit
  <2>1. /\ g_current \in Slots /\ create = "none" /\ cpu = stack_base[g_current]
        /\ cpu \in Contexts /\ SetState(g_current, "DEAD")
    BY <1>2 DEF ProcExit, Executes, Inv, TypeOK, OwnStack, CreateInv, TextBuild, BootInv
  <2>2. stack_base[g_current] # NoFrame
    BY <2>1 DEF Contexts, NoFrame
  <2>3. CASE state[g_current] = "DEAD"
    <3>1. UNCHANGED Tables /\ cpu' = cpu /\ state' = state
      BY <2>1, <2>3 DEF SetState, Tables, call, Inv, TypeOK
    <3>2. \A c : PhaseOf(c)' = PhaseOf(c)
      BY <3>1, SamePhases
    <3> QED BY <3>1, <3>2, AbsStutter
  <2>4. CASE state[g_current] # "DEAD"
    <3>1. PhaseFor(state[g_current]) \in {"ready", "blocked"}
      BY <2>1, <2>2, <2>4, InUse DEF PhaseFor, Runs, Inv, TypeOK, States
    <3>2. PICK b \in Contexts : b = cpu
      BY <2>1
    <3>3. Abs!Move(b, {"ready", "blocked"}, PhaseFor("DEAD"))
      BY <2>1, <3>1, <3>2, SetMoves
    <3> QED BY <3>2, <3>3 DEF Abs!Next, Abs!Finish, PhaseFor, Runs
  <2> QED BY <2>3, <2>4
<1>3. ASSUME NEW p \in Slots, ProcKill(pid[p]) PROVE Abs!Next
  <2>1. PICK t \in Slots : CanRun(t) /\ SetState(t, "DEAD")
    BY <1>3 DEF ProcKill
  <2>2. create = "none"
    BY <1>3 DEF ProcKill, Executes, Inv, CreateInv, OwnStack, BootInv, TextBuild
  <2>3. stack_base[t] # NoFrame /\ PhaseFor(state[t]) \in {"ready", "blocked"}
    BY <2>1, <2>2, InUse DEF CanRun, PhaseFor, Runs
  <2>4. PICK b \in Contexts : b = stack_base[t]
    BY <2>3 DEF Inv, TypeOK
  <2>5. Abs!Move(b, {"ready", "blocked"}, PhaseFor("DEAD"))
    BY <2>1, <2>3, <2>4, SetMoves
  <2> QED BY <2>5 DEF Abs!Next, Abs!Finish, PhaseFor, Runs
<1>4. ASSUME NEW p \in Slots, ProcWake(pid[p]) PROVE Abs!Next
  <2>1. PICK t \in Slots : state[t] = "SLEEPING" /\ SetState(t, "RUNNABLE")
    BY <1>4 DEF ProcWake
  <2>2. create = "none"
    BY <1>4 DEF ProcWake, Inv, CreateInv
  <2>3. stack_base[t] # NoFrame /\ PhaseFor(state[t]) \in {"blocked"}
    BY <2>1, <2>2, InUse DEF PhaseFor, Runs
  <2>4. PICK b \in Contexts : b = stack_base[t]
    BY <2>3 DEF Inv, TypeOK
  <2>5. Abs!Move(b, {"blocked"}, PhaseFor("RUNNABLE"))
    BY <2>1, <2>3, <2>4, SetMoves
  <2> QED BY <2>5 DEF Abs!Next, Abs!Wake, PhaseFor, Runs
<1> QED BY <1>1, <1>2, <1>3, <1>4

\* A tick leaves every context in its phase, and dispatches a ready one if any.
LEMMA TickMoves ==
  ASSUME TextBuild, Inv, StackInv, Tick
  PROVE  Abs!Next \/ UNCHANGED Abs!vars
<1> DEFINE rem == ticks_rem[g_current] - 1
<1>1. /\ UNCHANGED Tables /\ create = "none" /\ g_current \in Slots /\ 0 \in Slots
      /\ CanRun(0) /\ state \in [Slots -> States]
  BY DEF Tick, call, Tables, Inv, CreateInv, TypeOK, BootInv, Slots
<1>2. CASE Stay(rem)
  <2>1. \A c : PhaseOf(c)' = PhaseOf(c)
    BY <1>1, <1>2, SamePhases DEF Stay
  <2> QED BY <1>2, <2>1, AbsStutter DEF Stay
<1>3. CASE Picked(g_current, g_current) /\ Renew
  <2>1. CanRun(g_current)
    BY <1>1, <1>3, PickedCanRun
  <2>2. state' = state
    BY <1>1, <1>3, <2>1 DEF Renew, CanRun
  <2>3. \A c : PhaseOf(c)' = PhaseOf(c)
    BY <1>1, <2>2, SamePhases
  <2> QED BY <1>3, <2>3, AbsStutter DEF Renew
<1>4. ASSUME NEW nxt \in Slots, Picked(g_current, nxt), SwitchTo(nxt, rem), nxt # g_current
      PROVE  Abs!Next
  <2>1. CanRun(nxt)
    BY <1>1, <1>4, PickedCanRun
  <2>2. \A s \in Slots : state'[s] = IF s = nxt THEN "RUNNING"
                                     ELSE IF s = g_current /\ state[s] = "RUNNING" THEN "RUNNABLE"
                                     ELSE state[s]
    BY <1>1, <1>4 DEF SwitchTo
  <2>3. \A c : PhaseOf(c)' = PhaseOf(c)
    <3>1. \A s \in Slots : /\ Runs(state'[s]) <=> Runs(state[s])
                           /\ state'[s] = "SLEEPING" <=> state[s] = "SLEEPING"
      BY <2>1, <2>2 DEF Runs, CanRun
    <3> QED BY <1>1, <3>1, SamePhases
  <2>4. stack_base[nxt] # NoFrame
    BY <1>1, <2>1, InUse DEF CanRun
  <2>5. stack_base[nxt] \in Contexts /\ PhaseOf(stack_base[nxt]) = "ready"
    BY <2>1, <2>4, SlotPhase DEF CanRun, PhaseFor, Runs, Inv, TypeOK
  <2>6. saved_esp'[nxt] = stack_base[nxt]
    BY <1>1, <1>4, <2>1 DEF Tick, Inv, FrameInv, Live, CanRun, TypeOK
  <2>7. cpu' = stack_base[nxt]
    BY <1>1, <1>4, <2>1 DEF SwitchTo, Inv, FrameInv, Live, CanRun
  <2> HIDE DEF PhaseOf
  <2>8. Abs!Dispatch(stack_base[nxt])
    BY <2>3, <2>5, <2>7 DEF Abs!Dispatch
  <2> QED BY <2>5, <2>8 DEF Abs!Next
<1> QED BY <1>2, <1>3, <1>4 DEF Tick

\* Making an entry leaves the phases alone until the frame is there; then the
\* new task is admitted.
LEMMA BootMoves ==
  ASSUME TextBuild, Inv, StackInv, BootStep
  PROVE  Abs!Next \/ UNCHANGED Abs!vars
<1> USE DEF Tables, call, table
<1>1. CASE CreateFail \/ CreatePid \/ Sti
  <2>1. cpu' = cpu /\ state' = state /\ stack_base' = stack_base /\ nstacks' = nstacks
        /\ stack' = stack /\ (create' # "none" <=> create # "none")
    BY <1>1 DEF CreateFail, CreatePid, Sti
  <2>2. \A c : PhaseOf(c)' = PhaseOf(c)
    <3> TAKE c
    <3>1. \A X : HasSlot(c, X)' <=> HasSlot(c, X)
      BY <2>1 DEF HasSlot
    <3> QED BY <2>1, <3>1 DEF PhaseOf
  <2> QED BY <2>1, <2>2, AbsStutter
<1>2. CASE CreateBegin
  <2>1. cpu' = cpu /\ state' = state /\ stack_base' = stack_base /\ nstacks' = nstacks + 1
        /\ stack' = nstacks + 1 /\ create' = "pid" /\ create = "none" /\ nstacks \in Nat
    BY <1>2 DEF CreateBegin, MayCreate, Inv, TypeOK, Contexts
  <2>2. ASSUME NEW c \in Contexts PROVE PhaseOf(c)' = PhaseOf(c)
    <3>1. \A X : HasSlot(c, X)' <=> HasSlot(c, X)
      BY <2>1 DEF HasSlot
    <3>2. c > nstacks <=> c > nstacks + 1 \/ c = nstacks + 1
      BY <2>1 DEF Contexts
    <3> QED BY <2>1, <3>1, <3>2 DEF PhaseOf
  <2> QED BY <2>1, <2>2 DEF Abs!vars
<1>3. CASE CreateState
  <2>1. /\ cpu' = cpu /\ state' = [state EXCEPT ![slot] = "RUNNABLE"] /\ stack_base' = stack_base
        /\ nstacks' = nstacks /\ stack' = stack /\ create' = "frame" /\ create = "state"
    BY <1>3 DEF CreateState
  <2>2. slot \in Slots /\ stack_base[slot] = NoFrame /\ \A s \in Slots : s # slot => state'[s] = state[s]
    BY <2>1 DEF StackInv, Inv, CreateInv, TypeOK
  <2>3. ASSUME NEW c \in Contexts PROVE PhaseOf(c)' = PhaseOf(c)
    <3>1. c # NoFrame
      BY DEF Contexts, NoFrame
    <3>2. \A X : HasSlot(c, X)' <=> HasSlot(c, X)
      BY <2>1, <2>2, <3>1 DEF HasSlot
    <3> QED BY <2>1, <3>2 DEF PhaseOf
  <2> QED BY <2>1, <2>3 DEF Abs!vars
<1>4. CASE CreateFrame
  <2>1. /\ cpu' = cpu /\ state' = state /\ stack_base' = [stack_base EXCEPT ![slot] = stack]
        /\ nstacks' = nstacks /\ stack' = stack /\ create' = "none" /\ create = "frame"
    BY <1>4 DEF CreateFrame
  <2>2. /\ slot \in Slots /\ stack_base[slot] = NoFrame /\ state[slot] = "RUNNABLE"
        /\ stack \in Contexts /\ \A s \in Slots : stack_base[s] # stack
    BY <2>1 DEF StackInv, Inv, CreateInv, TypeOK
  <2>3. \A s \in Slots : stack_base'[s] = IF s = slot THEN stack ELSE stack_base[s]
    BY <2>1 DEF Inv, TypeOK
  <2>4. PICK b \in Contexts : b = stack
    BY <2>2
  <2>5. ASSUME NEW c \in Contexts, c # b PROVE PhaseOf(c)' = PhaseOf(c)
    <3>1. c # NoFrame
      BY DEF Contexts, NoFrame
    <3>2. \A X : HasSlot(c, X)' <=> HasSlot(c, X)
      BY <2>1, <2>2, <2>3, <2>4, <2>5, <3>1 DEF HasSlot
    <3> QED BY <2>1, <2>4, <2>5, <3>2 DEF PhaseOf
  <2>6. PhaseOf(b) = "new"
    <3>1. \A X : ~HasSlot(b, X)
      BY <2>2, <2>4 DEF HasSlot
    <3> QED BY <2>1, <2>4, <3>1 DEF PhaseOf
  <2>7. PhaseOf(b)' = "ready"
    <3>1. \A X : HasSlot(b, X)' <=> "RUNNABLE" \in X
      BY <2>1, <2>2, <2>3, <2>4 DEF HasSlot
    <3>2. ~(b > nstacks')
      BY <2>1, <2>4 DEF StackInv, Inv, TypeOK, Contexts
    <3> QED BY <2>1, <3>1, <3>2 DEF PhaseOf
  <2> HIDE DEF PhaseOf
  <2>8. Abs!Admit(b)
    BY <2>1, <2>5, <2>6, <2>7 DEF Abs!Admit, Abs!Move
  <2> QED BY <2>8 DEF Abs!Next
<1> QED BY <1>1, <1>2, <1>3, <1>4 DEF BootStep

\* In the text build the scheduler implements Processor.tla: a task is admitted
\* once, only ready tasks are dispatched, and a finished one never comes back.
THEOREM TextImplementsProcessor == ASSUME TextBuild PROVE Spec => ImplementsProcessor
<1>1. Init => Abs!Init /\ StackInv
  BY AbsInit, StackInit
<1>2. Inv /\ StackInv /\ [Next]_vars => StackInv' /\ [Abs!Next]_(Abs!vars)
  <2> SUFFICES ASSUME Inv, StackInv, [Next]_vars PROVE StackInv' /\ [Abs!Next]_(Abs!vars)
    OBVIOUS
  <2>1. StackInv'
    BY StackNext
  <2>2. CASE UNCHANGED vars
    <3>1. cpu' = cpu /\ state' = state /\ UNCHANGED Tables
      BY <2>2 DEF vars, table, call, Tables
    <3>2. \A c : PhaseOf(c)' = PhaseOf(c)
      BY <3>1, SamePhases
    <3> QED BY <2>1, <3>1, <3>2, AbsStutter
  <2>3. CASE Next
    BY <2>1, <2>3, TickMoves, BootMoves, CallMoves DEF Next
  <2> QED BY <2>2, <2>3
<1> QED BY <1>1, <1>2, Invariance, PTL DEF Spec, ImplementsProcessor, Abs!Spec

-----------------------------------------------------------------------------
(* Either build, whatever calls the threads make: the timer may dispatch a *)
(* dead or unused slot in the graphical build, but never while another can *)
(* run, and still only one slot is RUNNING.                                *)

AnyInv == TypeOK /\ OneRunning /\ (create # "none" => slot \in Slots)

LEMMA AnyTick == ASSUME AnyInv, Tick PROVE AnyInv'
<1> USE DEF AnyInv, TypeOK, States, Slots, NoFrame
<1> DEFINE rem == ticks_rem[g_current] - 1
<1>1. /\ cpu \in Contexts /\ saved_esp' = [saved_esp EXCEPT ![g_current] = cpu]
      /\ UNCHANGED <<pid, stack_base, g_next_pid, irqOn, boot, call, exited>>
  BY DEF Tick
<1>2. CASE Stay(rem)
  BY <1>1, <1>2 DEF Stay, call, OneRunning
<1>3. CASE Renew
  BY <1>1, <1>3 DEF Renew, call, OneRunning
<1>4. ASSUME NEW nxt \in Slots, SwitchTo(nxt, rem) PROVE AnyInv'
  <2>1. TypeOK'
    <3>1. state' \in [Slots -> States]
      BY <1>4 DEF SwitchTo
    <3>2. rem \in Int /\ PROC_QUANTUM \in Int
      OBVIOUS
    <3>3. ticks_rem' \in [Slots -> Int]
      <4> HIDE DEF rem
      <4> QED BY <1>4, <3>2 DEF SwitchTo
    <3>4. g_current' \in Slots /\ cpu' \in Contexts \cup {NoFrame}
      BY <1>4 DEF SwitchTo
    <3>5. saved_esp' \in [Slots -> Contexts \cup {NoFrame}]
      BY <1>1
    <3> HIDE DEF Slots, States, NoFrame
    <3> QED BY <1>1, <3>1, <3>3, <3>4, <3>5 DEF call
  <2>2. OneRunning'
    BY <1>4 DEF SwitchTo, OneRunning
  <2> QED BY <1>1, <2>1, <2>2 DEF call
<1> QED BY <1>2, <1>3, <1>4 DEF Tick

LEMMA AnyBoot == ASSUME AnyInv, BootStep PROVE AnyInv'
<1> USE DEF AnyInv, TypeOK, States, Slots, NoFrame, NoSlot, Contexts, OneRunning, BootStages,
            CreateStages, AfterCreate, table, call
<1>1. CASE CreateFail
  BY <1>1 DEF CreateFail
<1>2. CASE CreateBegin
  BY <1>2 DEF CreateBegin
<1>3. CASE CreatePid
  BY <1>3 DEF CreatePid
<1>4. CASE CreateState
  BY <1>4 DEF CreateState
<1>5. CASE CreateFrame
  BY <1>5 DEF CreateFrame
<1>6. CASE Sti
  BY <1>6 DEF Sti
<1> QED BY <1>1, <1>2, <1>3, <1>4, <1>5, <1>6 DEF BootStep

LEMMA AnySet ==
  ASSUME AnyInv, NEW s \in Slots, NEW v \in States \ {"RUNNING"}, SetState(s, v),
         exited' \subseteq Contexts
  PROVE  AnyInv'
BY DEF AnyInv, TypeOK, OneRunning, SetState, call

LEMMA AnyNext == ASSUME AnyInv, [Next]_vars PROVE AnyInv'
<1> USE DEF States
<1>1. CASE UNCHANGED vars
  BY <1>1 DEF vars, table, call, AnyInv, TypeOK, OneRunning
<1>2. g_current \in Slots /\ exited \subseteq Contexts
  BY DEF AnyInv, TypeOK
<1>3. CASE ProcSleep
  BY <1>2, <1>3, AnySet DEF ProcSleep
<1>4. CASE ProcExit
  <2>1. exited' \subseteq Contexts
    BY <1>2, <1>4 DEF ProcExit, Executes
  <2> QED BY <1>2, <1>4, <2>1, AnySet DEF ProcExit
<1>5. ASSUME NEW p, ProcKill(p) \/ ProcWake(p) PROVE AnyInv'
  BY <1>2, <1>5, AnySet DEF ProcKill, ProcWake
<1> QED BY <1>1, <1>3, <1>4, <1>5, AnyTick, AnyBoot DEF Next

LEMMA AnyInvariance == Spec => []AnyInv
<1>1. Init => AnyInv
  <2> SUFFICES ASSUME Init PROVE AnyInv
    OBVIOUS
  <2>1. 0 \in Slots /\ 0 \in Contexts /\ NoSlot \in 1..NoSlot
    BY DEF Slots, Contexts, NoSlot
  <2>2. /\ state \in [Slots -> States] /\ pid \in [Slots -> Nat] /\ ticks_rem \in [Slots -> Int]
        /\ stack_base \in [Slots -> Contexts \cup {NoFrame}]
        /\ saved_esp \in [Slots -> Contexts \cup {NoFrame}]
    BY <2>1 DEF Init, States
  <2> QED BY <2>1, <2>2 DEF Init, AnyInv, TypeOK, OneRunning, BootStages, CreateStages
<1> QED BY <1>1, AnyNext, PTL DEF Spec

\* In either build a step that changes the current task takes one that the
\* round-robin search may have found.
LEMMA SwitchPicks ==
  ASSUME [Next]_vars, g_current' # g_current
  PROVE  \E nxt \in Slots : Picked(g_current, nxt) /\ g_current' = nxt /\ nxt # g_current
<1>1. Tick
  BY DEF Next, BootStep, CreateFail, CreateBegin, CreatePid, CreateState, CreateFrame, Sti,
         ProcSleep, ProcExit, ProcKill, ProcWake, SetState, vars
<1> QED BY <1>1 DEF Tick, Stay, Renew, SwitchTo

\* While some task can run, the timer of either build dispatches only a task
\* that is RUNNABLE.
THEOREM AnyDispatchIfAny == Spec => DispatchIfAny
<1>1. AnyInv /\ [Next]_vars =>
        [g_current' # g_current /\ (\E s \in Slots : CanRun(s)) => state[g_current'] = "RUNNABLE"]_vars
  <2> SUFFICES ASSUME AnyInv, [Next]_vars, g_current' # g_current, NEW s \in Slots, CanRun(s)
               PROVE  state[g_current'] = "RUNNABLE"
    OBVIOUS
  <2>1. PICK nxt \in Slots : Picked(g_current, nxt) /\ g_current' = nxt /\ nxt # g_current
    BY SwitchPicks
  <2>2. CanRun(nxt)
    BY <2>1, PickedCanRun DEF AnyInv, TypeOK
  <2> QED BY <2>1, <2>2 DEF CanRun, AnyInv, OneRunning
<1> QED BY <1>1, AnyInvariance, PTL DEF Spec, DispatchIfAny

-----------------------------------------------------------------------------
(* Round robin, in either build (MCSched.tla adds the history since): a    *)
(* switch moves the current slot forward, but not past a task that waits.  *)
(* So the slots dispatched while s waits are those the search has left     *)
(* behind, farther from s than the current one.                            *)

\* Places from slot t forward to slot s.
Ahead(t, s) == IF s >= t THEN s - t ELSE s - t + PROC_MAX

BehindInv ==
  \A s \in Slots : since[s] \subseteq Slots
                   /\ (Waiting(s) => \A t \in since[s] : Ahead(t, s) >= Ahead(g_current, s))

\* The search of sched_irq comes nearer to every task that waits.
LEMMA PicksNearer ==
  ASSUME NEW c \in Slots, NEW s \in Slots, NEW nxt \in Slots, s # c, CanRun(s), Picked(c, nxt)
  PROVE  Ahead(nxt, s) < Ahead(c, s)
<1>1. PICK n \in 1..PROC_MAX : n = Ahead(c, s) /\ After(c, n) = s
  <2>1. Ahead(c, s) \in 1..PROC_MAX /\ After(c, Ahead(c, s)) = s
    BY DEF Ahead, After, Slots
  <2>. QED  BY <2>1
<1>2. PICK d \in 1..PROC_MAX : nxt = After(c, d) /\ \A e \in 1..(d - 1) : ~CanRun(After(c, e))
  BY <1>1 DEF Picked
<1>3. d <= n
  BY <1>1, <1>2
<1>4. Ahead(After(c, d), s) = n - d
  BY <1>1, <1>3 DEF Ahead, After, Slots
<1>. QED  BY <1>1, <1>2, <1>4

\* A task is never overtaken twice by another while it waits for the CPU.
THEOREM AlwaysNoOvertaking == SpecH => NoOvertaking
<1>. DEFINE A == \A s \in Slots : g_current' # g_current /\ Waiting(s) => g_current' \notin since[s]
<1>1. InitH => BehindInv
  BY DEF InitH, BehindInv
<1>2. ASSUME AnyInv, AnyInv', BehindInv, [NextH]_<<vars, since>>, g_current' # g_current,
             NEW s \in Slots, Waiting(s)
      PROVE  /\ Ahead(g_current', s) < Ahead(g_current, s)
             /\ g_current' \notin since[s]
  <2>1. [Next]_vars
    BY <1>2 DEF NextH
  <2>2. PICK nxt \in Slots : Picked(g_current, nxt) /\ g_current' = nxt
    BY <1>2, <2>1, SwitchPicks
  <2>3. g_current \in Slots /\ CanRun(s) /\ s # g_current
    BY <1>2 DEF AnyInv, TypeOK, Waiting, CanRun
  <2>4. Ahead(nxt, s) < Ahead(g_current, s)
    BY <2>2, <2>3, PicksNearer
  <2>5. \A t \in since[s] : Ahead(t, s) >= Ahead(g_current, s)
    BY <1>2 DEF BehindInv
  <2>6. Ahead(nxt, s) \in Int /\ Ahead(g_current, s) \in Int
    BY <2>2, <2>3 DEF Ahead, Slots
  <2>. QED  BY <2>2, <2>4, <2>5, <2>6
<1>3. ASSUME AnyInv, AnyInv', BehindInv, [NextH]_<<vars, since>> PROVE BehindInv'
  <2>. SUFFICES ASSUME NEW s \in Slots
                PROVE  /\ since'[s] \subseteq Slots
                       /\ Waiting(s)' => \A t \in since'[s] : Ahead(t, s) >= Ahead(g_current', s)
    BY DEF BehindInv
  <2>1. CASE UNCHANGED <<vars, since>>
    BY <1>3, <2>1 DEF BehindInv, Waiting, vars, table
  <2>2. CASE NextH
    <3>1. since'[s] = IF Waiting(s) /\ Waiting(s)' THEN since[s] \cup ({g_current'} \ {g_current}) ELSE {}
      BY <2>2 DEF NextH
    <3>2. since[s] \subseteq Slots /\ g_current \in Slots /\ g_current' \in Slots
      BY <1>3 DEF BehindInv, AnyInv, TypeOK
    <3>3. CASE ~(Waiting(s) /\ Waiting(s)')
      BY <3>1, <3>3
    <3>4. CASE Waiting(s) /\ Waiting(s)' /\ g_current' = g_current
      <4>1. since'[s] = since[s]
        BY <3>1, <3>4
      <4>. QED  BY <1>3, <3>2, <3>4, <4>1 DEF BehindInv
    <3>5. CASE Waiting(s) /\ Waiting(s)' /\ g_current' # g_current
      <4>1. since'[s] = since[s] \cup {g_current'}
        BY <3>1, <3>5
      <4>2. Ahead(g_current', s) < Ahead(g_current, s)
        BY <1>2, <1>3, <3>5
      <4>3. \A t \in since[s] : Ahead(t, s) >= Ahead(g_current, s)
        BY <1>3, <3>5 DEF BehindInv
      <4>4. \A t \in Slots : Ahead(t, s) \in Int
        BY DEF Ahead, Slots
      <4>. QED  BY <3>2, <4>1, <4>2, <4>3, <4>4
    <3>. QED  BY <3>3, <3>4, <3>5
  <2>. QED  BY <1>3, <2>1, <2>2
<1>4. AnyInv /\ AnyInv' /\ BehindInv /\ [NextH]_<<vars, since>> => [A]_<<vars, since>>
  BY <1>2
<1>5. AnyInv /\ AnyInv' /\ BehindInv /\ [NextH]_<<vars, since>> => BehindInv'
  BY <1>3
<1>6. SpecH => Spec
  <2>1. [NextH]_<<vars, since>> => [Next]_vars
    BY DEF NextH
  <2>. QED  BY <2>1, PTL DEF SpecH, Spec, InitH
<1>. HIDE DEF A
<1>7. SpecH => [][A]_<<vars, since>>
  BY <1>1, <1>4, <1>5, <1>6, AnyInvariance, PTL DEF SpecH
<1>. QED  BY <1>7 DEF A, NoOvertaking

-----------------------------------------------------------------------------
(* The heap *)

\* A block is marked used exactly while a caller owns it, and is big enough.
OwnerInv ==
  /\ \A a \in linked : free[a] = 0 <=> asked[a] # 0
  /\ \A a \in Addrs : asked[a] # 0 => a \in linked /\ asked[a] <= 4 * size[a]

\* kmalloc's cursor is on the list and has passed over no block that fits.
SearchInv ==
  pc = "search" =>
    /\ bytes \in Requests
    /\ cur # NULL => cur \in linked
    /\ \A a \in linked : (cur = NULL \/ a < cur) => ~Fits(a)

\* kfree's cursor is on the list and has left no free pair behind.
CoalesceInv ==
  /\ pc = "coalesce" => cur \in linked /\ \A a \in linked : a < cur => ~BothFree(a)
  /\ pc # "coalesce" => \A a \in linked : ~BothFree(a)

HeapInv == HeapTypeOK /\ Tiling /\ OwnerInv /\ SearchInv /\ CoalesceInv

USE HeapAssumption

-----------------------------------------------------------------------------
\* A request that does not wrap is rounded up: to a natural number of words
\* that hold at least the bytes asked for.
LEMMA WordsEnough ==
  ASSUME NEW n \in Requests
  PROVE  Words(n) \in Nat /\ n <= 4 * Words(n)
<1>1. n \in Nat /\ n + 3 < WRAP /\ n + 3 >= 0
  OBVIOUS
<1>2. (n + 3) % WRAP = n + 3
  BY <1>1
<1> QED BY <1>1, <1>2 DEF Words

\* A block lies inside the pool.
LEMMA LimitInPool ==
  ASSUME HeapTypeOK, Tiling, NEW a \in linked
  PROVE  a \in Nat /\ Limit(a) \in Nat /\ a < Limit(a) /\ Limit(a) <= END
<1>1. a \in START..(END - 1) /\ size[a] \in Nat /\ END \in Nat
  BY DEF HeapTypeOK, Addrs, END
<1>2. a \in Nat /\ Limit(a) \in Nat /\ a < Limit(a)
  BY <1>1 DEF Limit
<1>3. Limit(a) = END \/ Limit(a) \in START..(END - 1)
  BY DEF HeapTypeOK, Tiling, Addrs
<1> QED BY <1>1, <1>2, <1>3

\* What the headers on the list know of one another, without the pool's bounds.
LEMMA Ordered ==
  ASSUME HeapTypeOK, Tiling
  PROVE  /\ \A a \in linked : /\ a \in Addrs /\ a \in Nat /\ a # NULL
                               /\ Limit(a) \in Nat /\ a < Limit(a) /\ a < END
                               /\ START <= a /\ Limit(a) <= END
         /\ \A a, b \in linked : a < b => Limit(a) <= b
         /\ START \in Nat /\ START \in linked /\ END \in Nat
<1>1. START \in Nat \ {0} /\ END \in Nat /\ linked \subseteq Addrs
  BY DEF HeapTypeOK, END
<1>2. \A a \in Addrs : a \in Nat /\ a # NULL /\ START <= a /\ a < END
  BY <1>1 DEF Addrs, NULL
<1>3. \A a \in linked : Limit(a) \in Nat /\ a < Limit(a) /\ Limit(a) <= END
  BY LimitInPool
<1> QED BY <1>1, <1>2, <1>3 DEF Tiling

\* The successor of a block begins behind it, and no header lies between.
LEMMA NextBlock ==
  ASSUME HeapTypeOK, Tiling, NEW a \in linked, next[a] # NULL
  PROVE  /\ next[a] \in linked /\ next[a] = Limit(a) /\ a < next[a]
         /\ \A b \in linked : b <= a \/ next[a] <= b
<1>1. next[a] \in linked /\ next[a] = Limit(a)
  BY DEF Tiling
<1>2. a < next[a]
  BY <1>1, LimitInPool
<1>3. ASSUME NEW b \in linked PROVE b <= a \/ next[a] <= b
  <2>1. a \in Nat /\ b \in Nat
    BY LimitInPool
  <2>2. a < b => Limit(a) <= b
    BY DEF Tiling
  <2> QED BY <1>1, <2>1, <2>2
<1> QED BY <1>1, <1>2, <1>3

-----------------------------------------------------------------------------
LEMMA HeapInvInit == HeapInit => HeapInv
<1> SUFFICES ASSUME HeapInit PROVE HeapInv
  OBVIOUS
<1> USE DEF HeapInit, Addrs, END, NULL
<1>1. HeapTypeOK
  BY DEF HeapTypeOK
<1>2. Tiling
  BY DEF Tiling, Limit
<1>3. OwnerInv
  BY DEF OwnerInv
<1>4. SearchInv /\ CoalesceInv
  BY DEF SearchInv, CoalesceInv, BothFree
<1> QED BY <1>1, <1>2, <1>3, <1>4 DEF HeapInv

LEMMA KmallocInv ==
  ASSUME HeapInv, NEW n \in Requests, Kmalloc(n)
  PROVE  HeapInv'
<1> USE DEF HeapInv, Kmalloc, heap
<1>1. HeapTypeOK'
  BY DEF HeapTypeOK, Tiling
<1>2. Tiling' /\ OwnerInv'
  BY DEF Tiling, OwnerInv, Limit
<1>3. SearchInv'
  BY DEF SearchInv, Tiling, HeapTypeOK, Addrs, NULL
<1>4. CoalesceInv'
  BY DEF CoalesceInv, BothFree
<1> QED BY <1>1, <1>2, <1>3, <1>4

LEMMA SearchNextInv == ASSUME HeapInv, SearchNext PROVE HeapInv'
<1> USE DEF HeapInv, SearchNext, heap
<1>0. cur \in linked
  BY DEF SearchInv
<1>1. HeapTypeOK'
  BY <1>0 DEF HeapTypeOK
<1>2. Tiling' /\ OwnerInv'
  BY DEF Tiling, OwnerInv, Limit
<1>3. SearchInv'
  <2>1. \A a \in linked : (next[cur] = NULL \/ a < next[cur]) => a <= cur
    <3>1. CASE next[cur] = NULL
      <4>1. Limit(cur) = END
        BY <1>0, <3>1 DEF Tiling
      <4> QED BY <1>0, <4>1, Ordered
    <3>2. CASE next[cur] # NULL
      <4>1. \A a \in linked : a <= cur \/ next[cur] <= a
        BY <1>0, <3>2, NextBlock
      <4>2. next[cur] \in Nat
        BY <1>0, <3>2, NextBlock, Ordered
      <4> QED BY <3>2, <4>1, <4>2, Ordered
    <3> QED BY <3>1, <3>2
  <2>2. \A a \in linked : a <= cur => ~Fits(a)
    <3>1. \A a \in linked : a < cur => ~Fits(a)
      BY DEF SearchInv
    <3>2. \A a \in linked : a <= cur => a < cur \/ a = cur
      BY <1>0, Ordered
    <3> QED BY <3>1, <3>2
  <2>3. next[cur] # NULL => next[cur] \in linked
    BY <1>0 DEF Tiling
  <2> QED BY <2>1, <2>2, <2>3 DEF SearchInv, Fits
<1>4. CoalesceInv'
  BY DEF CoalesceInv, BothFree
<1> QED BY <1>1, <1>2, <1>3, <1>4

LEMMA SearchFailInv == ASSUME HeapInv, SearchFail PROVE HeapInv'
BY DEF HeapInv, SearchFail, Return, heap, HeapTypeOK, Tiling, OwnerInv, Limit, SearchInv,
       CoalesceInv, BothFree

LEMMA TakeInv == ASSUME HeapInv, Take PROVE HeapInv'
<1> USE DEF HeapInv, Take, Return
<1> DEFINE w == Words(bytes)
<1>0. cur \in linked /\ cur \in Addrs /\ free[cur] = 1 /\ size[cur] >= w
  BY DEF SearchInv, Fits, HeapTypeOK
<1>a. bytes \in Requests
  BY DEF SearchInv
<1>b. bytes \in Nat \ {0}
  BY <1>a
<1>1. w \in Nat /\ bytes \in Nat \ {0} /\ bytes <= 4 * w
  BY <1>a, <1>b, WordsEnough
<1>c. pc' = "idle" /\ cur' = NULL /\ bytes' = 0 /\ asked' = [asked EXCEPT ![cur] = bytes]
  OBVIOUS
<1>d. /\ \A a \in Addrs \ {cur} : asked'[a] = asked[a]
      /\ asked'[cur] = bytes /\ asked[cur] = 0 /\ asked' \in [Addrs -> Nat]
  BY <1>0, <1>1, <1>c DEF HeapTypeOK, OwnerInv
<1>i. HeapTypeOK /\ Tiling /\ OwnerInv /\ CoalesceInv /\ linked \subseteq Addrs /\ pc = "search"
  BY DEF HeapTypeOK
<1>e. IF size[cur] >= w + MIN_SPLIT THEN Split(w) ELSE TakeWhole
  OBVIOUS
<1> HIDE DEF HeapInv, Take, Return, w
<1>2. CASE ~(size[cur] >= w + MIN_SPLIT)
  <2>1. free' = [free EXCEPT ![cur] = 0] /\ UNCHANGED <<size, next, linked>>
    BY <1>2, <1>e DEF TakeWhole
  <2>2. HeapTypeOK'
    BY <1>i, <1>c, <1>d, <1>0, <1>1, <2>1 DEF HeapTypeOK
  <2>3. Tiling'
    BY <1>i, <2>1 DEF Tiling, Limit
  <2>4. OwnerInv'
    <3>0. size[cur] \in Nat
      BY <1>i, <1>0 DEF HeapTypeOK
    <3>1. size[cur] \in Nat /\ bytes <= 4 * size[cur]
      BY <3>0, <1>0, <1>1
    <3>2. linked \subseteq Addrs /\ free'[cur] = 0 /\ \A a \in Addrs \ {cur} : free'[a] = free[a]
      BY <1>i, <1>0, <2>1 DEF HeapTypeOK
    <3>3. ASSUME NEW a \in Addrs \ {cur}
          PROVE  /\ a \in linked => (free'[a] = 0 <=> asked'[a] # 0)
                 /\ asked'[a] # 0 => a \in linked /\ asked'[a] <= 4 * size'[a]
      BY <1>i, <1>d, <2>1, <3>2 DEF OwnerInv
    <3> QED BY <1>0, <1>1, <1>d, <2>1, <3>1, <3>2, <3>3 DEF OwnerInv
  <2>5. SearchInv' /\ CoalesceInv'
    BY <1>i, <1>c, <1>0, <2>1 DEF SearchInv, CoalesceInv, BothFree, HeapTypeOK, Tiling
  <2> QED BY <2>2, <2>3, <2>4, <2>5 DEF HeapInv
<1>3. CASE size[cur] >= w + MIN_SPLIT
  <2> DEFINE rest == cur + HEADER + w
  <2>0. Split(w)
    BY <1>3, <1>e
  <2>1. rest \in Addrs /\ rest \notin linked /\ cur < rest /\ rest < Limit(cur) /\ rest \in Nat
    <3>1. cur \in Nat /\ START <= cur /\ size[cur] \in Nat /\ Limit(cur) <= END /\ END \in Nat
      BY <1>i, <1>0, Ordered DEF HeapTypeOK
    <3>2. cur < rest /\ rest < Limit(cur) /\ rest \in Nat
      BY <1>1, <1>3, <3>1 DEF Limit, MIN_SPLIT
    <3>3. rest \notin linked
      BY <1>i, <1>0, <3>1, <3>2, Ordered
    <3>4. START <= rest /\ rest < END /\ START \in Nat
      BY <1>i, <1>0, <3>1, <3>2, Ordered
    <3> QED BY <3>1, <3>2, <3>3, <3>4 DEF Addrs
  <2>2. /\ size' = [size EXCEPT ![cur] = w, ![rest] = size[cur] - w - HEADER]
        /\ free' = [free EXCEPT ![cur] = 0, ![rest] = 1]
        /\ next' = [next EXCEPT ![cur] = rest, ![rest] = next[cur]]
        /\ linked' = linked \cup {rest}
    BY <2>0 DEF Split
  <2>3. size[cur] - w - HEADER \in Nat /\ size[cur] \in Nat
    <3>1. size[cur] \in Nat
      BY <1>i, <1>0 DEF HeapTypeOK
    <3> QED BY <1>1, <1>3, <3>1 DEF MIN_SPLIT
  <2>4. HeapTypeOK'
    BY <1>i, <1>c, <1>d, <1>0, <1>1, <2>1, <2>2, <2>3 DEF HeapTypeOK
  <2>5. /\ \A a \in Addrs \ {cur, rest} :
             size'[a] = size[a] /\ next'[a] = next[a] /\ free'[a] = free[a]
        /\ size'[cur] = w /\ next'[cur] = rest /\ free'[cur] = 0
        /\ size'[rest] = size[cur] - w - HEADER /\ next'[rest] = next[cur] /\ free'[rest] = 1
    <3> HIDE DEF rest
    <3>1. cur # rest
      BY <1>0, <2>1
    <3> QED BY <1>i, <1>0, <2>1, <2>2, <3>1 DEF HeapTypeOK
  <2>e. rest = cur + HEADER + w /\ rest # NULL
    BY <1>i, <2>1, Ordered, <1>0 DEF NULL
  <2> HIDE DEF rest
  <2>6. /\ \A a \in linked \ {cur} : Limit(a)' = Limit(a) /\ a # rest
        /\ cur + HEADER + size'[cur] = rest /\ rest + HEADER + size'[rest] = Limit(cur)
    <3>1. \A a \in linked \ {cur} : a \in Addrs \ {cur, rest}
      BY <1>i, <2>1 DEF HeapTypeOK
    <3>2. \A a \in linked \ {cur} : Limit(a)' = Limit(a)
      BY <3>1, <2>5 DEF Limit
    <3>3. cur + HEADER + size'[cur] = rest
      BY <2>5, <2>e
    <3>a. cur \in Nat /\ Limit(cur) = cur + HEADER + size[cur]
      BY <1>i, <1>0, Ordered DEF Limit
    <3>b. \A s \in Nat : cur + HEADER + w + HEADER + (s - w - HEADER) = cur + HEADER + s
      BY <1>1, <3>a
    <3>4. cur \in Nat /\ rest + HEADER + size'[rest] = Limit(cur)
      BY <2>3, <2>5, <2>e, <3>a, <3>b
    <3> QED BY <3>1, <3>2, <3>3, <3>4
  <2>7. Tiling'
    <3>1. START \in linked'
      BY <1>i, <2>2 DEF Tiling
    <3>2. ASSUME NEW a \in linked'
          PROVE  IF next'[a] = NULL THEN Limit(a)' = END
                 ELSE next'[a] \in linked' /\ next'[a] = Limit(a)'
      <4>1. CASE a = cur
        <5>1. next'[cur] = rest /\ rest \in linked' /\ rest # NULL
          BY <2>2, <2>5, <2>e
        <5>2. a + HEADER + size'[a] = rest
          BY <2>6, <4>1
        <5>3. Limit(a)' = rest /\ next'[a] = rest
          BY <4>1, <5>1, <5>2 DEF Limit
        <5> QED BY <5>1, <5>3
      <4>2. CASE a = rest
        <5>1. Limit(a)' = Limit(cur) /\ next'[a] = next[cur]
          BY <2>5, <2>6, <4>2 DEF Limit
        <5>2. IF next[cur] = NULL THEN Limit(cur) = END
              ELSE next[cur] \in linked /\ next[cur] = Limit(cur)
          BY <1>i, <1>0 DEF Tiling
        <5>3. next[cur] \in linked => next[cur] \in linked'
          BY <2>2
        <5> QED BY <5>1, <5>2, <5>3
      <4>3. CASE a \notin {cur, rest}
        <5>1. a \in linked /\ a \in Addrs \ {cur, rest}
          BY <1>i, <2>2, <4>3 DEF HeapTypeOK
        <5>2. Limit(a)' = Limit(a) /\ next'[a] = next[a]
          BY <2>5, <5>1 DEF Limit
        <5>3. IF next[a] = NULL THEN Limit(a) = END
              ELSE next[a] \in linked /\ next[a] = Limit(a)
          BY <1>i, <5>1 DEF Tiling
        <5> QED BY <2>2, <5>2, <5>3
      <4> QED BY <4>1, <4>2, <4>3
    <3>3. ASSUME NEW a \in linked', NEW b \in linked', a < b
          PROVE  Limit(a)' <= b
      <4>0. cur \in Nat /\ rest \in Nat /\ cur < rest /\ rest < Limit(cur) /\ Limit(cur) \in Nat
        BY <1>i, <1>0, <2>1, Ordered
      <4>1. CASE a \in linked \ {cur} /\ b \in linked
        BY <1>i, <2>6, <3>3, <4>1, Ordered
      <4>2. CASE a \in linked \ {cur} /\ b = rest
        <5>1. a \in Nat /\ Limit(a) \in Nat /\ ~(cur < a)
          BY <1>i, <1>0, <3>3, <4>0, <4>2, Ordered
        <5>2. Limit(a) <= cur
          BY <1>i, <1>0, <4>0, <4>2, <5>1, Ordered
        <5> QED BY <2>6, <4>0, <4>2, <5>1, <5>2
      <4>3. CASE a = cur /\ b \in linked
        <5>1. b \in Nat /\ Limit(cur) <= b
          BY <1>i, <1>0, <3>3, <4>3, Ordered
        <5> QED BY <2>6, <4>0, <4>3, <5>1 DEF Limit
      <4>4. CASE a = cur /\ b = rest
        BY <2>6, <4>0, <4>4 DEF Limit
      <4>5. CASE a = rest /\ b \in linked
        <5>1. b \in Nat /\ cur < b
          BY <1>i, <3>3, <4>0, <4>5, Ordered
        <5>2. Limit(cur) <= b
          BY <1>i, <1>0, <4>5, <5>1, Ordered
        <5> QED BY <1>i, <1>0, <2>6, <4>5, <5>1, <5>2 DEF Limit
      <4>6. ~(a = rest /\ b = rest)
        BY <3>3, <4>0
      <4> QED BY <2>2, <4>1, <4>2, <4>3, <4>4, <4>5, <4>6
    <3> QED BY <1>i, <3>1, <3>2, <3>3 DEF Tiling
  <2>8. OwnerInv'
    <3>1. asked[rest] = 0
      BY <1>i, <2>1 DEF OwnerInv
    <3>2. rest # cur /\ asked'[rest] = 0 /\ linked \subseteq Addrs
      BY <1>i, <1>0, <1>d, <2>1, <3>1 DEF HeapTypeOK
    <3>3. ASSUME NEW a \in Addrs \ {cur, rest}
          PROVE  /\ a \in linked => (free'[a] = 0 <=> asked'[a] # 0)
                 /\ asked'[a] # 0 => a \in linked /\ asked'[a] <= 4 * size'[a]
      BY <1>i, <1>d, <2>5 DEF OwnerInv
    <3> QED BY ZenonT(40), <1>i, <1>0, <1>1, <1>d, <2>2, <2>5, <3>2, <3>3 DEF OwnerInv
  <2>9. SearchInv' /\ CoalesceInv'
    <3>1. ASSUME NEW a \in linked' PROVE ~BothFree(a)'
      <4>0. rest # cur /\ linked \subseteq Addrs /\ \A b \in linked : ~BothFree(b)
        BY <1>i, <1>0, <2>1 DEF HeapTypeOK, CoalesceInv
      <4>1. CASE a = cur
        BY <2>5, <4>1 DEF BothFree
      <4>2. CASE a = rest
        <5>1. next[cur] # NULL => next[cur] \in linked /\ next[cur] # cur /\ next[cur] # rest
          BY <1>i, <1>0, <2>1, NextBlock
        <5>2. next[cur] # NULL => free[next[cur]] # 1 /\ free'[next[cur]] = free[next[cur]]
          BY <1>0, <2>5, <4>0, <5>1 DEF BothFree
        <5> QED BY <2>5, <4>2, <5>2 DEF BothFree
      <4>3. CASE a \in linked \ {cur, rest}
        <5>1. next[a] # NULL => next[a] \in linked /\ next[a] # rest
          BY <1>i, <2>1, <4>3 DEF Tiling
        <5>2. next[a] = cur => ~BothFree(a)'
          BY <1>0, <2>5, <4>0, <4>3 DEF BothFree
        <5> QED BY <2>5, <4>0, <4>3, <5>1, <5>2 DEF BothFree
      <4> QED BY <2>2, <4>1, <4>2, <4>3
    <3> QED BY <1>i, <1>c, <3>1 DEF SearchInv, CoalesceInv
  <2> QED BY <2>4, <2>7, <2>8, <2>9 DEF HeapInv
<1> QED BY <1>2, <1>3 DEF HeapInv

LEMMA KfreeInv == ASSUME HeapInv, NEW a \in Addrs, Kfree(a) PROVE HeapInv'
<1> USE DEF HeapInv, Kfree
<1>1. HeapTypeOK'
  BY DEF HeapTypeOK, Tiling
<1>2. Tiling'
  BY DEF Tiling, Limit
<1>3. OwnerInv'
  BY DEF OwnerInv, HeapTypeOK
<1>4. SearchInv'
  BY DEF SearchInv
<1>5. CoalesceInv'
  BY LimitInPool DEF CoalesceInv, Tiling, HeapTypeOK, Addrs, END
<1> QED BY <1>1, <1>2, <1>3, <1>4, <1>5

LEMMA MergeInv == ASSUME HeapInv, Merge PROVE HeapInv'
<1> DEFINE n == next[cur]
<1>i. HeapTypeOK /\ Tiling /\ OwnerInv /\ CoalesceInv /\ linked \subseteq Addrs /\ pc = "coalesce"
  BY DEF HeapInv, Merge, HeapTypeOK
<1>m. /\ size' = [size EXCEPT ![cur] = @ + HEADER + size[n]]
      /\ next' = [next EXCEPT ![cur] = next[n]]
      /\ linked' = linked \ {n}
      /\ free' = free /\ asked' = asked /\ pc' = pc /\ cur' = cur /\ bytes' = bytes
  BY DEF Merge
<1>0. cur \in linked /\ cur \in Addrs /\ n # NULL /\ free[cur] = 1 /\ free[n] = 1
  BY <1>i DEF Merge, CoalesceInv, BothFree
<1>1. /\ n \in linked /\ n \in Addrs /\ n = Limit(cur) /\ cur < n
      /\ \A b \in linked : b <= cur \/ n <= b
  BY <1>i, <1>0, NextBlock
<1>2. /\ \A a \in Addrs \ {cur} : size'[a] = size[a] /\ next'[a] = next[a]
      /\ size'[cur] = size[cur] + HEADER + size[n] /\ next'[cur] = next[n]
      /\ size[cur] \in Nat /\ size[n] \in Nat
  BY <1>i, <1>m, <1>0, <1>1 DEF HeapTypeOK
<1>3. HeapTypeOK'
  <2>1. next[n] \in Addrs \cup {NULL}
    BY <1>i, <1>1 DEF HeapTypeOK
  <2>2. size[cur] + HEADER + size[n] \in Nat
    BY <1>2
  <2> QED BY <1>i, <1>m, <1>0, <2>1, <2>2 DEF HeapTypeOK
<1>n. n = cur + HEADER + size[cur] /\ cur \in Nat /\ n \in Nat
  BY <1>i, <1>0, <1>1, Ordered DEF Limit
<1> HIDE DEF n
<1>4. /\ cur + HEADER + size'[cur] = Limit(n)
      /\ \A a \in linked \ {cur} : a + HEADER + size'[a] = Limit(a)
  BY <1>i, <1>0, <1>1, <1>2, <1>n DEF Limit
<1>5. \A a \in linked : next[a] = n => a = cur
  <2> SUFFICES ASSUME NEW a \in linked, next[a] = n, a # cur PROVE FALSE
    OBVIOUS
  <2>1. /\ a < n /\ a \in Nat
        /\ \A b \in linked : b <= a \/ n <= b
    BY <1>i, <1>0, NextBlock, Ordered
  <2> QED BY <1>0, <1>1, <1>n, <2>1
<1>6. Tiling'
  <2>1. START \in linked'
    BY <1>i, <1>m, <1>0, <1>1, <1>n, Ordered
  <2>2. ASSUME NEW a \in linked'
        PROVE  IF next'[a] = NULL THEN a + HEADER + size'[a] = END
               ELSE next'[a] \in linked' /\ next'[a] = a + HEADER + size'[a]
    <3>1. CASE a = cur
      <4>1. next'[a] = next[n] /\ a + HEADER + size'[a] = Limit(n)
        BY <1>2, <1>4, <3>1
      <4>2. IF next[n] = NULL THEN Limit(n) = END ELSE next[n] \in linked /\ next[n] = Limit(n)
        BY <1>i, <1>1 DEF Tiling
      <4>3. next[n] # n
        BY <1>i, <1>1, <1>0, <1>n, NextBlock
      <4> QED BY <1>m, <4>1, <4>2, <4>3
    <3>2. CASE a # cur
      <4>1. a \in linked /\ a \in Addrs \ {cur}
        BY <1>i, <1>m, <3>2
      <4>2. next'[a] = next[a] /\ a + HEADER + size'[a] = Limit(a) /\ next[a] # n
        BY <1>2, <1>4, <1>5, <4>1
      <4>3. IF next[a] = NULL THEN Limit(a) = END ELSE next[a] \in linked /\ next[a] = Limit(a)
        BY <1>i, <4>1 DEF Tiling
      <4> QED BY <1>m, <4>2, <4>3
    <3> QED BY <3>1, <3>2
  <2>3. ASSUME NEW a \in linked', NEW b \in linked', a < b
        PROVE  a + HEADER + size'[a] <= b
    <3>1. a \in linked /\ b \in linked \ {n} /\ a \in Nat /\ b \in Nat
      BY <1>i, <1>m, Ordered
    <3>2. CASE a = cur
      <4>1. n < b
        BY <1>1, <1>n, <2>3, <3>1, <3>2
      <4>2. Limit(n) <= b
        BY <1>i, <1>1, <3>1, <4>1, Ordered
      <4> QED BY <1>4, <3>2, <4>2
    <3>3. CASE a # cur
      <4>1. Limit(a) <= b
        BY <1>i, <2>3, <3>1, Ordered
      <4> QED BY <1>4, <3>1, <3>3, <4>1
    <3> QED BY <3>2, <3>3
  <2> QED BY <2>1, <2>2, <2>3 DEF Tiling, Limit
<1>7. OwnerInv'
  <2>1. asked[n] = 0 /\ asked[cur] = 0
    BY <1>i, <1>0, <1>1 DEF OwnerInv
  <2>2. ASSUME NEW a \in Addrs, asked'[a] # 0
        PROVE  a \in linked' /\ asked'[a] <= 4 * size'[a]
    <3>1. a \in linked /\ a \notin {cur, n} /\ asked[a] <= 4 * size[a]
      BY <1>i, <1>m, <2>1, <2>2 DEF OwnerInv
    <3> QED BY <1>m, <1>2, <2>2, <3>1
  <2>3. \A a \in linked' : free'[a] = 0 <=> asked'[a] # 0
    BY <1>i, <1>m DEF OwnerInv
  <2> QED BY <2>2, <2>3 DEF OwnerInv
<1>8. SearchInv'
  BY <1>i, <1>m DEF SearchInv
<1>9. CoalesceInv'
  <2> SUFFICES ASSUME NEW a \in linked', a < cur PROVE ~(BothFree(a)')
    BY <1>i, <1>m, <1>0, <1>1, <1>n DEF CoalesceInv
  <2>1. a \in linked /\ a \in Addrs \ {cur}
    BY <1>i, <1>m, <1>n
  <2> QED BY <1>i, <1>m, <1>2, <2>1 DEF CoalesceInv, BothFree
<1> QED BY <1>3, <1>6, <1>7, <1>8, <1>9 DEF HeapInv

LEMMA PassInv == ASSUME HeapInv, Pass PROVE HeapInv'
<1> USE DEF HeapInv, Pass, heap
<1>0. cur \in linked
  BY DEF CoalesceInv
<1>1. next[cur] \in linked /\ \A b \in linked : b <= cur \/ next[cur] <= b
  BY <1>0, NextBlock
<1>2. HeapTypeOK'
  BY <1>1 DEF HeapTypeOK
<1>3. Tiling' /\ OwnerInv' /\ SearchInv'
  BY DEF Tiling, OwnerInv, Limit, SearchInv
<1>4. CoalesceInv'
  <2> SUFFICES ASSUME NEW a \in linked, a < next[cur] PROVE ~BothFree(a)
    BY <1>1 DEF CoalesceInv, BothFree
  <2>1. a < cur \/ a = cur
    BY <1>0, <1>1, Ordered
  <2> QED BY <2>1 DEF CoalesceInv
<1> QED BY <1>2, <1>3, <1>4

LEMMA CoalesceDoneInv == ASSUME HeapInv, CoalesceDone PROVE HeapInv'
<1> USE DEF HeapInv, CoalesceDone, Return, heap
<1>0. cur \in linked /\ next[cur] = NULL
  BY DEF CoalesceInv, HeapTypeOK, Addrs, NULL
<1>1. HeapTypeOK' /\ Tiling' /\ OwnerInv' /\ SearchInv'
  BY DEF HeapTypeOK, Tiling, OwnerInv, Limit, SearchInv
<1>2. \A a \in linked : a <= cur
  BY <1>0, LimitInPool DEF Tiling, HeapTypeOK, Addrs, END
<1>3. CoalesceInv'
  <2>1. ~BothFree(cur)
    BY <1>0 DEF BothFree
  <2>2. \A a \in linked : a < cur => ~BothFree(a)
    BY DEF CoalesceInv
  <2>3. \A a \in linked : a \in Nat /\ (a < cur \/ a = cur)
    BY <1>0, <1>2, Ordered
  <2>4. \A a \in linked : ~BothFree(a)'
    BY <2>1, <2>2, <2>3 DEF BothFree
  <2> QED BY <2>4 DEF CoalesceInv
<1> QED BY <1>1, <1>3

LEMMA HeapInvariance == HeapSpec => []HeapInv
<1>1. HeapInv /\ [HeapNext]_heap_vars => HeapInv'
  <2> SUFFICES ASSUME HeapInv, [HeapNext]_heap_vars PROVE HeapInv'
    OBVIOUS
  <2>1. CASE UNCHANGED heap_vars
    BY <2>1 DEF heap_vars, heap, HeapInv, HeapTypeOK, Tiling, OwnerInv, Limit, SearchInv, Fits,
         CoalesceInv, BothFree
  <2> QED
    BY <2>1, KmallocInv, KfreeInv, SearchNextInv, SearchFailInv, TakeInv, MergeInv, PassInv,
       CoalesceDoneInv DEF HeapNext, Step
<1> QED BY HeapInvInit, <1>1, PTL DEF HeapSpec

-----------------------------------------------------------------------------
\* Headers, cursors and sizes keep their types in every reachable state.
THEOREM HeapTypes == HeapSpec => []HeapTypeOK
<1>1. HeapInv => HeapTypeOK
  BY DEF HeapInv
<1> QED BY <1>1, HeapInvariance, PTL

\* The block list tiles the pool, whatever the order of kmalloc and kfree.
THEOREM HeapTiling == HeapSpec => []Tiling
<1>1. HeapInv => Tiling
  BY DEF HeapInv
<1> QED BY <1>1, HeapInvariance, PTL

\* Allocations that are outstanding never overlap, are large enough, and
\* every used block has an owner.
THEOREM HeapAllocationsDisjoint == HeapSpec => []AllocationsDisjoint
<1>1. HeapInv => AllocationsDisjoint
  <2> SUFFICES ASSUME HeapInv, NEW a \in Addrs, asked[a] # 0, NEW b \in linked \ {a}
               PROVE  Payload(a) \cap (b..(Limit(b) - 1)) = {}
    BY DEF AllocationsDisjoint, HeapInv, OwnerInv
  <2>1. a \in linked /\ a \in Nat /\ b \in Nat /\ size[a] \in Nat
    BY DEF HeapInv, OwnerInv, HeapTypeOK, Addrs, END
  <2>2. (asked[a] + 3) \div 4 <= size[a] /\ (asked[a] + 3) \div 4 \in Nat
    BY <2>1 DEF HeapInv, OwnerInv, HeapTypeOK
  <2>3. b < a \/ a < b
    BY <2>1
  <2>4. Limit(b) \in Nat /\ (Limit(a) <= b \/ Limit(b) <= a)
    BY <2>1, <2>3, LimitInPool DEF HeapInv, Tiling
  <2> QED BY <2>1, <2>2, <2>4 DEF Payload, Limit
<1> QED BY <1>1, HeapInvariance, PTL

\* Between calls no two neighbouring blocks are both free.
THEOREM HeapCoalesced == HeapSpec => []Coalesced
<1>1. HeapInv => Coalesced
  BY DEF HeapInv, CoalesceInv, Coalesced
<1> QED BY <1>1, HeapInvariance, PTL

\* When everything has been freed, the pool is one free block again.
THEOREM HeapAllFreedRestores == HeapSpec => []AllFreedRestores
<1>1. HeapInv => AllFreedRestores
  <2> SUFFICES ASSUME HeapInv, pc = "idle", \A a \in Addrs : asked[a] = 0
               PROVE  linked = {START} /\ free[START] = 1 /\ size[START] = POOL - HEADER
    BY DEF AllFreedRestores
  <2>1. START \in linked /\ \A a \in linked : a \in Addrs /\ free[a] = 1
    BY DEF HeapInv, Tiling, OwnerInv, HeapTypeOK
  <2>2. next[START] = NULL
    BY <2>1 DEF HeapInv, Tiling, CoalesceInv, BothFree
  <2>3. Limit(START) = END
    BY <2>1, <2>2 DEF HeapInv, Tiling
  <2>4. linked = {START}
    <3> SUFFICES ASSUME NEW b \in linked, b # START PROVE FALSE
      BY <2>1
    <3>1. HeapTypeOK /\ Tiling
      BY DEF HeapInv
    <3>2. START < b /\ b < END
      BY <3>1, Ordered
    <3> QED BY <2>1, <2>3, <3>1, <3>2, Ordered
  <2>5. size[START] \in Nat /\ START + HEADER + size[START] = START + POOL
    BY <2>1, <2>3 DEF Limit, END, HeapInv, HeapTypeOK
  <2>6. size[START] = POOL - HEADER
    BY <2>5
  <2> QED BY <2>1, <2>4, <2>6
<1> QED BY <1>1, HeapInvariance, PTL

\* kmalloc reports failure only if no free block could hold the request.
THEOREM HeapFailsOnlyWhenFull == HeapSpec => FailsOnlyWhenFull
<1>1. HeapInv /\ [HeapNext]_heap_vars => [pc = "search" /\ cur = NULL => \A a \in linked : ~Fits(a)]_heap_vars
  BY DEF HeapInv, SearchInv
<1> QED BY <1>1, HeapInvariance, PTL DEF HeapSpec, FailsOnlyWhenFull

HIDE HeapAssumption
HIDE SchedAssumption

-----------------------------------------------------------------------------
(* The FAT32 volume *)

Marks == Clusters \cup {FREE, EOC}
FatTables == [Clusters -> Marks]

\* The tbl leads nowhere in a circle: a cluster can be given a height above
\* the one its entry names.
NoLoop(tbl) ==
  \E r \in [Clusters -> Nat] : \A c \in Clusters : tbl[c] \in Clusters => r[tbl[c]] < r[c]

\* Every cluster that has an owner is marked, and so has the next one of its
\* chain, which is the same.
Owners(tbl, own) ==
  \A c \in Clusters : own[c] # 0 => /\ tbl[c] # FREE
                                    /\ tbl[c] \in Clusters => own[tbl[c]] = own[c]

IsSlot(e) ==
  /\ e = [st |-> e.st, name |-> e.name, clus |-> e.clus, size |-> e.size]
  /\ e.st \in {"end", "deleted", "label", "file"}
  /\ e.clus \in Clusters \cup {0} /\ e.size \in Nat

\* No file behind the end of the directory, and no two of one name.
Listed(dir) ==
  \A s, t \in FatSlots : s < t /\ dir[t].st = "file" =>
    dir[s].st # "end" /\ (dir[s].st = "file" => dir[s].name # dir[t].name)

\* What holds of a FAT32 volume whatever happens to it,
FatSound(v) ==
  /\ v = [table |-> v.table, data |-> v.data, dir |-> v.dir]
  /\ v.table \in FatTables /\ NoLoop(v.table)
  /\ v.dir = [s \in FatSlots |-> v.dir[s]]
  /\ \A s \in FatSlots : IsSlot(v.dir[s])
  /\ Listed(v.dir)

\* and until an I/O error strikes in the middle of a write.
Heads(dir, own) == \A s \in FatSlots : dir[s].st = "file" /\ dir[s].clus \in Clusters => own[dir[s].clus] = s
Owned(v) == \E own \in [Clusters -> FatSlots \cup {0}] : Owners(v.table, own) /\ Heads(v.dir, own)

LEMMA MarkIs ==
  /\ Clusters \subseteq Nat \ {0, 1} /\ FREE \notin Clusters /\ EOC \notin Clusters /\ FREE # EOC
  /\ NCLUS \in Nat /\ NCLUS > 0 /\ FSLOTS \in Nat /\ FSLOTS > 0
BY FatAssumption DEF Clusters, FREE, EOC

LEMMA WalkIs ==
  ASSUME NEW tbl \in FatTables, NEW first \in Marks, NEW w, w = Walk(tbl, first)
  PROVE  /\ \A i \in 0..NCLUS : w[i] \in Marks
         /\ w[0] = first
         /\ \A i \in 1..NCLUS : w[i] = IF w[i - 1] \in Clusters THEN tbl[w[i - 1]] ELSE w[i - 1]
<1>. USE MarkIs
<1>. DEFINE Body(f, i) == IF i = 0 THEN first ELSE IF f[i - 1] \in Clusters THEN tbl[f[i - 1]] ELSE f[i - 1]
            Ok(g, m) == g = [i \in 0..m |-> Body(g, i)]
            T == { m \in Nat : \E g : Ok(g, m) }
<1>1. 0 \in T
  <2>. DEFINE g == [i \in 0..0 |-> first]
  <2>1. Ok(g, 0)
    OBVIOUS
  <2>. HIDE DEF g, Ok
  <2>. QED  BY <2>1
<1>2. ASSUME NEW m \in Nat, m \in T PROVE m + 1 \in T
  <2>1. PICK g : Ok(g, m)
    BY <1>2
  <2>. DEFINE h == [i \in 0..(m + 1) |-> IF i = m + 1 THEN Body(g, m + 1) ELSE g[i]]
  <2>2. ASSUME NEW i \in 0..(m + 1) PROVE h[i] = Body(h, i)
    <3>1. CASE i = m + 1
      <4>1. h[m] = g[m]
        OBVIOUS
      <4>. QED  BY <3>1, <4>1
    <3>2. CASE i # m + 1
      <4>1. i \in 0..m /\ h[i] = g[i] /\ g[i] = Body(g, i)
        <5>1. i \in 0..m
          BY <3>2
        <5>2. h[i] = g[i]
          BY <3>2
        <5>3. g[i] = Body(g, i)
          <6>. HIDE DEF Body
          <6>. QED  BY <5>1, <2>1
        <5>. QED  BY <5>1, <5>2, <5>3
      <4>2. i # 0 => h[i - 1] = g[i - 1]
        BY <4>1
      <4>. QED  BY <4>1, <4>2
    <3>. QED  BY <3>1, <3>2
  <2>3. h = [i \in 0..(m + 1) |-> Body(h, i)]
    BY <2>2
  <2>. HIDE DEF h, Body
  <2>4. Ok(h, m + 1)
    BY <2>3
  <2>. QED  BY <2>4
<1>3. NCLUS \in T
  <2>1. \A m \in Nat : m \in T
    <3>. HIDE DEF T
    <3>. QED  BY <1>1, <1>2, Induction
  <2>. HIDE DEF T
  <2>. QED  BY <2>1
<1>4. Ok(w, NCLUS)
  <2>1. PICK g : Ok(g, NCLUS)
    BY <1>3
  <2>2. w = CHOOSE f : Ok(f, NCLUS)
    BY DEF Walk
  <2>. HIDE DEF Ok
  <2>. QED  BY <2>1, <2>2
<1>5. w[0] = first
  BY <1>4
<1>6. ASSUME NEW i \in 1..NCLUS PROVE w[i] = IF w[i - 1] \in Clusters THEN tbl[w[i - 1]] ELSE w[i - 1]
  <2>1. w[i] = Body(w, i)
    <3>. HIDE DEF Body
    <3>. QED  BY <1>4
  <2>2. i > 0
    OBVIOUS
  <2>. QED  BY <2>1, <2>2
<1>. HIDE DEF Ok, Body
<1>. DEFINE U == { i \in Nat : i <= NCLUS => w[i] \in Marks }
<1>7. 0 \in U
  BY <1>5
<1>8. ASSUME NEW i \in Nat, i \in U PROVE i + 1 \in U
  <2>. SUFFICES ASSUME i + 1 <= NCLUS PROVE w[i + 1] \in Marks
    OBVIOUS
  <2>1. i + 1 \in 1..NCLUS /\ (i + 1) - 1 = i /\ w[i] \in Marks
    BY <1>8
  <2>2. w[i + 1] = IF w[i] \in Clusters THEN tbl[w[i]] ELSE w[i]
    BY <1>6, <2>1
  <2>. QED  BY <2>1, <2>2 DEF FatTables
<1>9. \A i \in Nat : i \in U
  <2>. HIDE DEF U
  <2>. QED  BY <1>7, <1>8, Induction
<1>. QED  BY <1>5, <1>6, <1>9

\* Once an entry on the way is no cluster, nothing behind it is one.
LEMMA WalkStops ==
  ASSUME NEW tbl \in FatTables, NEW first \in Marks, NEW w, w = Walk(tbl, first),
         NEW k \in 0..NCLUS, w[k] \notin Clusters
  PROVE  \A i \in k..NCLUS : w[i] \notin Clusters
<1>1. /\ \A i \in 1..NCLUS : w[i] = IF w[i - 1] \in Clusters THEN tbl[w[i - 1]] ELSE w[i - 1]
      /\ NCLUS \in Nat
  BY WalkIs, MarkIs
<1>. DEFINE U == { d \in Nat : k + d <= NCLUS => w[k + d] \notin Clusters }
<1>2. 0 \in U
  OBVIOUS
<1>3. ASSUME NEW d \in Nat, d \in U PROVE d + 1 \in U
  <2>. SUFFICES ASSUME k + (d + 1) <= NCLUS PROVE w[k + (d + 1)] \notin Clusters
    OBVIOUS
  <2>1. k + (d + 1) \in 1..NCLUS /\ (k + (d + 1)) - 1 = k + d /\ k + d <= NCLUS
    BY <1>1
  <2>2. w[k + d] \notin Clusters
    BY <2>1, <1>3
  <2>3. w[k + (d + 1)] = w[k + d]
    BY <2>1, <2>2, <1>1
  <2>. QED  BY <2>2, <2>3
<1>4. \A d \in Nat : d \in U
  <2>. HIDE DEF U
  <2>. QED  BY <1>2, <1>3, Induction
<1>. SUFFICES ASSUME NEW i \in k..NCLUS PROVE w[i] \notin Clusters
  OBVIOUS
<1>5. i - k \in Nat /\ k + (i - k) = i /\ i <= NCLUS
  BY <1>1
<1>. QED  BY <1>4, <1>5

\* The pigeons are the steps of the way, and the holes the clusters.
LEMMA NoLoopEnds ==
  ASSUME NEW tbl \in FatTables, NoLoop(tbl), NEW first \in Marks
  PROVE  Ends(tbl, first)
<1>. DEFINE w == Walk(tbl, first)
<1>1. /\ \A i \in 1..NCLUS : w[i] = IF w[i - 1] \in Clusters THEN tbl[w[i - 1]] ELSE w[i - 1]
      /\ NCLUS \in Nat
  BY WalkIs, MarkIs
<1>2. PICK r \in [Clusters -> Nat] : \A c \in Clusters : tbl[c] \in Clusters => r[tbl[c]] < r[c]
  BY DEF NoLoop
<1>. SUFFICES ASSUME w[NCLUS] \in Clusters PROVE FALSE
  BY DEF Ends
<1>3. ASSUME NEW k \in 0..NCLUS PROVE w[k] \in Clusters
  <2>1. w[k] \notin Clusters => w[NCLUS] \notin Clusters
    BY WalkStops, <1>1
  <2>. QED  BY <2>1
<1>. HIDE DEF w
<1>4. ASSUME NEW k \in 0..NCLUS, NEW i \in Nat, k + i + 1 <= NCLUS, i = 0 \/ r[w[k + i]] < r[w[k]]
      PROVE  r[w[k + i + 1]] < r[w[k]]
  <2>1. k + i + 1 \in 1..NCLUS /\ k + i \in 0..NCLUS /\ (k + i + 1) - 1 = k + i /\ k + i + 1 \in 0..NCLUS
    BY <1>1, <1>4
  <2>2. w[k + i + 1] = tbl[w[k + i]] /\ w[k + i] \in Clusters /\ w[k + i + 1] \in Clusters /\ w[k] \in Clusters
    BY <2>1, <1>1, <1>3
  <2>3. r[w[k + i + 1]] < r[w[k + i]]
    BY <2>2, <1>2
  <2>4. r[w[k + i + 1]] \in Nat /\ r[w[k + i]] \in Nat /\ r[w[k]] \in Nat
    BY <2>2
  <2>5. i = 0 => w[k + i] = w[k]
    OBVIOUS
  <2>. QED  BY <2>3, <2>4, <2>5, <1>4
<1>5. ASSUME NEW k \in 0..NCLUS PROVE \A j \in (k + 1)..NCLUS : r[w[j]] < r[w[k]]
  <2>. DEFINE U == { i \in Nat : i # 0 /\ k + i <= NCLUS => r[w[k + i]] < r[w[k]] }
  <2>1. 0 \in U
    OBVIOUS
  <2>2. ASSUME NEW i \in Nat, i \in U PROVE i + 1 \in U
    <3>. SUFFICES ASSUME k + (i + 1) <= NCLUS PROVE r[w[k + (i + 1)]] < r[w[k]]
      OBVIOUS
    <3>1. k + (i + 1) = k + i + 1 /\ k + i <= NCLUS /\ k + i + 1 <= NCLUS
      BY <1>1
    <3>2. i = 0 \/ r[w[k + i]] < r[w[k]]
      BY <2>2, <3>1
    <3>. QED  BY <3>1, <3>2, <1>4
  <2>3. \A i \in Nat : i \in U
    <3>. HIDE DEF U
    <3>. QED  BY <2>1, <2>2, Induction
  <2>. SUFFICES ASSUME NEW j \in (k + 1)..NCLUS PROVE r[w[j]] < r[w[k]]
    OBVIOUS
  <2>4. j - k \in Nat /\ j - k # 0 /\ k + (j - k) = j /\ j <= NCLUS
    BY <1>1
  <2>. QED  BY <2>3, <2>4
<1>. DEFINE f == [k \in 0..NCLUS |-> w[k]]
<1>6. f \in [0..NCLUS -> Clusters]
  BY <1>3
<1>7. IsFiniteSet(0..NCLUS) /\ Cardinality(0..NCLUS) = NCLUS + 1
  BY <1>1, FS_Interval
<1>8. IsFiniteSet(Clusters) /\ Cardinality(Clusters) = NCLUS
  BY <1>1, FS_Interval DEF Clusters
<1>9. PICK x, y \in 0..NCLUS : x # y /\ f[x] = f[y]
  <2>1. Cardinality(Clusters) < Cardinality(0..NCLUS)
    BY ONLY <1>1, <1>7, <1>8
  <2>. HIDE DEF f
  <2>2. PICK S, T : S = 0..NCLUS /\ T = Clusters
    OBVIOUS
  <2>3. IsFiniteSet(S) /\ IsFiniteSet(T) /\ Cardinality(T) < Cardinality(S) /\ f \in [S -> T]
    BY ONLY <2>1, <2>2, <1>6, <1>7, <1>8
  <2>4. \E x, y \in S : x # y /\ f[x] = f[y]
    BY ONLY <2>3, FS_PigeonHole
  <2>. QED  BY <2>2, <2>4
<1>10. w[x] = w[y] /\ r[w[x]] \in Nat
  BY <1>9, <1>3
<1>11. x < y \/ y < x
  BY <1>9
<1>12. CASE x < y
  BY <1>5, <1>10, <1>12
<1>13. CASE y < x
  BY <1>5, <1>10, <1>13
<1>. QED  BY <1>11, <1>12, <1>13

LEMMA ChainIs ==
  ASSUME NEW tbl \in FatTables, NEW first \in Marks
  PROVE  /\ Chain(tbl, first) \in Seq(Clusters)
         /\ Len(Chain(tbl, first)) \in Nat
         /\ first \in Clusters => first \in Range(Chain(tbl, first))
         /\ Range(Chain(tbl, first)) \subseteq Clusters
         /\ \A own : /\ Owners(tbl, own) 
                     /\ first \in Clusters => own[first] # 0
                     => \A c \in Range(Chain(tbl, first)) : own[c] = own[first] /\ own[c] # 0
<1>. DEFINE w    == Walk(tbl, first)
            Stop == {NCLUS} \cup { i \in 0..NCLUS : w[i] \notin Clusters }
            stop == Min(Stop)
            ch   == Chain(tbl, first)
<1>0. NCLUS \in Nat /\ NCLUS > 0
  BY MarkIs
<1>1. stop \in 0..NCLUS /\ \A i \in 0..(stop - 1) : w[i] \in Clusters
  <2>1. Stop \in SUBSET Nat /\ Stop # {}
    BY <1>0
  <2>2. stop \in Stop /\ \A y \in Stop : stop <= y
    <3>. HIDE DEF Stop
    <3>. QED  BY <2>1, MinIs
  <2>3. stop \in 0..NCLUS
    BY <2>2, <1>0
  <2>. HIDE DEF stop
  <2>4. ASSUME NEW i \in 0..(stop - 1), w[i] \notin Clusters PROVE FALSE
    <3>1. i \in 0..NCLUS /\ i < stop
      BY <2>3, <1>0
    <3>2. i \in Stop
      BY <3>1, <2>4
    <3>. QED  BY <3>1, <3>2, <2>2, <2>3
  <2>. QED  BY <2>3, <2>4
<1>2. /\ w[0] = first
      /\ \A i \in 1..NCLUS : w[i] = IF w[i - 1] \in Clusters THEN tbl[w[i - 1]] ELSE w[i - 1]
  BY WalkIs
<1>3. ch = [i \in 1..stop |-> w[i - 1]]
  BY DEF Chain
<1>. HIDE DEF w, stop, ch
<1>4. ASSUME NEW i \in 1..stop PROVE w[i - 1] \in Clusters /\ ch[i] = w[i - 1]
  <2>1. i - 1 \in 0..(stop - 1)
    BY <1>1
  <2>. QED  BY <2>1, <1>1, <1>3
<1>5. ch \in [1..stop -> Clusters] /\ stop \in Nat
  BY <1>1, <1>3, <1>4
<1>6. ch \in Seq(Clusters) /\ Len(ch) = stop
  BY <1>5, FunctionIsSeq
<1>7. first \in Clusters => first \in Range(ch)
  <2>. SUFFICES ASSUME first \in Clusters PROVE first \in Range(ch)
    OBVIOUS
  <2>1. stop > 0
    <3>1. stop # 0
      <4>1. 0 \notin Stop /\ Stop \in SUBSET Nat /\ Stop # {}
        BY <1>0, <1>2 DEF w
      <4>. HIDE DEF Stop
      <4>2. stop \in Stop
        BY <4>1, MinIs DEF stop
      <4>. QED  BY <4>1, <4>2
    <3>. QED  BY <3>1, <1>1
  <2>2. 1 \in 1..stop /\ ch[1] = first
    BY <2>1, <1>1, <1>2, <1>4
  <2>. QED  BY <2>2, <1>5 DEF Range
<1>8. Range(ch) \subseteq Clusters
  BY <1>5 DEF Range
<1>9. ASSUME NEW own, Owners(tbl, own), first \in Clusters => own[first] # 0, NEW c \in Range(ch)
      PROVE  own[c] = own[first] /\ own[c] # 0
  <2>. DEFINE U == { i \in Nat : i + 1 <= stop => own[w[i]] = own[first] /\ own[w[i]] # 0 }
  <2>1. PICK i \in 1..stop : c = w[i - 1]
    BY <1>5, <1>4, <1>9 DEF Range
  <2>2. 0 \in U
    <3>1. 1 <= stop => w[0] \in Clusters
      <4>1. 1 <= stop => 0 \in 0..(stop - 1)
        BY <1>1
      <4>. QED  BY <4>1, <1>1
    <3>. QED  BY <3>1, <1>2, <1>9
  <2>3. ASSUME NEW j \in Nat, j \in U PROVE j + 1 \in U
    <3>. SUFFICES ASSUME (j + 1) + 1 <= stop PROVE own[w[j + 1]] = own[first] /\ own[w[j + 1]] # 0
      OBVIOUS
    <3>1. j \in 0..(stop - 1) /\ j + 1 \in 0..(stop - 1) /\ j + 1 \in 1..NCLUS /\ (j + 1) - 1 = j /\ j + 1 <= stop
      BY <1>0, <1>1
    <3>2. w[j] \in Clusters /\ w[j + 1] \in Clusters /\ own[w[j]] = own[first] /\ own[w[j]] # 0
      BY <3>1, <2>3, <1>1
    <3>3. w[j + 1] = tbl[w[j]]
      BY <3>1, <3>2, <1>2
    <3>. QED  BY <3>2, <3>3, <1>9 DEF Owners
  <2>4. \A j \in Nat : j \in U
    <3>. HIDE DEF U
    <3>. QED  BY <2>2, <2>3, Induction
  <2>5. i - 1 \in Nat /\ (i - 1) + 1 <= stop
    BY <1>1
  <2>. QED  BY <2>1, <2>4, <2>5
<1>. QED  BY <1>5, <1>6, <1>7, <1>8, <1>9 DEF ch

LEMMA FreeChainIs ==
  ASSUME NEW tbl \in FatTables, NoLoop(tbl), NEW first \in Marks,
         NEW freed, freed = fat_free_chain(tbl, first)
  PROVE  /\ freed \in FatTables /\ NoLoop(freed)
         /\ \A c \in Clusters : freed[c] = IF c \in Range(Chain(tbl, first)) THEN FREE ELSE tbl[c]
<1>. DEFINE R == Range(Chain(tbl, first))
<1>1. freed = [c \in Clusters |-> IF c \in R THEN FREE ELSE tbl[c]]
  BY DEF fat_free_chain
<1>. HIDE DEF R
<1>2. freed \in FatTables /\ \A c \in Clusters : freed[c] = IF c \in R THEN FREE ELSE tbl[c]
  BY <1>1 DEF FatTables, Marks
<1>3. PICK r \in [Clusters -> Nat] : \A c \in Clusters : tbl[c] \in Clusters => r[tbl[c]] < r[c]
  BY DEF NoLoop
<1>4. \A c \in Clusters : freed[c] \in Clusters => r[freed[c]] < r[c]
  BY <1>2, <1>3, MarkIs
<1>. QED  BY <1>2, <1>4 DEF NoLoop, R

LEMMA AllocIs ==
  ASSUME NEW tbl \in FatTables, NEW a, a = fat_alloc(tbl)
  PROVE  \/ a.clus = 0 /\ a.table = tbl /\ \A c \in Clusters : tbl[c] # FREE
         \/ /\ a.clus \in Clusters /\ a.clus # 0 /\ tbl[a.clus] = FREE
            /\ a.table = [tbl EXCEPT ![a.clus] = EOC]
<1>. DEFINE F == { c \in Clusters : tbl[c] = FREE }
<1>1. CASE F = {}
  BY <1>1 DEF fat_alloc
<1>2. CASE F # {}
  <2>1. F \in SUBSET Nat
    BY MarkIs
  <2>2. Min(F) \in F
    <3>. HIDE DEF F
    <3>. QED  BY <1>2, <2>1, MinIs
  <2>3. a = [clus |-> Min(F), table |-> [tbl EXCEPT ![Min(F)] = EOC]]
    BY <1>2 DEF fat_alloc
  <2>4. Min(F) # 0
    BY <2>2, MarkIs
  <2>. QED  BY <2>2, <2>3, <2>4
<1>. QED  BY <1>1, <1>2

\* What holds of a chain that is being made out of the clusters that are free
\* in a tbl.
Making(freed, s) ==
  /\ s = [table |-> s.table, data |-> s.data, first |-> s.first, prev |-> s.prev, ret |-> s.ret]
  /\ s.table \in FatTables /\ NoLoop(s.table)
  /\ s.first \in Clusters \cup {0} /\ s.prev \in Clusters \cup {0} /\ s.ret \in Int
  /\ s.first = 0 <=> s.prev = 0
  /\ s.first # 0 => freed[s.first] = FREE /\ s.table[s.first] # FREE
  /\ s.prev # 0 => freed[s.prev] = FREE /\ s.table[s.prev] = EOC
  /\ \A c \in Clusters : freed[c] # FREE => s.table[c] = freed[c]
  /\ \A c \in Clusters : freed[c] = FREE /\ s.table[c] \in Clusters =>
                           freed[s.table[c]] = FREE /\ s.table[s.table[c]] # FREE
  /\ s.ret >= 0 \/ s.ret = -3 \/ s.ret = -4
  /\ s.ret = -3 => \A c \in Clusters : s.table[c] # FREE

\* A cluster without a successor may be given one that nobody names.
LEMMA LinkedNoLoop ==
  ASSUME NEW tbl \in FatTables, NoLoop(tbl), NEW p \in Clusters \cup {0}, NEW c \in Clusters, p # c,
         NEW t \in FatTables, t[c] = EOC, p # 0 => t[p] = c,
         \A x \in Clusters : x # c /\ x # p => t[x] = tbl[x]
  PROVE  NoLoop(t)
<1>1. PICK r \in [Clusters -> Nat] : \A x \in Clusters : tbl[x] \in Clusters => r[tbl[x]] < r[x]
  BY DEF NoLoop
<1>. DEFINE q == [x \in Clusters |-> IF x = c THEN 0 ELSE r[x] + 1]
<1>2. q \in [Clusters -> Nat]
  OBVIOUS
<1>3. ASSUME NEW x \in Clusters, t[x] \in Clusters PROVE q[t[x]] < q[x]
  <2>1. x # c
    BY <1>3, MarkIs
  <2>2. q[x] = r[x] + 1 /\ r[x] \in Nat
    BY <2>1
  <2>3. CASE t[x] = c
    <3>1. q[t[x]] = 0
      BY <2>3
    <3>. QED  BY <3>1, <2>2
  <2>4. CASE t[x] # c
    <3>1. x # p /\ t[x] = tbl[x]
      BY <2>1, <2>4, MarkIs
    <3>2. r[tbl[x]] < r[x] /\ q[t[x]] = r[tbl[x]] + 1 /\ r[tbl[x]] \in Nat
      BY <3>1, <2>4, <1>1, <1>3
    <3>. QED  BY <3>2, <2>2
  <2>. QED  BY <2>3, <2>4
<1>. HIDE DEF q
<1>. QED  BY <1>2, <1>3 DEF NoLoop

LEMMA PutClusterMakes ==
  ASSUME NEW freed \in FatTables, NEW s, Making(freed, s), NEW v, NEW cut, NEW u, u = PutCluster(s, v, cut)
  PROVE  Making(freed, u)
<1>. DEFINE a == fat_alloc(s.table)
<1>0. s.ret \in Int /\ s.table \in FatTables
  BY DEF Making
<1>1. CASE s.ret < 0
  BY <1>0, <1>1 DEF PutCluster
<1>2. CASE s.ret >= 0 /\ a.clus = 0
  <2>1. u = [s EXCEPT !.ret = -3]
    <3>. HIDE DEF a
    <3>. QED  BY <1>0, <1>2 DEF PutCluster, a
  <2>2. u = [table |-> s.table, data |-> s.data, first |-> s.first, prev |-> s.prev, ret |-> -3]
    BY <2>1 DEF Making
  <2>3. \A c \in Clusters : s.table[c] # FREE
    BY <1>0, <1>2, AllocIs, MarkIs
  <2>. QED  BY <2>2, <2>3 DEF Making
<1>3. CASE s.ret >= 0 /\ a.clus # 0
  <2>1. PICK c \in Clusters : c = a.clus /\ s.table[c] = FREE /\ a.table = [s.table EXCEPT ![c] = EOC]
    BY <1>0, <1>3, AllocIs
  <2>. DEFINE t == IF s.prev = 0 THEN a.table ELSE [a.table EXCEPT ![s.prev] = c]
              m == IF s.ret + 1 = cut THEN -4 ELSE s.ret + 1
              d == IF s.ret + 1 = cut THEN s.data ELSE [s.data EXCEPT ![c] = v]
              f == IF s.first = 0 THEN c ELSE s.first
  <2>2. u = [table |-> t, data |-> d, first |-> f, prev |-> c, ret |-> m]
    BY <1>0, <1>3, <2>1 DEF PutCluster
  <2>3. s.prev # c
    BY <2>1, MarkIs DEF Making
  <2>4. /\ t \in FatTables /\ t[c] = EOC /\ (s.prev # 0 => t[s.prev] = c)
        /\ \A x \in Clusters : x # c /\ x # s.prev => t[x] = s.table[x]
    <3>1. /\ a.table \in FatTables /\ a.table[c] = EOC
          /\ \A x \in Clusters : x # c => a.table[x] = s.table[x]
      BY <2>1, <1>0 DEF FatTables, Marks
    <3>2. s.prev \in Clusters \cup {0}
      BY DEF Making
    <3>3. CASE s.prev = 0
      BY <3>1, <3>3
    <3>4. CASE s.prev # 0
      <4>1. t = [a.table EXCEPT ![s.prev] = c]
        BY <3>4
      <4>. HIDE DEF t
      <4>. QED  BY <3>1, <3>2, <3>4, <4>1, <2>3 DEF FatTables, Marks
    <3>. QED  BY <3>3, <3>4
  <2>. HIDE DEF t, d
  <2>5. NoLoop(t)
    BY <2>3, <2>4, LinkedNoLoop DEF Making
  <2>6. m \in Int /\ (m >= 0 \/ m = -4) /\ m # -3
    BY <1>0, <1>3
  <2>7. f \in Clusters /\ f # 0 /\ c # 0
    BY MarkIs DEF Making
  <2>8. freed[c] = FREE
    <3>1. freed[c] # FREE => s.table[c] = freed[c]
      BY DEF Making
    <3>. QED  BY <3>1, <2>1
  <2>9. ASSUME NEW x \in Clusters, t[x] = FREE PROVE s.table[x] = FREE
    <3>1. x # c /\ x # s.prev
      BY <2>4, <2>9, MarkIs
    <3>. QED  BY <3>1, <2>4, <2>9
  <2>10. freed[f] = FREE /\ t[f] # FREE
    <3>1. CASE s.first = 0
      BY <3>1, <2>4, <2>8, MarkIs
    <3>2. CASE s.first # 0
      <4>1. f = s.first /\ freed[f] = FREE /\ s.table[f] # FREE
        BY <3>2 DEF Making
      <4>. QED  BY <4>1, <2>7, <2>9
    <3>. QED  BY <3>1, <3>2
  <2>11. ASSUME NEW x \in Clusters, freed[x] # FREE PROVE t[x] = freed[x]
    <3>1. x # c /\ x # s.prev /\ s.table[x] = freed[x]
      BY <2>8, <2>11, MarkIs DEF Making
    <3>. QED  BY <3>1, <2>4
  <2>12. ASSUME NEW x \in Clusters, freed[x] = FREE, t[x] \in Clusters
         PROVE  freed[t[x]] = FREE /\ t[t[x]] # FREE
    <3>1. x # c
      BY <2>4, <2>12, MarkIs
    <3>2. CASE x = s.prev
      <4>1. t[x] = c
        BY <3>2, <2>4, MarkIs
      <4>. QED  BY <4>1, <2>4, <2>8, MarkIs
    <3>3. CASE x # s.prev
      <4>1. t[x] = s.table[x]
        BY <3>1, <3>3, <2>4
      <4>2. freed[t[x]] = FREE /\ s.table[t[x]] # FREE
        BY <4>1, <2>12 DEF Making
      <4>. QED  BY <4>2, <2>9, <2>12
    <3>. QED  BY <3>2, <3>3
  <2>. HIDE DEF f, m
  <2>13. /\ u.table = t /\ u.first = f /\ u.prev = c /\ u.ret = m /\ u.data = d
         /\ u = [table |-> u.table, data |-> u.data, first |-> u.first, prev |-> u.prev, ret |-> u.ret]
    BY <2>2
  <2>. QED  BY <2>13, <2>4, <2>5, <2>6, <2>7, <2>8, <2>10, <2>11, <2>12 DEF Making
<1>. HIDE DEF a
<1>. QED  BY <1>0, <1>1, <1>2, <1>3

LEMMA NewChainMakes ==
  ASSUME NEW freed \in FatTables, NoLoop(freed), NEW data, NEW val, Len(val) \in Nat, NEW cut,
         NEW u, u = NewChain(freed, data, val, cut)
  PROVE  Making(freed, u)
<1>. DEFINE start == [table |-> freed, data |-> data, first |-> 0, prev |-> 0, ret |-> 0]
            Body(f, i) == IF i = 0 THEN start ELSE PutCluster(f[i - 1], val[i], cut)
            N == Len(val)
            Ok(g, m) == g = [i \in 0..m |-> Body(g, i)]
            T == { m \in Nat : \E g : Ok(g, m) }
<1>1. 0 \in T
  <2>. DEFINE g == [i \in 0..0 |-> start]
  <2>1. Ok(g, 0)
    OBVIOUS
  <2>. HIDE DEF g, Ok
  <2>. QED  BY <2>1
<1>2. ASSUME NEW m \in Nat, m \in T PROVE m + 1 \in T
  <2>1. PICK g : Ok(g, m)
    BY <1>2
  <2>. DEFINE h == [i \in 0..(m + 1) |-> IF i = m + 1 THEN Body(g, m + 1) ELSE g[i]]
  <2>2. ASSUME NEW i \in 0..(m + 1) PROVE h[i] = Body(h, i)
    <3>1. CASE i = m + 1
      <4>1. h[m] = g[m]
        OBVIOUS
      <4>. QED  BY <3>1, <4>1
    <3>2. CASE i # m + 1
      <4>1. i \in 0..m /\ h[i] = g[i] /\ g[i] = Body(g, i)
        <5>1. i \in 0..m
          BY <3>2
        <5>2. h[i] = g[i]
          BY <3>2
        <5>3. g[i] = Body(g, i)
          <6>. HIDE DEF Body
          <6>. QED  BY <5>1, <2>1
        <5>. QED  BY <5>1, <5>2, <5>3
      <4>2. i # 0 => h[i - 1] = g[i - 1]
        BY <4>1
      <4>. QED  BY <4>1, <4>2
    <3>. QED  BY <3>1, <3>2
  <2>3. h = [i \in 0..(m + 1) |-> Body(h, i)]
    BY <2>2
  <2>. HIDE DEF h, Body
  <2>4. Ok(h, m + 1)
    BY <2>3
  <2>. QED  BY <2>4
<1>3. N \in T
  <2>1. \A m \in Nat : m \in T
    <3>. HIDE DEF T
    <3>. QED  BY <1>1, <1>2, Induction
  <2>. HIDE DEF T
  <2>. QED  BY <2>1
<1>4. PICK g : Ok(g, N) /\ u = g[N]
  <2>. DEFINE F == CHOOSE g : Ok(g, N)
  <2>1. Ok(F, N)
    BY <1>3
  <2>2. u = F[N]
    BY DEF NewChain
  <2>. HIDE DEF F, Ok
  <2>. QED  BY <2>1, <2>2
<1>5. g[0] = start
  BY <1>4
<1>6. ASSUME NEW i \in 1..N PROVE g[i] = PutCluster(g[i - 1], val[i], cut)
  <2>1. g[i] = Body(g, i)
    <3>. HIDE DEF Body
    <3>. QED  BY <1>4
  <2>2. i # 0
    OBVIOUS
  <2>. QED  BY <2>1, <2>2
<1>. HIDE DEF Ok, Body
<1>7. Making(freed, start)
  BY MarkIs DEF Making
<1>. DEFINE U == { i \in Nat : i <= N => Making(freed, g[i]) }
<1>8. 0 \in U
  BY <1>5, <1>7
<1>9. ASSUME NEW i \in Nat, i \in U PROVE i + 1 \in U
  <2>. SUFFICES ASSUME i + 1 <= N PROVE Making(freed, g[i + 1])
    OBVIOUS
  <2>1. i + 1 \in 1..N /\ (i + 1) - 1 = i /\ Making(freed, g[i])
    BY <1>9
  <2>2. g[i + 1] = PutCluster(g[i], val[i + 1], cut)
    BY <2>1, <1>6
  <2>. QED  BY <2>1, <2>2, PutClusterMakes
<1>10. \A i \in Nat : i \in U
  <2>. HIDE DEF U
  <2>. QED  BY <1>8, <1>9, Induction
<1>. QED  BY <1>4, <1>10

LEMMA FatFindIs ==
  ASSUME NEW v, FatSound(v), NEW name, NEW s, s = FatFind(v, name)
  PROVE  /\ s \in FatSlots \cup {0}
         /\ s # 0 => v.dir[s].st = "file" /\ v.dir[s].name = to_83(name)
         /\ s = 0 => \A t \in FatSlots : v.dir[t].st = "file" => v.dir[t].name # to_83(name)
<1>. DEFINE Hit == { t \in FatSlots : /\ v.dir[t].st = "file" /\ v.dir[t].name = to_83(name)
                                      /\ \A x \in 1..(t - 1) : v.dir[x].st # "end" }
<1>1. s = IF Hit = {} THEN 0 ELSE Min(Hit)
  BY DEF FatFind
<1>2. FatSlots \subseteq Nat \ {0} /\ Hit \in SUBSET Nat
  BY MarkIs DEF FatSlots
<1>3. CASE Hit # {}
  <2>1. Min(Hit) \in Hit
    <3>. HIDE DEF Hit
    <3>. QED  BY <1>2, <1>3, MinIs
  <2>. QED  BY <2>1, <1>1, <1>2, <1>3
<1>4. CASE Hit = {}
  <2>1. ASSUME NEW t \in FatSlots, v.dir[t].st = "file", v.dir[t].name = to_83(name) PROVE FALSE
    <3>1. \A x \in 1..(t - 1) : x \in FatSlots /\ x < t
      BY MarkIs DEF FatSlots
    <3>2. t \in Hit
      BY <2>1, <3>1 DEF FatSound, Listed
    <3>. QED  BY <3>2, <1>4
  <2>. QED  BY <2>1, <1>1, <1>4
<1>. QED  BY <1>3, <1>4

LEMMA FatReadIs ==
  ASSUME NEW v, FatSound(v), NEW node, node.inode \in Marks, node.size \in Nat,
         NEW x, x = fat32_read(v, node)
  PROVE  Len(x) \in Nat
<1>. DEFINE c == Chain(v.table, node.inode)
            n == Min({Len(c), node.size})
<1>1. Len(c) \in Nat
  BY ChainIs DEF FatSound
<1>. HIDE DEF c
<1>2. n \in Nat
  <2>1. {Len(c), node.size} \in SUBSET Nat /\ {Len(c), node.size} # {}
    BY <1>1
  <2>2. n \in {Len(c), node.size}
    BY <2>1, MinIs
  <2>. QED  BY <1>1, <2>2
<1>3. x = [i \in 1..n |-> v.data[c[i]]]
  BY DEF fat32_read, c
<1>. HIDE DEF n
<1>. QED  BY <1>2, <1>3

LEMMA FatWriteSound ==
  ASSUME NEW v, FatSound(v), NEW name, NEW node, NEW s, s = FatFind(v, name), s # 0,
         node.inode = v.dir[s].clus, NEW val, Len(val) \in Nat, NEW cut,
         NEW u, u = fat32_write(v, name, node, val, cut)
  PROVE  FatSound(u.vol) /\ (Owned(v) /\ u.ret # -4 => Owned(u.vol))
<1>. DEFINE head  == v.dir[s].clus
            R     == IF head \in Clusters THEN Range(Chain(v.table, head)) ELSE {}
            freed == IF head \in Clusters THEN fat_free_chain(v.table, head) ELSE v.table
            done  == NewChain(freed, v.data, val, cut)
            dir   == IF done.ret < 0 \/ s = 0 THEN v.dir
                     ELSE [v.dir EXCEPT ![s].clus = done.first, ![s].size = Len(val)]
<1>1. /\ s \in FatSlots /\ v.dir[s].st = "file" /\ IsSlot(v.dir[s]) /\ head \in Clusters \cup {0}
      /\ v.table \in FatTables /\ NoLoop(v.table)
  BY FatFindIs DEF FatSound, IsSlot
<1>2. /\ freed \in FatTables /\ NoLoop(freed)
      /\ \A c \in Clusters : freed[c] = IF c \in R THEN FREE ELSE v.table[c]
  <2>1. CASE head \in Clusters
    <3>1. head \in Marks
      BY <2>1 DEF Marks
    <3>. QED  BY <1>1, <2>1, <3>1, FreeChainIs
  <2>2. CASE head \notin Clusters
    BY <1>1, <2>2
  <2>. QED  BY <2>1, <2>2
<1>3. u = [vol |-> [table |-> done.table, data |-> done.data, dir |-> dir], ret |-> done.ret]
  BY DEF fat32_write
<1>. HIDE DEF freed
<1>4. Making(freed, done)
  BY <1>2, NewChainMakes
<1>. HIDE DEF done
<1>5. /\ dir = [t \in FatSlots |-> dir[t]]
      /\ \A t \in FatSlots : t # s => dir[t] = v.dir[t]
      /\ dir[s] = IF done.ret < 0 THEN v.dir[s] ELSE [v.dir[s] EXCEPT !.clus = done.first, !.size = Len(val)]
  <2>1. v.dir = [t \in FatSlots |-> v.dir[t]]
    BY DEF FatSound
  <2>2. CASE done.ret < 0
    BY <2>1, <2>2
  <2>3. CASE ~(done.ret < 0)
    <3>1. dir = [v.dir EXCEPT ![s] = [v.dir[s] EXCEPT !.clus = done.first, !.size = Len(val)]]
      BY <2>1, <2>3, <1>1
    <3>. HIDE DEF dir
    <3>. QED  BY <3>1, <2>1, <2>3, <1>1
  <2>. QED  BY <2>2, <2>3
<1>6. /\ IsSlot(dir[s]) /\ dir[s].st = "file" /\ dir[s].name = v.dir[s].name
      /\ done.ret < 0 => dir[s].clus = head
      /\ done.ret >= 0 => dir[s].clus = done.first
  <2>1. CASE done.ret < 0
    <3>1. dir[s] = v.dir[s] /\ ~(done.ret >= 0)
      BY <1>4, <1>5, <2>1 DEF Making
    <3>. QED  BY <3>1, <1>1, <2>1
  <2>2. CASE ~(done.ret < 0)
    <3>1. dir[s] = [st |-> v.dir[s].st, name |-> v.dir[s].name, clus |-> done.first, size |-> Len(val)]
      <4>1. v.dir[s] = [st |-> v.dir[s].st, name |-> v.dir[s].name, clus |-> v.dir[s].clus, size |-> v.dir[s].size]
        BY <1>1 DEF IsSlot
      <4>2. dir[s] = [v.dir[s] EXCEPT !.clus = done.first, !.size = Len(val)]
        BY <1>5, <2>2
      <4>. HIDE DEF dir
      <4>. QED  BY <4>1, <4>2
    <3>2. done.first \in Clusters \cup {0}
      BY <1>4 DEF Making
    <3>. HIDE DEF dir
    <3>3. dir[s].st = "file" /\ dir[s].name = v.dir[s].name /\ dir[s].clus = done.first /\ dir[s].size = Len(val)
      BY <3>1, <1>1
    <3>4. IsSlot(dir[s])
      BY <3>1, <3>2, <3>3 DEF IsSlot
    <3>. QED  BY <3>3, <3>4, <2>2
  <2>. QED  BY <2>1, <2>2
<1>. HIDE DEF dir
<1>7. FatSound(u.vol)
  <2>1. done.table \in FatTables /\ NoLoop(done.table)
    BY <1>4 DEF Making
  <2>2. \A t \in FatSlots : IsSlot(dir[t]) /\ dir[t].st = v.dir[t].st /\ dir[t].name = v.dir[t].name
    BY <1>1, <1>5, <1>6 DEF FatSound
  <2>3. Listed(dir)
    BY <2>2 DEF FatSound, Listed
  <2>. QED  BY <1>3, <1>5, <2>1, <2>2, <2>3 DEF FatSound
<1>8. ASSUME Owned(v), u.ret # -4 PROVE Owned(u.vol)
  <2>1. PICK own \in [Clusters -> FatSlots \cup {0}] : Owners(v.table, own) /\ Heads(v.dir, own)
    BY <1>8 DEF Owned
  <2>2. /\ \A c \in R : own[c] = s
        /\ head \in Clusters => head \in R
        /\ s # 0
    <3>1. s # 0
      BY <1>1, MarkIs DEF FatSlots
    <3>2. CASE head \in Clusters
      <4>1. own[head] = s /\ head \in Marks
        BY <1>1, <2>1, <3>2 DEF Heads, Marks
      <4>2. \A c \in Range(Chain(v.table, head)) : own[c] = own[head]
        BY <1>1, <2>1, <3>1, <4>1, ChainIs
      <4>3. head \in Range(Chain(v.table, head))
        BY <1>1, <3>2, <4>1, ChainIs
      <4>. QED  BY <3>1, <3>2, <4>1, <4>2, <4>3
    <3>. QED  BY <3>1, <3>2
  <2>. HIDE DEF R
  <2>. DEFINE t    == done.table
              new  == [c \in Clusters |-> IF freed[c] = FREE THEN (IF t[c] # FREE THEN s ELSE 0)
                                          ELSE IF own[c] = s THEN 0 ELSE own[c]]
  <2>3. new \in [Clusters -> FatSlots \cup {0}]
    BY <1>1
  <2>4. ASSUME NEW c \in Clusters, freed[c] # FREE, own[c] # s, own[c] # 0
        PROVE  freed[c] \in Clusters => own[freed[c]] = own[c] /\ freed[freed[c]] # FREE
    <3>. SUFFICES ASSUME freed[c] \in Clusters PROVE own[freed[c]] = own[c] /\ freed[freed[c]] # FREE
      OBVIOUS
    <3>1. freed[c] = v.table[c]
      BY <1>2, <2>4
    <3>2. own[freed[c]] = own[c]
      BY <3>1, <2>1, <2>4 DEF Owners
    <3>3. freed[c] \notin R /\ v.table[freed[c]] # FREE
      BY <3>2, <2>2, <2>4, <2>1 DEF Owners
    <3>. QED  BY <3>2, <3>3, <1>2
  <2>5. ASSUME NEW c \in Clusters, new[c] # 0 PROVE t[c] # FREE /\ (t[c] \in Clusters => new[t[c]] = new[c])
    <3>1. CASE freed[c] = FREE
      <4>1. t[c] # FREE /\ new[c] = s
        BY <2>5, <3>1
      <4>2. t[c] \in Clusters => freed[t[c]] = FREE /\ t[t[c]] # FREE
        BY <1>4, <3>1 DEF Making
      <4>. QED  BY <4>1, <4>2
    <3>2. CASE freed[c] # FREE
      <4>1. own[c] # s /\ own[c] # 0 /\ new[c] = own[c]
        BY <2>5, <3>2
      <4>2. t[c] = freed[c]
        BY <1>4, <3>2 DEF Making
      <4>3. freed[c] \in Clusters => own[freed[c]] = own[c] /\ freed[freed[c]] # FREE
        BY <3>2, <4>1, <2>4
      <4>. HIDE DEF t
      <4>. QED  BY <3>2, <4>1, <4>2, <4>3
    <3>. QED  BY <3>1, <3>2
  <2>6. ASSUME NEW x \in FatSlots, dir[x].st = "file", dir[x].clus \in Clusters PROVE new[dir[x].clus] = x
    <3>1. CASE x # s
      <4>1. own[dir[x].clus] = x
        BY <1>5, <2>1, <2>6, <3>1 DEF Heads
      <4>2. x # 0 /\ dir[x].clus \notin R
        BY <4>1, <2>2, <3>1, MarkIs DEF FatSlots
      <4>3. freed[dir[x].clus] # FREE
        BY <4>1, <4>2, <1>2, <2>1, <2>6 DEF Owners
      <4>. QED  BY <3>1, <4>1, <4>3, <2>6
    <3>2. CASE x = s
      <4>1. freed[dir[s].clus] = FREE /\ t[dir[s].clus] # FREE
        <5>1. CASE done.ret < 0
          <6>1. done.ret = -3
            <7>1. done.ret = -3 \/ done.ret = -4 \/ done.ret >= 0
              BY <1>4 DEF Making
            <7>2. done.ret \in Int /\ u.ret = done.ret
              BY <1>3, <1>4 DEF Making
            <7>. QED  BY <5>1, <7>1, <7>2, <1>8
          <6>2. dir[s].clus = head /\ head \in Clusters
            BY <1>6, <2>6, <3>2, <5>1
          <6>3. t[head] # FREE
            BY <1>4, <6>1, <6>2 DEF Making
          <6>4. freed[head] = FREE
            BY <6>2, <2>2, <1>2
          <6>. QED  BY <6>2, <6>3, <6>4
        <5>2. CASE ~(done.ret < 0)
          <6>1. done.ret >= 0
            BY <1>4, <5>2 DEF Making
          <6>2. dir[s].clus = done.first /\ done.first # 0
            BY <1>6, <2>6, <3>2, <6>1, MarkIs
          <6>. QED  BY <6>2, <1>4 DEF Making
        <5>. QED  BY <5>1, <5>2
      <4>. QED  BY <3>2, <4>1, <2>6
    <3>. QED  BY <3>1, <3>2
  <2>. HIDE DEF new
  <2>7. Owners(t, new) /\ Heads(dir, new)
    BY <2>5, <2>6 DEF Owners, Heads
  <2>8. u.vol.table = t /\ u.vol.dir = dir
    BY <1>3
  <2>. QED  BY <2>3, <2>7, <2>8 DEF Owned
<1>. QED  BY <1>7, <1>8

LEMMA EmptyChain ==
  ASSUME NEW tbl \in FatTables, NEW first \in Marks, first \notin Clusters
  PROVE  Range(Chain(tbl, first)) = {}
<1>. DEFINE w    == Walk(tbl, first)
            Stop == {NCLUS} \cup { i \in 0..NCLUS : w[i] \notin Clusters }
<1>1. w[0] = first
  BY WalkIs
<1>2. 0 \in Stop /\ Stop \in SUBSET Nat
  BY <1>1, MarkIs
<1>3. Min(Stop) = 0
  <2>. HIDE DEF Stop
  <2>1. Min(Stop) \in Stop /\ Min(Stop) <= 0
    BY <1>2, MinIs
  <2>2. Min(Stop) \in Nat
    BY ONLY <2>1, <1>2
  <2>. QED  BY ONLY <2>1, <2>2
<1>4. Chain(tbl, first) = [i \in 1..0 |-> w[i - 1]]
  BY <1>3 DEF Chain
<1>. HIDE DEF w
<1>. QED  BY <1>4 DEF Range

LEMMA FatCreateSound ==
  ASSUME NEW v, FatSound(v), NEW name, FatFind(v, name) = 0, NEW u, u = fat32_create(v, name)
  PROVE  /\ FatSound(u.vol) /\ (Owned(v) => Owned(u.vol))
         /\ ~(u.ret < 0) => FatFind(u.vol, name) # 0
<1>. DEFINE F == { s \in FatSlots : v.dir[s].st \in {"end", "deleted"} }
            limit == IF F = {} THEN FSLOTS + 1 ELSE Min(F)
            exists == \E s \in 1..(limit - 1) : v.dir[s].st = "file" /\ v.dir[s].name = to_83(name)
<1>1. u = CASE exists            -> [vol |-> v, ret |-> -2]
            [] ~exists /\ F = {} -> [vol |-> v, ret |-> -4]
            [] OTHER             -> [vol |-> [v EXCEPT !.dir[limit] = FileSlot(to_83(name), 0, 0)], ret |-> 0]
  BY DEF fat32_create
<1>. HIDE DEF exists
<1>2. CASE exists
  <2>1. u = [vol |-> v, ret |-> -2]
    BY <1>1, <1>2
  <2>. QED  BY <2>1
<1>3. CASE ~exists /\ F = {}
  <2>1. u = [vol |-> v, ret |-> -4]
    BY <1>1, <1>3
  <2>. QED  BY <2>1
<1>4. CASE ~exists /\ F # {}
  <2>0. u = [vol |-> [v EXCEPT !.dir[limit] = FileSlot(to_83(name), 0, 0)], ret |-> 0]
    BY <1>1, <1>4
  <2>1. limit \in F /\ \A y \in F : limit <= y
    <3>1. F \in SUBSET Nat
      BY MarkIs DEF FatSlots
    <3>. HIDE DEF F
    <3>. QED  BY <3>1, <1>4, MinIs
  <2>2. limit \in FatSlots /\ FatSlots \subseteq Nat \ {0} /\ FSLOTS \in Nat
    BY <2>1, MarkIs DEF FatSlots
  <2>3. ASSUME NEW s \in FatSlots, s < limit PROVE v.dir[s].st \notin {"end", "deleted"}
    <3>1. s \notin F
      <4>1. s \in F => limit <= s
        BY <2>1
      <4>2. s \in Nat /\ limit \in Nat
        BY <2>2
      <4>. HIDE DEF limit, F
      <4>. QED  BY <4>1, <4>2, <2>3
    <3>. QED  BY <3>1
  <2>4. v.dir[limit].st # "file"
    BY <2>1
  <2>. HIDE DEF F, limit
  <2>. DEFINE new == [st |-> "file", name |-> to_83(name), clus |-> 0, size |-> 0]
              dir == [v.dir EXCEPT ![limit] = new]
  <2>5. u.vol = [table |-> v.table, data |-> v.data, dir |-> dir] /\ u.ret = 0
    <3>1. v = [table |-> v.table, data |-> v.data, dir |-> v.dir]
      BY DEF FatSound
    <3>2. u.vol = [v EXCEPT !.dir[limit] = new] /\ u.ret = 0
      BY <2>0 DEF FileSlot
    <3>3. [v EXCEPT !.dir[limit] = new] = [v EXCEPT !.dir = dir]
      BY <3>1
    <3>. HIDE DEF dir
    <3>. QED  BY <3>1, <3>2, <3>3
  <2>6. /\ dir = [s \in FatSlots |-> dir[s]]
        /\ dir[limit] = new
        /\ \A s \in FatSlots : s # limit => dir[s] = v.dir[s]
    <3>1. v.dir = [s \in FatSlots |-> v.dir[s]]
      BY DEF FatSound
    <3>. HIDE DEF new
    <3>. QED  BY <3>1, <2>2
  <2>7. new.st = "file" /\ new.clus = 0 /\ new.name = to_83(name) /\ IsSlot(new)
    BY DEF IsSlot
  <2>. HIDE DEF dir, new
  <2>8. \A s \in FatSlots : IsSlot(dir[s])
    BY <2>6, <2>7 DEF FatSound
  <2>9. Listed(dir)
    <3>. SUFFICES ASSUME NEW s \in FatSlots, NEW t \in FatSlots, s < t, dir[t].st = "file"
                  PROVE  dir[s].st # "end" /\ (dir[s].st = "file" => dir[s].name # dir[t].name)
      BY DEF Listed
    <3>1. \A x \in FatSlots : v.dir[x].st = "file" => v.dir[x].name # to_83(name)
      BY FatFindIs
    <3>2. CASE t = limit
      <4>1. s # limit /\ dir[s] = v.dir[s] /\ v.dir[s].st # "end" /\ dir[t].name = to_83(name)
        BY <3>2, <2>2, <2>3, <2>6, <2>7
      <4>. QED  BY <4>1, <3>1
    <3>3. CASE s = limit
      <4>1. t # limit /\ dir[t] = v.dir[t] /\ dir[s].name = to_83(name) /\ dir[s].st = "file"
        BY <3>3, <2>2, <2>6, <2>7
      <4>. QED  BY <4>1, <3>1
    <3>4. CASE s # limit /\ t # limit
      <4>1. dir[s] = v.dir[s] /\ dir[t] = v.dir[t]
        BY <3>4, <2>6
      <4>. QED  BY <4>1 DEF FatSound, Listed
    <3>. QED  BY <3>2, <3>3, <3>4
  <2>10. FatSound(u.vol)
    BY <2>5, <2>6, <2>8, <2>9 DEF FatSound
  <2>11. ASSUME Owned(v) PROVE Owned(u.vol)
    <3>1. PICK own \in [Clusters -> FatSlots \cup {0}] : Owners(v.table, own) /\ Heads(v.dir, own)
      BY <2>11 DEF Owned
    <3>2. Heads(dir, own)
      <4>1. dir[limit].clus \notin Clusters
        BY <2>6, <2>7, MarkIs
      <4>. QED  BY <3>1, <4>1, <2>6 DEF Heads
    <3>. QED  BY <3>1, <3>2, <2>5 DEF Owned
  <2>12. FatFind(u.vol, name) # 0
    <3>1. u.vol.dir[limit].st = "file" /\ u.vol.dir[limit].name = to_83(name)
      BY <2>5, <2>6, <2>7
    <3>. QED  BY <3>1, <2>2, <2>10, FatFindIs
  <2>. QED  BY <2>10, <2>11, <2>12
<1>. QED  BY <1>2, <1>3, <1>4

LEMMA FixedSlots ==
  /\ EndSlot.st = "end" /\ Deleted.st = "deleted" /\ Label.st = "label"
  /\ IsSlot(EndSlot) /\ IsSlot(Deleted) /\ IsSlot(Label)
<1>1. /\ EndSlot = [st |-> "end",     name |-> "", clus |-> 0, size |-> 0]
      /\ Deleted = [st |-> "deleted", name |-> "", clus |-> 0, size |-> 0]
      /\ Label   = [st |-> "label",   name |-> "", clus |-> 0, size |-> 0]
  <2>1. EndSlot = [st |-> "end", name |-> "", clus |-> 0, size |-> 0]
    BY DEF EndSlot
  <2>2. Deleted = [EndSlot EXCEPT !.st = "deleted"] /\ Label = [EndSlot EXCEPT !.st = "label"]
    BY DEF Deleted, Label
  <2>3. Deleted = [st |-> "deleted", name |-> "", clus |-> 0, size |-> 0]
    BY <2>1, <2>2
  <2>4. Label = [st |-> "label", name |-> "", clus |-> 0, size |-> 0]
    BY <2>1, <2>2
  <2>. QED  BY <2>1, <2>3, <2>4
<1>. QED  BY <1>1 DEF IsSlot

LEMMA FatUnlinkSound ==
  ASSUME NEW v, FatSound(v), NEW name, NEW u, u = fat32_unlink(v, name)
  PROVE  FatSound(u.vol) /\ (Owned(v) => Owned(u.vol))
<1>. DEFINE s == FatFind(v, name)
<1>1. CASE s = 0
  BY <1>1 DEF fat32_unlink
<1>2. CASE s # 0
  <2>. DEFINE head  == v.dir[s].clus
              R     == Range(Chain(v.table, head))
              freed == fat_free_chain(v.table, head)
              dir   == [v.dir EXCEPT ![s] = Deleted]
  <2>1. /\ s \in FatSlots /\ v.dir[s].st = "file" /\ IsSlot(v.dir[s]) /\ head \in Marks
        /\ v.table \in FatTables /\ NoLoop(v.table)
    <3>1. s \in FatSlots /\ v.dir[s].st = "file"
      BY <1>2, FatFindIs
    <3>2. head \in Clusters \cup {0}
      BY <3>1 DEF FatSound, IsSlot
    <3>. QED  BY <3>1, <3>2 DEF FatSound, Marks, FREE
  <2>. HIDE DEF s
  <2>2. u.vol = [table |-> freed, data |-> v.data, dir |-> dir]
    <3>1. v = [table |-> v.table, data |-> v.data, dir |-> v.dir]
      BY DEF FatSound
    <3>2. u.vol = [v EXCEPT !.table = fat_free_chain(@, v.dir[s].clus), !.dir[s] = Deleted]
      BY <1>2 DEF fat32_unlink, s
    <3>3. u.vol = [v EXCEPT !.table = freed, !.dir = dir]
      BY <3>1, <3>2
    <3>. HIDE DEF freed, dir
    <3>. QED  BY <3>1, <3>3
  <2>3. /\ dir = [t \in FatSlots |-> dir[t]]
        /\ dir[s] = Deleted
        /\ \A t \in FatSlots : t # s => dir[t] = v.dir[t]
    <3>1. v.dir = [t \in FatSlots |-> v.dir[t]]
      BY DEF FatSound
    <3>. HIDE DEF s
    <3>. QED  BY <3>1, <2>1
  <2>4. Deleted.st = "deleted" /\ IsSlot(Deleted)
    BY FixedSlots
  <2>. HIDE DEF dir
  <2>5. freed \in FatTables /\ NoLoop(freed) /\ \A c \in Clusters : freed[c] = IF c \in R THEN FREE ELSE v.table[c]
    BY <2>1, FreeChainIs
  <2>. HIDE DEF freed
  <2>6. Listed(dir)
    <3>1. \A t \in FatSlots : (dir[t].st # "file" /\ dir[t].st # "end") \/ dir[t] = v.dir[t]
      BY <2>3, <2>4
    <3>. QED  BY <3>1 DEF FatSound, Listed
  <2>7. FatSound(u.vol)
    BY <2>2, <2>3, <2>4, <2>5, <2>6 DEF FatSound
  <2>8. ASSUME Owned(v) PROVE Owned(u.vol)
    <3>1. PICK own \in [Clusters -> FatSlots \cup {0}] : Owners(v.table, own) /\ Heads(v.dir, own)
      BY <2>8 DEF Owned
    <3>2. s # 0
      BY <2>1, MarkIs DEF FatSlots
    <3>3. \A c \in R : own[c] = s
      <4>1. head \in Clusters => own[head] = s
        BY <2>1, <3>1 DEF Heads
      <4>2. CASE head \in Clusters
        <5>1. \A c \in R : own[c] = own[head]
          BY <2>1, <3>1, <3>2, <4>1, <4>2, ChainIs
        <5>. QED  BY <5>1, <4>1, <4>2
      <4>3. CASE head \notin Clusters
        BY <2>1, <4>3, EmptyChain
      <4>. QED  BY <4>2, <4>3
    <3>. DEFINE new == [c \in Clusters |-> IF own[c] = s THEN 0 ELSE own[c]]
    <3>4. new \in [Clusters -> FatSlots \cup {0}]
      OBVIOUS
    <3>5. ASSUME NEW c \in Clusters, new[c] # 0
          PROVE  freed[c] # FREE /\ (freed[c] \in Clusters => new[freed[c]] = new[c])
      <4>1. own[c] # s /\ own[c] # 0 /\ new[c] = own[c]
        BY <3>5
      <4>2. freed[c] = v.table[c] /\ freed[c] # FREE
        BY <4>1, <3>1, <3>3, <2>5 DEF Owners
      <4>3. freed[c] \in Clusters => own[freed[c]] = own[c]
        BY <4>1, <4>2, <3>1 DEF Owners
      <4>. QED  BY <4>1, <4>2, <4>3
    <3>6. ASSUME NEW x \in FatSlots, dir[x].st = "file", dir[x].clus \in Clusters PROVE new[dir[x].clus] = x
      <4>1. x # s /\ dir[x] = v.dir[x]
        BY <3>6, <2>3, <2>4
      <4>2. own[dir[x].clus] = x
        BY <4>1, <3>1, <3>6 DEF Heads
      <4>. QED  BY <4>1, <4>2, <3>6
    <3>. HIDE DEF new
    <3>. QED  BY <3>4, <3>5, <3>6, <2>2 DEF Owned, Owners, Heads
  <2>. QED  BY <2>7, <2>8
<1>. QED  BY <1>1, <1>2

LEMMA EmptyFatSound ==
  ASSUME NEW junk
  PROVE  FatSound(EmptyFat(junk)) /\ Owned(EmptyFat(junk))
<1>. DEFINE v == EmptyFat(junk)
            o == [c \in Clusters |-> 0]
<1>1. /\ v = [table |-> [c \in Clusters |-> FREE], data |-> [c \in Clusters |-> junk],
              dir |-> [s \in FatSlots |-> IF s = 1 THEN Label ELSE EndSlot]]
  BY DEF EmptyFat
<1>2. /\ v = [table |-> v.table, data |-> v.data, dir |-> v.dir]
      /\ v.table = [c \in Clusters |-> FREE]
      /\ v.dir = [s \in FatSlots |-> IF s = 1 THEN Label ELSE EndSlot]
  BY <1>1
<1>. HIDE DEF v
<1>3. v.table \in FatTables /\ \A c \in Clusters : v.table[c] = FREE
  BY <1>2 DEF FatTables, Marks
<1>4. o \in [Clusters -> Nat] /\ o \in [Clusters -> FatSlots \cup {0}] /\ \A c \in Clusters : o[c] = 0
  OBVIOUS
<1>. HIDE DEF o
<1>5. NoLoop(v.table) /\ Owners(v.table, o)
  BY <1>3, <1>4, MarkIs DEF NoLoop, Owners
<1>6. \A s \in FatSlots : v.dir[s].st \in {"label", "end"} /\ IsSlot(v.dir[s])
  <2>1. /\ Label.st = "label" /\ EndSlot.st = "end" /\ IsSlot(Label) /\ IsSlot(EndSlot)
    BY FixedSlots
  <2>. QED  BY <2>1, <1>2
<1>7. v.dir = [s \in FatSlots |-> v.dir[s]]
  BY <1>2
<1>8. Listed(v.dir) /\ Heads(v.dir, o)
  BY <1>6 DEF Listed, Heads
<1>. QED  BY <1>2, <1>3, <1>4, <1>5, <1>6, <1>7, <1>8 DEF FatSound, Owned, v

\* What a sound volume promises its files.
LEMMA OwnedApart ==
  ASSUME NEW v, FatSound(v), Owned(v), NEW s \in FatSlots, v.dir[s].st = "file",
         NEW c \in Range(Chain(v.table, v.dir[s].clus))
  PROVE  v.table[c] # FREE
         /\ \A t \in FatSlots : v.dir[t].st = "file" /\ t # s => c \notin Range(Chain(v.table, v.dir[t].clus))
<1>1. PICK own \in [Clusters -> FatSlots \cup {0}] : Owners(v.table, own) /\ Heads(v.dir, own)
  BY DEF Owned
<1>2. ASSUME NEW t \in FatSlots, v.dir[t].st = "file", NEW d \in Range(Chain(v.table, v.dir[t].clus))
      PROVE  d \in Clusters /\ own[d] = t /\ own[d] # 0
  <2>1. v.table \in FatTables /\ v.dir[t].clus \in Clusters \cup {0} /\ v.dir[t].clus \in Marks
    BY <1>2 DEF FatSound, IsSlot, Marks, FREE
  <2>2. v.dir[t].clus \in Clusters
    BY <2>1, <1>2, EmptyChain
  <2>3. own[v.dir[t].clus] = t /\ t # 0
    BY <1>1, <1>2, <2>2, MarkIs DEF Heads, FatSlots
  <2>. QED  BY <1>1, <1>2, <2>1, <2>3, ChainIs
<1>. QED  BY <1>1, <1>2 DEF Owners

-----------------------------------------------------------------------------
(* The ext2 volume *)

BlockPtr == Blocks \cup {0}
InodeSet == [dir : BOOLEAN, size : Nat, ptr : [1..(NDIRECT + 1) -> BlockPtr]]
IsRec(r) == r = [inode |-> r.inode, name |-> r.name, len |-> r.len] /\ r.inode \in Inodes \cup {0}
IsRecs(rec) == \E R : rec \in Seq(R) /\ \A r \in R : IsRec(r)
IsBlock(k) ==
  /\ k.kind \in {"zeros", "data", "ind", "dir"}
  /\ k.kind = "ind" => k.ptr \in [1..PTRS -> BlockPtr]
  /\ k.kind = "dir" => k = Records(k.rec) /\ IsRecs(k.rec)

\* An ext2 volume keeps its shape whatever is done to it.
ExtTyped(v) ==
  /\ v = [bmap |-> v.bmap, imap |-> v.imap, inode |-> v.inode, blk |-> v.blk]
  /\ v.bmap \subseteq Blocks /\ v.imap \subseteq Inodes
  /\ v.inode \in [Inodes -> InodeSet]
  /\ v.blk = [b \in Blocks |-> v.blk[b]] /\ \A b \in Blocks : IsBlock(v.blk[b])

LEMMA ExtIs ==
  /\ NDIRECT \in Nat /\ NDIRECT > 0 /\ PTRS \in Nat /\ PTRS > 0 /\ UNITS \in Nat
  /\ 0 \notin Blocks /\ Blocks \subseteq Nat /\ 1 \in Blocks /\ 2 \in Blocks
  /\ 0 \notin Inodes /\ Inodes \subseteq Nat /\ 1 \in Inodes /\ 2 \in Inodes /\ ROOT_INO = 1
BY ExtAssumption DEF Blocks, Inodes, ROOT_INO

LEMMA BlkPut ==
  ASSUME NEW v, ExtTyped(v), NEW b, NEW k, b \in Blocks => IsBlock(k),
         NEW u, u = [v EXCEPT !.blk[b] = k]
  PROVE  ExtTyped(u) /\ u.inode = v.inode /\ u.bmap = v.bmap /\ u.imap = v.imap
<1>. DEFINE d == [v.blk EXCEPT ![b] = k]
<1>1. v = [bmap |-> v.bmap, imap |-> v.imap, inode |-> v.inode, blk |-> v.blk]
  BY DEF ExtTyped
<1>2. u = [v EXCEPT !.blk = d]
  BY <1>1
<1>3. d = [c \in Blocks |-> d[c]] /\ \A c \in Blocks : IsBlock(d[c])
  <2>1. v.blk = [c \in Blocks |-> v.blk[c]]
    BY DEF ExtTyped
  <2>2. \A c \in Blocks : d[c] = IF c = b THEN k ELSE v.blk[c]
    BY <2>1
  <2>3. d = [c \in Blocks |-> d[c]]
    BY <2>1
  <2>. HIDE DEF d
  <2>. QED  BY <2>2, <2>3 DEF ExtTyped
<1>. HIDE DEF d
<1>4. u = [bmap |-> v.bmap, imap |-> v.imap, inode |-> v.inode, blk |-> d]
  BY <1>1, <1>2
<1>5. u.bmap = v.bmap /\ u.imap = v.imap /\ u.inode = v.inode /\ u.blk = d
  BY <1>4
<1>6. u = [bmap |-> u.bmap, imap |-> u.imap, inode |-> u.inode, blk |-> u.blk]
  BY <1>4
<1>. QED  BY <1>3, <1>5, <1>6 DEF ExtTyped

LEMMA InodePut ==
  ASSUME NEW v, ExtTyped(v), NEW n, NEW i, n \in Inodes => i \in InodeSet,
         NEW u, u = [v EXCEPT !.inode[n] = i]
  PROVE  ExtTyped(u)
<1>. DEFINE d == [v.inode EXCEPT ![n] = i]
<1>1. v = [bmap |-> v.bmap, imap |-> v.imap, inode |-> v.inode, blk |-> v.blk]
  BY DEF ExtTyped
<1>2. u = [v EXCEPT !.inode = d]
  BY <1>1
<1>3. d \in [Inodes -> InodeSet]
  <2>1. v.inode \in [Inodes -> InodeSet]
    BY DEF ExtTyped
  <2>. QED  BY <2>1
<1>. HIDE DEF d
<1>4. u = [bmap |-> v.bmap, imap |-> v.imap, inode |-> d, blk |-> v.blk]
  BY <1>1, <1>2
<1>5. u.bmap = v.bmap /\ u.imap = v.imap /\ u.inode = d /\ u.blk = v.blk
  BY <1>4
<1>6. u = [bmap |-> u.bmap, imap |-> u.imap, inode |-> u.inode, blk |-> u.blk]
  BY <1>4
<1>. QED  BY <1>3, <1>5, <1>6 DEF ExtTyped

LEMMA MapsPut ==
  ASSUME NEW v, ExtTyped(v), NEW bm, bm \subseteq Blocks, NEW im, im \subseteq Inodes, NEW u,
         \/ u = [v EXCEPT !.bmap = bm]
         \/ u = [v EXCEPT !.imap = im]
  PROVE  ExtTyped(u) /\ u.inode = v.inode /\ u.blk = v.blk
<1>1. v = [bmap |-> v.bmap, imap |-> v.imap, inode |-> v.inode, blk |-> v.blk]
  BY DEF ExtTyped
<1>2. CASE u = [v EXCEPT !.bmap = bm]
  <2>1. u = [bmap |-> bm, imap |-> v.imap, inode |-> v.inode, blk |-> v.blk]
    BY <1>1, <1>2
  <2>2. u.bmap = bm /\ u.imap = v.imap /\ u.inode = v.inode /\ u.blk = v.blk
        /\ u = [bmap |-> u.bmap, imap |-> u.imap, inode |-> u.inode, blk |-> u.blk]
    BY <2>1
  <2>. QED  BY <2>2 DEF ExtTyped
<1>3. CASE u = [v EXCEPT !.imap = im]
  <2>1. u = [bmap |-> v.bmap, imap |-> im, inode |-> v.inode, blk |-> v.blk]
    BY <1>1, <1>3
  <2>2. u.bmap = v.bmap /\ u.imap = im /\ u.inode = v.inode /\ u.blk = v.blk
        /\ u = [bmap |-> u.bmap, imap |-> u.imap, inode |-> u.inode, blk |-> u.blk]
    BY <2>1
  <2>. QED  BY <2>2 DEF ExtTyped
<1>. QED  BY <1>2, <1>3

LEMMA PointersTyped ==
  ASSUME NEW v, ExtTyped(v), NEW b
  PROVE  Pointers(v, b) \in [1..PTRS -> BlockPtr]
<1>1. CASE b \in Blocks /\ v.blk[b].kind = "ind"
  BY <1>1 DEF Pointers, ExtTyped, IsBlock
<1>2. CASE ~(b \in Blocks /\ v.blk[b].kind = "ind")
  <2>1. Pointers(v, b) = [i \in 1..PTRS |-> 0]
    BY <1>2 DEF Pointers
  <2>. QED  BY <2>1 DEF BlockPtr
<1>. QED  BY <1>1, <1>2

LEMMA GetBlockTyped ==
  ASSUME NEW v, ExtTyped(v), NEW ino \in InodeSet, NEW i \in 1..(NDIRECT + PTRS + 1)
  PROVE  /\ inode_get_block(v, ino, i) \in BlockPtr
         /\ i = NDIRECT + PTRS + 1 => inode_get_block(v, ino, i) = 0
<1>0. NDIRECT \in Nat /\ PTRS \in Nat /\ NDIRECT > 0 /\ PTRS > 0
  BY ExtIs
<1>. DEFINE g == inode_get_block(v, ino, i)
            p == Pointers(v, ino.ptr[NDIRECT + 1])
<1>1. g = CASE i <= NDIRECT -> ino.ptr[i]
            [] i > NDIRECT /\ i <= NDIRECT + PTRS -> p[i - NDIRECT]
            [] OTHER -> 0
  BY DEF inode_get_block
<1>2. p \in [1..PTRS -> BlockPtr]
  BY PointersTyped
<1>. HIDE DEF g, p
<1>3. CASE i <= NDIRECT
  <2>1. g = ino.ptr[i]
    BY <1>0, <1>1, <1>3
  <2>2. i \in 1..(NDIRECT + 1) /\ ino.ptr \in [1..(NDIRECT + 1) -> BlockPtr]
    BY <1>0, <1>3 DEF InodeSet
  <2>3. i # NDIRECT + PTRS + 1
    BY <1>0, <1>3
  <2>. QED  BY <2>1, <2>2, <2>3 DEF g
<1>4. CASE i > NDIRECT /\ i <= NDIRECT + PTRS
  <2>1. g = p[i - NDIRECT]
    BY <1>0, <1>1, <1>4
  <2>2. i - NDIRECT \in 1..PTRS /\ i # NDIRECT + PTRS + 1
    BY <1>0, <1>4
  <2>. QED  BY <2>1, <2>2, <1>2 DEF g
<1>5. CASE i > NDIRECT + PTRS
  <2>1. ~(i <= NDIRECT) /\ ~(i > NDIRECT /\ i <= NDIRECT + PTRS)
    BY <1>0, <1>5
  <2>2. g = 0
    BY <1>1, <2>1
  <2>. QED  BY <2>2 DEF g, BlockPtr
<1>. QED  BY <1>0, <1>3, <1>4, <1>5

LEMMA BlockListTyped ==
  ASSUME NEW v, ExtTyped(v), NEW n \in Inodes
  PROVE  BlockList(v, n) \in Seq(Blocks)
<1>. DEFINE b(i) == inode_get_block(v, v.inode[n], i)
            L    == NDIRECT + PTRS + 1
            gaps == { i \in 1..L : b(i) = 0 }
            m    == Min(gaps)
<1>0. L \in Nat /\ L > 0 /\ v.inode[n] \in InodeSet
  BY ExtIs DEF ExtTyped
<1>1. \A i \in 1..L : b(i) \in BlockPtr
  BY <1>0, GetBlockTyped
<1>2. b(L) = 0
  <2>1. L \in 1..L
    BY <1>0
  <2>. QED  BY <1>0, <2>1, GetBlockTyped
<1>3. BlockList(v, n) = [i \in 1..(m - 1) |-> b(i)]
  BY DEF BlockList
<1>. HIDE DEF b
<1>4. gaps \in SUBSET Nat /\ gaps # {}
  <2>1. L \in gaps
    BY <1>0, <1>2
  <2>. QED  BY <1>0, <2>1
<1>5. m \in gaps /\ \A y \in gaps : m <= y
  <2>. HIDE DEF gaps
  <2>. QED  BY <1>4, MinIs
<1>6. m \in 1..L
  BY <1>5
<1>. HIDE DEF m, L
<1>7. ASSUME NEW i \in 1..(m - 1) PROVE b(i) \in Blocks
  <2>1. i \in 1..L /\ i < m
    BY <1>0, <1>6
  <2>2. i \notin gaps
    <3>1. i \in gaps => m <= i
      BY <1>5
    <3>. HIDE DEF gaps
    <3>. QED  BY <1>0, <1>6, <2>1, <3>1
  <2>3. b(i) # 0
    BY <2>1, <2>2
  <2>. QED  BY <1>1, <2>1, <2>3 DEF BlockPtr
<1>8. [i \in 1..(m - 1) |-> b(i)] \in [1..(m - 1) -> Blocks] /\ m - 1 \in Nat
  BY <1>0, <1>6, <1>7
<1>. QED  BY <1>3, <1>8, FunctionIsSeq

LEMMA AllocTyped ==
  ASSUME NEW v, ExtTyped(v), NEW a, a = alloc_block(v)
  PROVE  a.b \in BlockPtr /\ ExtTyped(a.vol) /\ a.vol.inode = v.inode /\ a.vol.blk = v.blk
<1>. DEFINE F == Blocks \ v.bmap
<1>1. CASE F = {}
  <2>1. a = [vol |-> v, b |-> 0]
    BY <1>1 DEF alloc_block
  <2>. QED  BY <2>1 DEF BlockPtr
<1>2. CASE F # {}
  <2>1. a = [vol |-> [v EXCEPT !.bmap = @ \cup {Min(F)}], b |-> Min(F)]
    BY <1>2 DEF alloc_block
  <2>2. Min(F) \in F
    <3>1. F \in SUBSET Nat
      BY ExtIs
    <3>. HIDE DEF F
    <3>. QED  BY <1>2, <3>1, MinIs
  <2>. DEFINE bm == v.bmap \cup {Min(F)}
  <2>3. bm \subseteq Blocks /\ v.imap \subseteq Inodes
    BY <2>2 DEF ExtTyped
  <2>4. a.vol = [v EXCEPT !.bmap = bm] /\ a.b = Min(F)
    BY <2>1
  <2>5. a.b \in BlockPtr
    BY <2>2, <2>4 DEF BlockPtr
  <2>. HIDE DEF bm
  <2>6. ExtTyped(a.vol) /\ a.vol.inode = v.inode /\ a.vol.blk = v.blk
    BY <2>3, <2>4, MapsPut
  <2>. QED  BY <2>5, <2>6
<1>. QED  BY <1>1, <1>2

LEMMA FreeBlocksTyped ==
  ASSUME NEW v, ExtTyped(v), NEW n, NEW u, u = free_inode_blocks(v, n)
  PROVE  ExtTyped(u) /\ u.inode = v.inode
<1>1. u = [v EXCEPT !.bmap = v.bmap \ Refs(v, n)]
  BY DEF free_inode_blocks
<1>2. v.bmap \ Refs(v, n) \subseteq Blocks /\ v.imap \subseteq Inodes
  BY DEF ExtTyped
<1>. QED  BY <1>1, <1>2, MapsPut

LEMMA SetBlockTyped ==
  ASSUME NEW v, ExtTyped(v), NEW ino, NEW i \in Nat \ {0}, NEW b \in Blocks,
         NEW s, s = inode_set_block(v, ino, i, b)
  PROVE  ExtTyped(s.vol) /\ (ino \in InodeSet => s.ino \in InodeSet)
<1>. DEFINE x   == NDIRECT + 1
            new == alloc_block(v)
            At(w, o) == [vol |-> [w EXCEPT !.blk[o.ptr[x]] =
                                  Indirect([Pointers(w, o.ptr[x]) EXCEPT ![i - NDIRECT] = b])],
                         ino |-> o, ret |-> 0]
            fresh == [new.vol EXCEPT !.blk[new.b] = Indirect([k \in 1..PTRS |-> 0])]
            with  == [ino EXCEPT !.ptr[x] = new.b]
            Inside == i > NDIRECT /\ i <= NDIRECT + PTRS
<1>0. NDIRECT \in Nat /\ PTRS \in Nat
  BY ExtIs
<1>1. s = CASE i <= NDIRECT       -> [vol |-> v, ino |-> [ino EXCEPT !.ptr[i] = b], ret |-> 0]
            [] i > NDIRECT + PTRS -> [vol |-> v, ino |-> ino, ret |-> -1]
            [] Inside /\ ino.ptr[x] # 0 -> At(v, ino)
            [] Inside /\ ino.ptr[x] = 0 /\ new.b = 0 -> [vol |-> v, ino |-> ino, ret |-> -1]
            [] OTHER -> At(fresh, with)
  BY DEF inode_set_block
<1>2. ASSUME NEW w, ExtTyped(w), NEW o, NEW q, q = At(w, o) PROVE ExtTyped(q.vol) /\ q.ino = o
  <2>. DEFINE P == [Pointers(w, o.ptr[x]) EXCEPT ![i - NDIRECT] = b]
  <2>1. P \in [1..PTRS -> BlockPtr]
    <3>1. Pointers(w, o.ptr[x]) \in [1..PTRS -> BlockPtr]
      BY <1>2, PointersTyped
    <3>. QED  BY <3>1 DEF BlockPtr
  <2>. HIDE DEF P
  <2>2. IsBlock(Indirect(P))
    BY <2>1 DEF IsBlock, Indirect
  <2>3. q.vol = [w EXCEPT !.blk[o.ptr[x]] = Indirect(P)] /\ q.ino = o
    BY <1>2 DEF P
  <2>4. PICK u, k, c : u = q.vol /\ k = Indirect(P) /\ c = o.ptr[x]
    OBVIOUS
  <2>5. IsBlock(k) /\ u = [w EXCEPT !.blk[c] = k]
    BY <2>2, <2>3, <2>4
  <2>6. ExtTyped(u)
    BY ONLY <1>2, <2>5, BlkPut
  <2>. QED  BY <2>3, <2>4, <2>6
<1>3. /\ ExtTyped(fresh)
      /\ ino \in InodeSet => with \in InodeSet
  <2>1. new.b \in BlockPtr /\ ExtTyped(new.vol)
    BY AllocTyped
  <2>2. IsBlock(Indirect([k \in 1..PTRS |-> 0]))
    BY DEF IsBlock, Indirect, BlockPtr
  <2>3. ExtTyped(fresh)
    <3>. HIDE DEF new
    <3>. QED  BY <2>1, <2>2, BlkPut
  <2>4. ASSUME ino \in InodeSet PROVE with \in InodeSet
    <3>. HIDE DEF new
    <3>1. x \in 1..(NDIRECT + 1)
      BY <1>0
    <3>. QED  BY <2>1, <2>4, <3>1 DEF InodeSet
  <2>. QED  BY <2>3, <2>4
<1>. HIDE DEF At, fresh, with, new
<1>4. CASE i <= NDIRECT
  <2>0. ~(i > NDIRECT + PTRS) /\ ~Inside
    BY <1>0, <1>4
  <2>1. s = [vol |-> v, ino |-> [ino EXCEPT !.ptr[i] = b], ret |-> 0]
    BY <1>1, <1>4, <2>0
  <2>2. i \in 1..(NDIRECT + 1)
    BY <1>0, <1>4
  <2>3. s.vol = v /\ s.ino = [ino EXCEPT !.ptr[i] = b]
    BY <2>1
  <2>4. ino \in InodeSet => [ino EXCEPT !.ptr[i] = b] \in InodeSet
    BY <2>2 DEF InodeSet, BlockPtr
  <2>. QED  BY <2>3, <2>4
<1>5. CASE i > NDIRECT + PTRS
  <2>0. ~(i <= NDIRECT) /\ ~Inside
    BY <1>0, <1>5
  <2>1. s = [vol |-> v, ino |-> ino, ret |-> -1]
    BY <1>1, <1>5, <2>0
  <2>. QED  BY <2>1
<1>6. CASE Inside
  <2>0. ~(i <= NDIRECT) /\ ~(i > NDIRECT + PTRS)
    BY <1>0, <1>6
  <2>. HIDE DEF Inside
  <2>1. CASE ino.ptr[x] # 0
    <3>1. s = At(v, ino)
      BY <1>1, <1>6, <2>0, <2>1
    <3>. QED  BY <3>1, <1>2
  <2>2. CASE ino.ptr[x] = 0 /\ new.b = 0
    <3>1. s = [vol |-> v, ino |-> ino, ret |-> -1]
      BY <1>1, <1>6, <2>0, <2>2
    <3>. QED  BY <3>1
  <2>3. CASE ino.ptr[x] = 0 /\ new.b # 0
    <3>1. s = At(fresh, with)
      BY <1>1, <1>6, <2>0, <2>3
    <3>. QED  BY <3>1, <1>2, <1>3
  <2>. QED  BY <2>1, <2>2, <2>3
<1>7. i <= NDIRECT \/ i > NDIRECT + PTRS \/ Inside
  BY <1>0
<1>. QED  BY <1>4, <1>5, <1>6, <1>7

LEMMA RecsTyped ==
  ASSUME NEW v, ExtTyped(v), NEW b \in Blocks
  PROVE  /\ IsRecs(RecsOf(v, b)) /\ Len(RecsOf(v, b)) \in Nat
         /\ Len(RecsOf(v, b)) > 0 => v.blk[b] = Records(RecsOf(v, b)) /\ v.blk[b].rec = RecsOf(v, b)
<1>1. IsBlock(v.blk[b])
  BY DEF ExtTyped
<1>2. CASE v.blk[b].kind = "dir"
  <2>1. RecsOf(v, b) = v.blk[b].rec
    BY <1>2 DEF RecsOf
  <2>2. v.blk[b] = Records(v.blk[b].rec) /\ IsRecs(v.blk[b].rec)
    BY <1>1, <1>2 DEF IsBlock
  <2>3. Len(v.blk[b].rec) \in Nat
    BY <2>2, LenProperties DEF IsRecs
  <2>. QED  BY <2>1, <2>2, <2>3
<1>3. CASE v.blk[b].kind # "dir"
  <2>1. RecsOf(v, b) = <<>>
    BY <1>3 DEF RecsOf
  <2>2. IsRecs(<<>>)
    <3>. DEFINE R == {}
    <3>1. <<>> \in Seq(R) /\ \A r \in R : IsRec(r)
      OBVIOUS
    <3>. HIDE DEF R
    <3>. QED  BY <3>1 DEF IsRecs
  <2>. QED  BY <2>1, <2>2
<1>. QED  BY <1>2, <1>3

LEMMA ConcatAt ==
  ASSUME NEW S, NEW a \in Seq(S), NEW b \in Seq(S), NEW u, u = a \o b, NEW k \in 1..Len(u)
  PROVE  \/ k \in 1..Len(a) /\ u[k] = a[k]
         \/ k - Len(a) \in 1..Len(b) /\ u[k] = b[k - Len(a)]
<1>1. /\ Len(u) = Len(a) + Len(b) /\ Len(a) \in Nat /\ Len(b) \in Nat
      /\ \A i \in 1..(Len(a) + Len(b)) : u[i] = IF i <= Len(a) THEN a[i] ELSE b[i - Len(a)]
  BY ConcatProperties, LenProperties
<1>. QED  BY <1>1

\* A place of a record: a block and an index in its list of records.
IsPlace(v, pl) == pl[1] \in Blocks /\ pl[2] \in 1..Len(RecsOf(v, pl[1]))

LEMMA PlacesTyped ==
  ASSUME NEW v, ExtTyped(v), NEW n \in Inodes
  PROVE  /\ Len(Places(v, n)) \in Nat
         /\ \A i \in 1..Len(Places(v, n)) : IsPlace(v, Places(v, n)[i])
<1>. DEFINE bl == BlockList(v, n)
            N  == Len(bl)
            Here(i) == [k \in 1..Len(RecsOf(v, bl[i])) |-> <<bl[i], k>>]
            Body(f, i) == IF i = 0 THEN <<>> ELSE f[i - 1] \o Here(i)
            Ok(g, m) == g = [i \in 0..m |-> Body(g, i)]
            T == { m \in Nat : \E g : Ok(g, m) }
<1>0. bl \in Seq(Blocks) /\ N \in Nat /\ \A i \in 1..N : bl[i] \in Blocks
  <2>1. bl \in Seq(Blocks)
    BY BlockListTyped
  <2>. HIDE DEF bl
  <2>. QED  BY <2>1, LenProperties
<1>1. 0 \in T
  <2>. DEFINE g == [i \in 0..0 |-> <<>>]
  <2>1. Ok(g, 0)
    OBVIOUS
  <2>. HIDE DEF g, Ok
  <2>. QED  BY <2>1
<1>2. ASSUME NEW m \in Nat, m \in T PROVE m + 1 \in T
  <2>1. PICK g : Ok(g, m)
    BY <1>2
  <2>. DEFINE h == [i \in 0..(m + 1) |-> IF i = m + 1 THEN Body(g, m + 1) ELSE g[i]]
  <2>2. ASSUME NEW i \in 0..(m + 1) PROVE h[i] = Body(h, i)
    <3>1. CASE i = m + 1
      <4>1. h[m] = g[m]
        OBVIOUS
      <4>. QED  BY <3>1, <4>1
    <3>2. CASE i # m + 1
      <4>1. i \in 0..m /\ h[i] = g[i] /\ g[i] = Body(g, i)
        <5>1. i \in 0..m
          BY <3>2
        <5>2. h[i] = g[i]
          BY <3>2
        <5>3. g[i] = Body(g, i)
          <6>. HIDE DEF Body
          <6>. QED  BY <5>1, <2>1
        <5>. QED  BY <5>1, <5>2, <5>3
      <4>2. i # 0 => h[i - 1] = g[i - 1]
        BY <4>1
      <4>. QED  BY <4>1, <4>2
    <3>. QED  BY <3>1, <3>2
  <2>3. h = [i \in 0..(m + 1) |-> Body(h, i)]
    BY <2>2
  <2>. HIDE DEF h, Body
  <2>4. Ok(h, m + 1)
    BY <2>3
  <2>. QED  BY <2>4
<1>3. N \in T
  <2>1. \A m \in Nat : m \in T
    <3>. HIDE DEF T
    <3>. QED  BY <1>1, <1>2, Induction
  <2>2. N \in Nat
    BY <1>0
  <2>. HIDE DEF T
  <2>. QED  BY <2>1, <2>2
<1>4. PICK g : Ok(g, N) /\ Places(v, n) = g[N]
  <2>. DEFINE F == CHOOSE g : Ok(g, N)
  <2>1. Ok(F, N)
    BY <1>3
  <2>2. Places(v, n) = F[N]
    BY DEF Places
  <2>. HIDE DEF F, Ok
  <2>. QED  BY <2>1, <2>2
<1>5. g[0] = <<>>
  BY <1>4, <1>0
<1>6. ASSUME NEW i \in 1..N PROVE g[i] = g[i - 1] \o Here(i)
  <2>1. g[i] = Body(g, i)
    <3>. HIDE DEF Body
    <3>. QED  BY <1>4
  <2>2. i # 0
    OBVIOUS
  <2>. HIDE DEF Here
  <2>. QED  BY <2>1, <2>2
<1>7. ASSUME NEW i \in 1..N
      PROVE  Here(i) \in Seq(Blocks \X Nat) /\ \A k \in 1..Len(Here(i)) : IsPlace(v, Here(i)[k])
  <2>1. bl[i] \in Blocks /\ Len(RecsOf(v, bl[i])) \in Nat
    BY <1>0, RecsTyped
  <2>. HIDE DEF bl
  <2>2. Here(i) \in [1..Len(RecsOf(v, bl[i])) -> Blocks \X Nat]
    BY <2>1
  <2>3. Here(i) \in Seq(Blocks \X Nat) /\ Len(Here(i)) = Len(RecsOf(v, bl[i]))
    <3>. HIDE DEF Here
    <3>. QED  BY <2>1, <2>2, FunctionIsSeq
  <2>4. ASSUME NEW k \in 1..Len(RecsOf(v, bl[i])) PROVE IsPlace(v, Here(i)[k])
    <3>1. Here(i)[k] = <<bl[i], k>>
      OBVIOUS
    <3>. HIDE DEF Here
    <3>. QED  BY <3>1, <2>1 DEF IsPlace
  <2>. HIDE DEF Here
  <2>. QED  BY <2>3, <2>4
<1>. HIDE DEF Ok, Body, Here, bl
<1>. DEFINE Fine(i) == g[i] \in Seq(Blocks \X Nat) /\ \A k \in 1..Len(g[i]) : IsPlace(v, g[i][k])
            U == { i \in Nat : i <= N => Fine(i) }
<1>8. 0 \in U
  <2>1. <<>> \in Seq(Blocks \X Nat) /\ Len(<<>>) = 0
    BY EmptySeq
  <2>2. Fine(0)
    BY <1>5, <2>1
  <2>. HIDE DEF Fine
  <2>. QED  BY <2>2
<1>9. ASSUME NEW i \in Nat, i \in U PROVE i + 1 \in U
  <2>. SUFFICES ASSUME i + 1 <= N PROVE Fine(i + 1)
    OBVIOUS
  <2>1. i + 1 \in 1..N /\ (i + 1) - 1 = i /\ Fine(i)
    BY <1>9, <1>0
  <2>2. g[i + 1] = g[i] \o Here(i + 1)
    BY <2>1, <1>6
  <2>3. Here(i + 1) \in Seq(Blocks \X Nat) /\ \A k \in 1..Len(Here(i + 1)) : IsPlace(v, Here(i + 1)[k])
    BY <2>1, <1>7
  <2>4. g[i + 1] \in Seq(Blocks \X Nat)
    BY <2>1, <2>2, <2>3, ConcatProperties
  <2>5. ASSUME NEW k \in 1..Len(g[i + 1]) PROVE IsPlace(v, g[i + 1][k])
    <3>. DEFINE a == g[i]
                b == Here(i + 1)
                u == g[i + 1]
    <3>1. a \in Seq(Blocks \X Nat) /\ b \in Seq(Blocks \X Nat) /\ u = a \o b /\ k \in 1..Len(u)
      BY <2>1, <2>2, <2>3
    <3>2. \/ k \in 1..Len(a) /\ u[k] = a[k]
          \/ k - Len(a) \in 1..Len(b) /\ u[k] = b[k - Len(a)]
      <4>. HIDE DEF a, b, u
      <4>. QED  BY <3>1, ConcatAt
    <3>. QED  BY <2>1, <2>3, <3>2
  <2>. QED  BY <2>4, <2>5
<1>10. \A i \in Nat : i \in U
  <2>. HIDE DEF U
  <2>. QED  BY <1>8, <1>9, Induction
<1>11. Fine(N)
  BY <1>0, <1>10
<1>. QED  BY <1>4, <1>11, LenProperties

\* The first place that passes a test.
LEMMA FirstIsPlace ==
  ASSUME NEW v, ExtTyped(v), NEW n \in Inodes, NEW H \in SUBSET (1..Len(Places(v, n))),
         NEW hit, hit = IF H = {} THEN <<>> ELSE <<Places(v, n)[Min(H)]>>
  PROVE  hit = <<>> \/ (hit # <<>> /\ IsPlace(v, hit[1]) /\ \E h \in H : hit[1] = Places(v, n)[h])
<1>1. Len(Places(v, n)) \in Nat
  BY PlacesTyped
<1>2. CASE H # {}
  <2>1. H \in SUBSET Nat
    BY <1>1
  <2>2. Min(H) \in H
    BY <1>2, <2>1, MinIs
  <2>. DEFINE m == Min(H)
  <2>3. hit = <<Places(v, n)[m]>>
    BY <1>2
  <2>. HIDE DEF m
  <2>4. hit # <<>> /\ hit[1] = Places(v, n)[m] /\ m \in H
    BY <2>2, <2>3 DEF m
  <2>. QED  BY <2>4, PlacesTyped
<1>. QED  BY <1>2

LEMMA RecAtTyped ==
  ASSUME NEW v, ExtTyped(v), NEW pl, IsPlace(v, pl)
  PROVE  RecAt(v, pl).inode \in Inodes \cup {0}
<1>1. IsRecs(RecsOf(v, pl[1])) /\ v.blk[pl[1]].rec = RecsOf(v, pl[1])
  <2>1. pl[1] \in Blocks /\ Len(RecsOf(v, pl[1])) \in Nat /\ pl[2] \in 1..Len(RecsOf(v, pl[1]))
    BY RecsTyped DEF IsPlace
  <2>. QED  BY <2>1, RecsTyped
<1>2. PICK R : RecsOf(v, pl[1]) \in Seq(R) /\ \A r \in R : IsRec(r)
  BY <1>1 DEF IsRecs
<1>3. RecsOf(v, pl[1])[pl[2]] \in R
  BY <1>2, LenProperties DEF IsPlace
<1>. QED  BY <1>1, <1>2, <1>3 DEF RecAt, IsRec

LEMMA LookupTyped ==
  ASSUME NEW v, ExtTyped(v), NEW n \in Inodes, NEW name
  PROVE  dir_lookup(v, n, name) \in Inodes \cup {0}
<1>. DEFINE H   == { i \in 1..Len(Places(v, n)) : IsNamed(RecAt(v, Places(v, n)[i]), name) }
            hit == IF H = {} THEN <<>> ELSE <<Places(v, n)[Min(H)]>>
<1>1. dir_lookup(v, n, name) = InodeAt(v, hit)
  BY DEF dir_lookup, FirstPlace
<1>2. hit = <<>> \/ (hit # <<>> /\ IsPlace(v, hit[1]))
  <2>1. H \in SUBSET (1..Len(Places(v, n)))
    OBVIOUS
  <2>. HIDE DEF H
  <2>. QED  BY <2>1, FirstIsPlace
<1>. HIDE DEF hit
<1>. QED  BY <1>1, <1>2, RecAtTyped DEF InodeAt

LEMMA AlongTyped ==
  ASSUME NEW v, ExtTyped(v), NEW S, NEW path \in Seq(S)
  PROVE  /\ path_resolve(v, path) \in Inodes \cup {0}
         /\ par_ino(v, path) \in Inodes \cup {0}
         /\ path_resolve(v, path) # 0 => par_ino(v, path) # 0
<1>. DEFINE N  == Len(path)
            Body(f, i) == IF i = 0 THEN ROOT_INO ELSE IF f[i - 1] = 0 THEN 0 ELSE dir_lookup(v, f[i - 1], path[i])
            Ok(g, m) == g = [i \in 0..m |-> Body(g, i)]
            T == { m \in Nat : \E g : Ok(g, m) }
<1>1. 0 \in T
  <2>. DEFINE g == [i \in 0..0 |-> ROOT_INO]
  <2>1. Ok(g, 0)
    OBVIOUS
  <2>. HIDE DEF g, Ok
  <2>. QED  BY <2>1
<1>2. ASSUME NEW m \in Nat, m \in T PROVE m + 1 \in T
  <2>1. PICK g : Ok(g, m)
    BY <1>2
  <2>. DEFINE h == [i \in 0..(m + 1) |-> IF i = m + 1 THEN Body(g, m + 1) ELSE g[i]]
  <2>2. ASSUME NEW i \in 0..(m + 1) PROVE h[i] = Body(h, i)
    <3>1. CASE i = m + 1
      <4>1. h[m] = g[m]
        OBVIOUS
      <4>. QED  BY <3>1, <4>1
    <3>2. CASE i # m + 1
      <4>1. i \in 0..m /\ h[i] = g[i] /\ g[i] = Body(g, i)
        <5>1. i \in 0..m
          BY <3>2
        <5>2. h[i] = g[i]
          BY <3>2
        <5>3. g[i] = Body(g, i)
          <6>. HIDE DEF Body
          <6>. QED  BY <5>1, <2>1
        <5>. QED  BY <5>1, <5>2, <5>3
      <4>2. i # 0 => h[i - 1] = g[i - 1]
        BY <4>1
      <4>. QED  BY <4>1, <4>2
    <3>. QED  BY <3>1, <3>2
  <2>3. h = [i \in 0..(m + 1) |-> Body(h, i)]
    BY <2>2
  <2>. HIDE DEF h, Body
  <2>4. Ok(h, m + 1)
    BY <2>3
  <2>. QED  BY <2>4
<1>3. N \in T
  <2>1. \A m \in Nat : m \in T
    <3>. HIDE DEF T
    <3>. QED  BY <1>1, <1>2, Induction
  <2>2. N \in Nat
    BY LenProperties
  <2>. HIDE DEF T
  <2>. QED  BY <2>1, <2>2
<1>4. PICK g : Ok(g, N) /\ Along(v, path) = g
  <2>. DEFINE F == CHOOSE g : Ok(g, N)
  <2>1. Ok(F, N)
    BY <1>3
  <2>2. Along(v, path) = F
    BY DEF Along
  <2>. HIDE DEF F, Ok
  <2>. QED  BY <2>1, <2>2
<1>5. g[0] = ROOT_INO
  BY <1>4
<1>6. ASSUME NEW i \in 1..N PROVE g[i] = IF g[i - 1] = 0 THEN 0 ELSE dir_lookup(v, g[i - 1], path[i])
  <2>1. g[i] = Body(g, i)
    <3>. HIDE DEF Body
    <3>. QED  BY <1>4
  <2>2. i # 0
    OBVIOUS
  <2>. QED  BY <2>1, <2>2
<1>. HIDE DEF Ok, Body
<1>. DEFINE U == { i \in Nat : i <= N => g[i] \in Inodes \cup {0} }
<1>7. 0 \in U
  BY <1>5, ExtIs
<1>8. ASSUME NEW i \in Nat, i \in U PROVE i + 1 \in U
  <2>. SUFFICES ASSUME i + 1 <= N PROVE g[i + 1] \in Inodes \cup {0}
    OBVIOUS
  <2>1. i + 1 \in 1..N /\ (i + 1) - 1 = i /\ g[i] \in Inodes \cup {0}
    BY <1>8
  <2>2. g[i + 1] = IF g[i] = 0 THEN 0 ELSE dir_lookup(v, g[i], path[i + 1])
    BY <2>1, <1>6
  <2>3. g[i] # 0 => dir_lookup(v, g[i], path[i + 1]) \in Inodes \cup {0}
    BY <2>1, LookupTyped
  <2>. QED  BY <2>1, <2>2, <2>3
<1>9. \A i \in Nat : i \in U
  <2>. HIDE DEF U
  <2>. QED  BY <1>7, <1>8, Induction
<1>10. path_resolve(v, path) = g[N] /\ par_ino(v, path) = IF path = <<>> THEN ROOT_INO ELSE g[N - 1]
  BY <1>4 DEF path_resolve, par_ino
<1>. Len(path) \in Nat
  BY LenProperties
<1>11. CASE path = <<>>
  BY <1>9, <1>10, <1>11, ExtIs
<1>12. CASE path # <<>> /\ N > 0
  <2>1. N - 1 \in Nat /\ N - 1 <= N /\ N \in 1..N
    BY <1>12
  <2>2. g[N - 1] = 0 => g[N] = 0
    BY <2>1, <1>6
  <2>. QED  BY <1>9, <1>10, <1>12, <2>1, <2>2
<1>13. CASE path # <<>> /\ N = 0
  BY <1>13, EmptySeq
<1>. QED  BY <1>11, <1>12, <1>13

\* What holds of a file that is being written: its inode n is one.
Filling(s, n) ==
  /\ s = [vol |-> s.vol, ino |-> s.ino, ret |-> s.ret]
  /\ ExtTyped(s.vol) /\ s.ret \in Int
  /\ n \in Inodes => s.ino \in InodeSet

LEMMA PutBlockFills ==
  ASSUME NEW n, NEW s, Filling(s, n), NEW v, NEW u, u = PutBlock(s, v)
  PROVE  Filling(u, n)
<1>. DEFINE a   == alloc_block(s.vol)
            w   == [a.vol EXCEPT !.blk[a.b] = Holds(v)]
            set == inode_set_block(w, s.ino, s.ret + 1, a.b)
<1>0. s.ret \in Int /\ ExtTyped(s.vol)
  BY DEF Filling
<1>1. u = CASE s.ret < 0              -> s
            [] s.ret >= 0 /\ a.b = 0 -> [s EXCEPT !.ret = -3]
            [] s.ret >= 0 /\ a.b # 0 -> [vol |-> set.vol, ino |-> set.ino, ret |-> s.ret + 1]
  BY DEF PutBlock
<1>2. a.b \in BlockPtr /\ ExtTyped(a.vol)
  BY <1>0, AllocTyped
<1>. HIDE DEF a, set
<1>3. CASE s.ret < 0
  <2>1. u = s
    BY <1>0, <1>1, <1>3
  <2>. QED  BY <2>1
<1>4. CASE s.ret >= 0 /\ a.b = 0
  <2>1. u = [s EXCEPT !.ret = -3]
    BY <1>0, <1>1, <1>4
  <2>2. u = [vol |-> s.vol, ino |-> s.ino, ret |-> -3]
    BY <2>1 DEF Filling
  <2>. QED  BY <2>2 DEF Filling
<1>5. CASE s.ret >= 0 /\ a.b # 0
  <2>1. u = [vol |-> set.vol, ino |-> set.ino, ret |-> s.ret + 1]
    BY <1>0, <1>1, <1>5
  <2>2. IsBlock(Holds(v))
    BY DEF IsBlock, Holds
  <2>3. ExtTyped(w)
    BY <1>2, <2>2, BlkPut
  <2>. HIDE DEF w
  <2>4. s.ret + 1 \in Nat \ {0} /\ a.b \in Blocks
    BY <1>0, <1>2, <1>5 DEF BlockPtr
  <2>5. ExtTyped(set.vol) /\ (s.ino \in InodeSet => set.ino \in InodeSet)
    <3>1. PICK r, b, ino, q : r = s.ret + 1 /\ b = a.b /\ ino = s.ino /\ q = set
      OBVIOUS
    <3>2. r \in Nat \ {0} /\ b \in Blocks
      BY ONLY <2>4, <3>1
    <3>3. q = inode_set_block(w, ino, r, b)
      BY <3>1 DEF set
    <3>4. ExtTyped(q.vol) /\ (ino \in InodeSet => q.ino \in InodeSet)
      BY ONLY <2>3, <3>2, <3>3, SetBlockTyped
    <3>. QED  BY <3>1, <3>4
  <2>6. n \in Inodes => set.ino \in InodeSet
    BY <2>5 DEF Filling
  <2>. QED  BY <2>1, <2>4, <2>5, <2>6 DEF Filling
<1>. QED  BY <1>0, <1>3, <1>4, <1>5

LEMMA NewBlocksFills ==
  ASSUME NEW n, NEW v, ExtTyped(v), NEW ino, n \in Inodes => ino \in InodeSet,
         NEW val, Len(val) \in Nat, NEW u, u = NewBlocks(v, ino, val)
  PROVE  Filling(u, n)
<1>. DEFINE start == [vol |-> v, ino |-> ino, ret |-> 0]
            Body(f, i) == IF i = 0 THEN start ELSE PutBlock(f[i - 1], val[i])
            N == Len(val)
            Ok(g, m) == g = [i \in 0..m |-> Body(g, i)]
            T == { m \in Nat : \E g : Ok(g, m) }
<1>1. 0 \in T
  <2>. DEFINE g == [i \in 0..0 |-> start]
  <2>1. Ok(g, 0)
    OBVIOUS
  <2>. HIDE DEF g, Ok
  <2>. QED  BY <2>1
<1>2. ASSUME NEW m \in Nat, m \in T PROVE m + 1 \in T
  <2>1. PICK g : Ok(g, m)
    BY <1>2
  <2>. DEFINE h == [i \in 0..(m + 1) |-> IF i = m + 1 THEN Body(g, m + 1) ELSE g[i]]
  <2>2. ASSUME NEW i \in 0..(m + 1) PROVE h[i] = Body(h, i)
    <3>1. CASE i = m + 1
      <4>1. h[m] = g[m]
        OBVIOUS
      <4>. QED  BY <3>1, <4>1
    <3>2. CASE i # m + 1
      <4>1. i \in 0..m /\ h[i] = g[i] /\ g[i] = Body(g, i)
        <5>1. i \in 0..m
          BY <3>2
        <5>2. h[i] = g[i]
          BY <3>2
        <5>3. g[i] = Body(g, i)
          <6>. HIDE DEF Body
          <6>. QED  BY <5>1, <2>1
        <5>. QED  BY <5>1, <5>2, <5>3
      <4>2. i # 0 => h[i - 1] = g[i - 1]
        BY <4>1
      <4>. QED  BY <4>1, <4>2
    <3>. QED  BY <3>1, <3>2
  <2>3. h = [i \in 0..(m + 1) |-> Body(h, i)]
    BY <2>2
  <2>. HIDE DEF h, Body
  <2>4. Ok(h, m + 1)
    BY <2>3
  <2>. QED  BY <2>4
<1>3. N \in T
  <2>1. \A m \in Nat : m \in T
    <3>. HIDE DEF T
    <3>. QED  BY <1>1, <1>2, Induction
  <2>2. N \in Nat
    OBVIOUS
  <2>. HIDE DEF T
  <2>. QED  BY <2>1, <2>2
<1>4. PICK g : Ok(g, N) /\ u = g[N]
  <2>. DEFINE F == CHOOSE g : Ok(g, N)
  <2>1. Ok(F, N)
    BY <1>3
  <2>2. u = F[N]
    BY DEF NewBlocks
  <2>. HIDE DEF F, Ok
  <2>. QED  BY <2>1, <2>2
<1>5. g[0] = start
  BY <1>4
<1>6. ASSUME NEW i \in 1..N PROVE g[i] = PutBlock(g[i - 1], val[i])
  <2>1. g[i] = Body(g, i)
    <3>. HIDE DEF Body
    <3>. QED  BY <1>4
  <2>2. i # 0
    OBVIOUS
  <2>. QED  BY <2>1, <2>2
<1>. HIDE DEF Ok, Body
<1>7. Filling(start, n)
  BY DEF Filling
<1>. DEFINE U == { i \in Nat : i <= N => Filling(g[i], n) }
<1>8. 0 \in U
  BY <1>5, <1>7
<1>9. ASSUME NEW i \in Nat, i \in U PROVE i + 1 \in U
  <2>. SUFFICES ASSUME i + 1 <= N PROVE Filling(g[i + 1], n)
    OBVIOUS
  <2>1. i + 1 \in 1..N /\ (i + 1) - 1 = i /\ Filling(g[i], n)
    BY <1>9
  <2>2. g[i + 1] = PutBlock(g[i], val[i + 1])
    BY <2>1, <1>6
  <2>. QED  BY <2>1, <2>2, PutBlockFills
<1>10. \A i \in Nat : i \in U
  <2>. HIDE DEF U
  <2>. QED  BY <1>8, <1>9, Induction
<1>. QED  BY <1>4, <1>10

LEMMA ExtWriteTyped ==
  ASSUME NEW v, ExtTyped(v), NEW node, NEW val, Len(val) \in Nat, NEW u, u = ext2_write(v, node, val)
  PROVE  ExtTyped(u.vol)
<1>. DEFINE n    == node.inode
            ino  == [v.inode[n] EXCEPT !.ptr = NoPtrs, !.size = Len(val)]
            done == NewBlocks(free_inode_blocks(v, n), ino, val)
<1>1. u = [vol |-> IF done.ret < 0 THEN done.vol ELSE [done.vol EXCEPT !.inode[n] = done.ino],
           ret |-> done.ret]
  BY DEF ext2_write
<1>2. ASSUME n \in Inodes PROVE ino \in InodeSet
  <2>1. v.inode[n] \in InodeSet
    BY <1>2 DEF ExtTyped
  <2>2. NoPtrs \in [1..(NDIRECT + 1) -> BlockPtr]
    BY DEF NoPtrs, BlockPtr
  <2>. HIDE DEF n
  <2>. QED  BY <2>1, <2>2 DEF InodeSet
<1>3. ExtTyped(free_inode_blocks(v, n))
  BY FreeBlocksTyped
<1>4. Filling(done, n)
  <2>. HIDE DEF ino, n
  <2>. QED  BY <1>2, <1>3, NewBlocksFills
<1>. HIDE DEF done, n
<1>5. CASE done.ret < 0
  BY <1>1, <1>4, <1>5 DEF Filling
<1>6. CASE ~(done.ret < 0)
  <2>1. u.vol = [done.vol EXCEPT !.inode[n] = done.ino]
    BY <1>1, <1>6
  <2>2. ExtTyped(done.vol) /\ (n \in Inodes => done.ino \in InodeSet)
    BY <1>4 DEF Filling
  <2>. QED  BY <2>1, <2>2, InodePut
<1>. QED  BY <1>5, <1>6

\* A place whose records are replaced.
LEMMA RecsPut ==
  ASSUME NEW v, ExtTyped(v), NEW pl, IsPlace(v, pl), NEW new, IsRecs(new),
         NEW u, u = [v EXCEPT !.blk[pl[1]].rec = new]
  PROVE  ExtTyped(u)
<1>. DEFINE b == pl[1]
            k == [v.blk[b] EXCEPT !.rec = new]
<1>1. b \in Blocks /\ v.blk[b] = Records(v.blk[b].rec)
  <2>1. b \in Blocks /\ Len(RecsOf(v, b)) \in Nat /\ pl[2] \in 1..Len(RecsOf(v, b))
    BY RecsTyped DEF IsPlace
  <2>. QED  BY <2>1, RecsTyped
<1>2. v.blk = [c \in Blocks |-> v.blk[c]] /\ v = [bmap |-> v.bmap, imap |-> v.imap, inode |-> v.inode, blk |-> v.blk]
  BY DEF ExtTyped
<1>3. u = [v EXCEPT !.blk[b] = k]
  OBVIOUS
<1>4. k = Records(new)
  <2>1. v.blk[b] = [kind |-> "dir", rec |-> v.blk[b].rec]
    BY <1>1 DEF Records
  <2>2. k = [v.blk[b] EXCEPT !.rec = new]
    OBVIOUS
  <2>. HIDE DEF k
  <2>. QED  BY <2>1, <2>2 DEF Records
<1>5. IsBlock(k)
  <2>1. Records(new).kind = "dir" /\ Records(new).rec = new
    BY DEF Records
  <2>. QED  BY <1>4, <2>1 DEF IsBlock
<1>. HIDE DEF k, b
<1>. QED  BY ONLY ExtTyped(v), <1>3, <1>5, BlkPut

LEMMA InsertAtIs ==
  ASSUME NEW S, NEW s \in Seq(S), NEW i \in 1..(Len(s) + 1), NEW e \in S
  PROVE  InsertAt(s, i, e) \in Seq(S)
<1>1. SubSeq(s, 1, i - 1) \in Seq(S) /\ SubSeq(s, i, Len(s)) \in Seq(S) /\ <<e>> \in Seq(S)
  BY SubSeqProperties, LenProperties
<1>2. SubSeq(s, 1, i - 1) \o <<e>> \in Seq(S)
  BY <1>1, ConcatProperties
<1>. QED  BY <1>1, <1>2, ConcatProperties DEF InsertAt

LEMMA RecIs ==
  ASSUME NEW ino \in Inodes \cup {0}, NEW name, NEW len
  PROVE  IsRec(Rec(ino, name, len))
BY DEF IsRec, Rec

LEMMA RecChanged ==
  ASSUME NEW r, IsRec(r), NEW x
  PROVE  IsRec([r EXCEPT !.len = x]) /\ IsRec([r EXCEPT !.inode = 0])
<1>1. r = [inode |-> r.inode, name |-> r.name, len |-> r.len] /\ r.inode \in Inodes \cup {0}
  BY DEF IsRec
<1>. DEFINE a == [r EXCEPT !.len = x]
            b == [r EXCEPT !.inode = 0]
<1>2. a = [r EXCEPT !.len = x] /\ b = [r EXCEPT !.inode = 0]
  OBVIOUS
<1>. HIDE DEF a, b
<1>3. a = [inode |-> r.inode, name |-> r.name, len |-> x]
  BY <1>1, <1>2
<1>4. b = [inode |-> 0, name |-> r.name, len |-> r.len]
  BY <1>1, <1>2
<1>5. IsRec(a) /\ IsRec(b)
  BY <1>1, <1>3, <1>4 DEF IsRec
<1>. QED  BY <1>5 DEF a, b

LEMMA AddedAtTyped ==
  ASSUME NEW v, ExtTyped(v), NEW pl, IsPlace(v, pl), NEW name, NEW ino \in Inodes
  PROVE  ExtTyped(AddedAt(v, pl[1], pl[2], name, ino))
<1>. DEFINE k    == pl[2]
            rec  == v.blk[pl[1]].rec
            whole == [rec EXCEPT ![k] = Rec(ino, name, rec[k].len)]
            cut   == [rec EXCEPT ![k].len = 1]
            split == InsertAt(cut, k + 1, Rec(ino, name, rec[k].len - 1))
            new   == IF rec[k].inode = 0 THEN whole ELSE split
<1>1. IsRecs(rec) /\ Len(rec) \in Nat /\ k \in 1..Len(rec)
  <2>1. pl[1] \in Blocks /\ Len(RecsOf(v, pl[1])) \in Nat /\ k \in 1..Len(RecsOf(v, pl[1]))
    BY RecsTyped DEF IsPlace
  <2>2. rec = RecsOf(v, pl[1])
    BY <2>1, RecsTyped
  <2>. QED  BY <2>1, <2>2, RecsTyped
<1>2. AddedAt(v, pl[1], k, name, ino) = [v EXCEPT !.blk[pl[1]].rec = new]
  BY DEF AddedAt
<1>. HIDE DEF rec, k
<1>3. PICK R : rec \in Seq(R) /\ \A r \in R : IsRec(r)
  BY <1>1 DEF IsRecs
<1>4. rec[k] \in R
  BY <1>1, <1>3, LenProperties
<1>5. IsRecs(whole)
  <2>. DEFINE e == Rec(ino, name, rec[k].len)
              Q == R \cup {e}
  <2>1. IsRec(e)
    BY RecIs
  <2>. HIDE DEF e
  <2>2. [rec EXCEPT ![k] = e] \in Seq(Q)
    BY <1>1, <1>3
  <2>3. \A r \in Q : IsRec(r)
    BY <1>3, <2>1
  <2>. HIDE DEF Q
  <2>. QED  BY <2>2, <2>3 DEF IsRecs, e
<1>6. IsRecs(split)
  <2>. DEFINE c == [rec[k] EXCEPT !.len = 1]
              e == Rec(ino, name, rec[k].len - 1)
              Q == R \cup {c, e}
  <2>1. IsRec(e) /\ IsRec(c)
    BY <1>3, <1>4, RecIs, RecChanged
  <2>2. cut = [rec EXCEPT ![k] = c]
    OBVIOUS
  <2>. HIDE DEF c, e, cut
  <2>3. cut \in Seq(Q) /\ Len(cut) = Len(rec)
    BY <1>1, <1>3, <2>2
  <2>4. k + 1 \in 1..(Len(cut) + 1) /\ e \in Q
    BY <1>1, <2>3
  <2>5. \A r \in Q : IsRec(r)
    BY <1>3, <2>1
  <2>. HIDE DEF Q
  <2>6. InsertAt(cut, k + 1, e) \in Seq(Q)
    BY <2>3, <2>4, InsertAtIs
  <2>. QED  BY <2>5, <2>6 DEF IsRecs, e
<1>7. IsRecs(new)
  <2>. HIDE DEF whole, split
  <2>. QED  BY <1>5, <1>6
<1>. HIDE DEF new
<1>. QED  BY <1>2, <1>7, RecsPut DEF k

LEMMA RemovedAtTyped ==
  ASSUME NEW v, ExtTyped(v), NEW pl, IsPlace(v, pl)
  PROVE  ExtTyped([v EXCEPT !.blk[pl[1]].rec = RemovedAt(@, pl[2])])
<1>. DEFINE k    == pl[2]
            rec  == v.blk[pl[1]].rec
            merged == [rec EXCEPT ![k - 1].len = @ + rec[k].len]
            new  == IF k = 1 THEN [rec EXCEPT ![1].inode = 0] ELSE RemoveAt(merged, k)
<1>0. v.blk = [c \in Blocks |-> v.blk[c]] /\ v = [bmap |-> v.bmap, imap |-> v.imap, inode |-> v.inode, blk |-> v.blk]
  BY DEF ExtTyped
<1>1. IsRecs(rec) /\ Len(rec) \in Nat /\ k \in 1..Len(rec) /\ pl[1] \in Blocks
      /\ v.blk[pl[1]] = Records(rec)
  <2>1. pl[1] \in Blocks /\ Len(RecsOf(v, pl[1])) \in Nat /\ k \in 1..Len(RecsOf(v, pl[1]))
    BY RecsTyped DEF IsPlace
  <2>2. rec = RecsOf(v, pl[1])
    BY <2>1, RecsTyped
  <2>. QED  BY <2>1, <2>2, RecsTyped
<1>2. [v EXCEPT !.blk[pl[1]].rec = RemovedAt(@, k)] = [v EXCEPT !.blk[pl[1]].rec = new]
  <2>1. RemovedAt(rec, k) = new
    BY DEF RemovedAt
  <2>. HIDE DEF new
  <2>. QED  BY <2>1, <1>0, <1>1
<1>. HIDE DEF rec, k
<1>3. PICK R : rec \in Seq(R) /\ \A r \in R : IsRec(r)
  BY <1>1 DEF IsRecs
<1>4. CASE k = 1
  <2>. DEFINE e == [rec[1] EXCEPT !.inode = 0]
              Q == R \cup {e}
  <2>1. rec[1] \in R
    BY <1>1, <1>3, <1>4, LenProperties
  <2>2. IsRec(e)
    BY <1>3, <2>1, RecChanged
  <2>3. new = [rec EXCEPT ![1] = e]
    BY <1>4
  <2>. HIDE DEF e, new
  <2>4. new \in Seq(Q)
    BY <1>1, <1>3, <2>3
  <2>5. \A r \in Q : IsRec(r)
    BY <1>3, <2>2
  <2>. HIDE DEF Q
  <2>6. IsRecs(new)
    BY <2>4, <2>5 DEF IsRecs
  <2>. QED  BY <1>2, <2>6, RecsPut DEF k
<1>5. CASE k # 1
  <2>. DEFINE e == [rec[k - 1] EXCEPT !.len = @ + rec[k].len]
              Q == R \cup {e}
  <2>1. rec[k - 1] \in R /\ k - 1 \in 1..Len(rec)
    BY <1>1, <1>3, <1>5, LenProperties
  <2>2. IsRec(e)
    BY <1>3, <2>1, RecChanged
  <2>3. new = RemoveAt(merged, k) /\ merged = [rec EXCEPT ![k - 1] = e]
    BY <1>5
  <2>. HIDE DEF e, new, merged
  <2>4. merged \in Seq(Q) /\ DOMAIN merged = 1..Len(rec)
    BY <1>1, <1>3, <2>1, <2>3
  <2>5. \A r \in Q : IsRec(r)
    BY <1>3, <2>2
  <2>. HIDE DEF Q
  <2>6. RemoveAt(merged, k) \in Seq(Q)
    BY <1>1, <2>4, RemoveAtIs
  <2>7. IsRecs(new)
    BY <2>3, <2>5, <2>6 DEF IsRecs
  <2>. QED  BY <1>2, <2>7, RecsPut DEF k
<1>. QED  BY <1>4, <1>5

LEMMA AddedBehindTyped ==
  ASSUME NEW v, ExtTyped(v), NEW n \in Inodes, NEW name, NEW ino \in Inodes
  PROVE  ExtTyped(AddedBehind(v, alloc_block(v), n, name, ino).vol)
<1>. DEFINE new  == alloc_block(v)
            one  == Records(<<Rec(ino, name, UNITS)>>)
            w    == [new.vol EXCEPT !.blk[new.b] = one]
            i    == Len(BlockList(v, n)) + 1
            set  == inode_set_block(w, v.inode[n], i, new.b)
            u    == AddedBehind(v, new, n, name, ino)
<1>1. u = IF new.b = 0 THEN [vol |-> v, ret |-> -1] ELSE Grown(v, n, set)
  BY DEF AddedBehind
<1>2. new.b \in BlockPtr /\ ExtTyped(new.vol)
  BY AllocTyped
<1>3. IsBlock(one)
  <2>. DEFINE r == Rec(ino, name, UNITS)
              R == {r}
  <2>1. IsRec(r)
    BY RecIs
  <2>. HIDE DEF r
  <2>2. <<r>> \in Seq(R) /\ \A x \in R : IsRec(x)
    BY <2>1
  <2>. HIDE DEF R
  <2>3. IsRecs(<<r>>)
    BY <2>2 DEF IsRecs
  <2>4. one = Records(<<r>>)
    BY DEF r
  <2>5. Records(<<r>>).kind = "dir" /\ Records(<<r>>).rec = <<r>>
    BY DEF Records
  <2>. HIDE DEF one
  <2>. QED  BY <2>3, <2>4, <2>5 DEF IsBlock
<1>. HIDE DEF new, one
<1>4. ExtTyped(w)
  BY <1>2, <1>3, BlkPut
<1>5. i \in Nat \ {0} /\ v.inode[n] \in InodeSet
  BY BlockListTyped, LenProperties DEF ExtTyped
<1>6. CASE new.b = 0
  <2>1. u = [vol |-> v, ret |-> -1]
    BY <1>1, <1>6
  <2>. QED  BY <2>1 DEF u, new
<1>7. CASE new.b # 0
  <2>1. u = [vol |-> [set.vol EXCEPT !.inode[n] = [set.ino EXCEPT !.size = @ + 1]], ret |-> 0]
    BY <1>1, <1>7 DEF Grown
  <2>2. PICK r, b, o, q : r = i /\ b = new.b /\ o = v.inode[n] /\ q = set
    OBVIOUS
  <2>3. b \in Blocks /\ r \in Nat \ {0} /\ o \in InodeSet
    BY <1>2, <1>5, <1>7, <2>2 DEF BlockPtr
  <2>4. q = inode_set_block(w, o, r, b)
    BY <2>2
  <2>. HIDE DEF w, set, i, u
  <2>5. ExtTyped(q.vol) /\ q.ino \in InodeSet
    BY ONLY <1>4, <2>3, <2>4, SetBlockTyped
  <2>. DEFINE grown == [q.ino EXCEPT !.size = @ + 1]
  <2>6. grown \in InodeSet
    BY <2>5 DEF InodeSet
  <2>7. u.vol = [q.vol EXCEPT !.inode[n] = grown]
    BY <2>1, <2>2
  <2>. HIDE DEF grown
  <2>8. ExtTyped(u.vol)
    BY <2>5, <2>6, <2>7, InodePut
  <2>. QED  BY <2>8 DEF u, new
<1>. QED  BY <1>6, <1>7

LEMMA AddEntryTyped ==
  ASSUME NEW v, ExtTyped(v), NEW n \in Inodes, NEW name, NEW ino \in Inodes
  PROVE  ExtTyped(dir_add_entry(v, n, name, ino).vol)
<1>. DEFINE H   == { i \in 1..Len(Places(v, n)) :
                       RecAt(v, Places(v, n)[i]).inode = 0 \/ RecAt(v, Places(v, n)[i]).len >= 2 }
            hit == IF H = {} THEN <<>> ELSE <<Places(v, n)[Min(H)]>>
<1>1. dir_add_entry(v, n, name, ino) = Added(v, hit, n, name, ino)
  BY DEF dir_add_entry, FirstPlace
<1>2. hit = <<>> \/ (hit # <<>> /\ IsPlace(v, hit[1]))
  <2>1. H \in SUBSET (1..Len(Places(v, n)))
    OBVIOUS
  <2>. HIDE DEF H
  <2>. QED  BY <2>1, FirstIsPlace
<1>. HIDE DEF hit
<1>3. CASE hit = <<>>
  <2>1. Added(v, hit, n, name, ino) = AddedBehind(v, alloc_block(v), n, name, ino)
    BY <1>3 DEF Added
  <2>. QED  BY <1>1, <2>1, AddedBehindTyped
<1>4. CASE hit # <<>>
  <2>1. Added(v, hit, n, name, ino) = [vol |-> AddedAt(v, hit[1][1], hit[1][2], name, ino), ret |-> 0]
    BY <1>4 DEF Added
  <2>2. ExtTyped(AddedAt(v, hit[1][1], hit[1][2], name, ino))
    BY <1>2, <1>4, AddedAtTyped
  <2>. QED  BY <1>1, <2>1, <2>2
<1>. QED  BY <1>3, <1>4

LEMMA RemoveEntryTyped ==
  ASSUME NEW v, ExtTyped(v), NEW n \in Inodes, NEW name
  PROVE  ExtTyped(dir_remove_entry(v, n, name).vol)
<1>. DEFINE H   == { i \in 1..Len(Places(v, n)) : IsNamed(RecAt(v, Places(v, n)[i]), name) }
            hit == IF H = {} THEN <<>> ELSE <<Places(v, n)[Min(H)]>>
<1>1. dir_remove_entry(v, n, name) = Dropped(v, hit)
  BY DEF dir_remove_entry, FirstPlace
<1>2. hit = <<>> \/ (hit # <<>> /\ IsPlace(v, hit[1]))
  <2>1. H \in SUBSET (1..Len(Places(v, n)))
    OBVIOUS
  <2>. HIDE DEF H
  <2>. QED  BY <2>1, FirstIsPlace
<1>. HIDE DEF hit
<1>3. CASE hit = <<>>
  BY <1>1, <1>3 DEF Dropped
<1>4. CASE hit # <<>>
  <2>1. Dropped(v, hit).vol = [v EXCEPT !.blk[hit[1][1]].rec = RemovedAt(@, hit[1][2])]
    BY <1>4 DEF Dropped
  <2>2. ExtTyped([v EXCEPT !.blk[hit[1][1]].rec = RemovedAt(@, hit[1][2])])
    BY <1>2, <1>4, RemovedAtTyped
  <2>. QED  BY <1>1, <2>1, <2>2
<1>. QED  BY <1>3, <1>4

LEMMA ExtCreateTyped ==
  ASSUME NEW v, ExtTyped(v), NEW S, NEW path \in Seq(S)
  PROVE  ExtTyped(ext2_create(v, path).vol)
<1>. DEFINE dir  == par_ino(v, path)
            name == Last(path)
            F    == Inodes \ v.imap
            n    == Min(F)
            w    == [v EXCEPT !.imap = @ \cup {n}, !.inode[n] = NewInode]
            u    == ext2_create(v, path)
<1>1. u = CASE dir = 0 -> [vol |-> v, ret |-> -2]
            [] dir # 0 /\ dir_lookup(v, dir, name) # 0 -> [vol |-> v, ret |-> -4]
            [] dir # 0 /\ dir_lookup(v, dir, name) = 0 /\ F = {} -> [vol |-> v, ret |-> -5]
            [] OTHER -> dir_add_entry(w, dir, name, n)
  BY DEF ext2_create, CreatedIn
<1>2. dir \in Inodes \cup {0}
  BY AlongTyped
<1>. HIDE DEF dir, name, F, u, w
<1>3. CASE dir = 0 \/ (dir # 0 /\ dir_lookup(v, dir, name) # 0) \/ (dir # 0 /\ dir_lookup(v, dir, name) = 0 /\ F = {})
  <2>1. CASE dir = 0
    <3>1. u = [vol |-> v, ret |-> -2]
      BY <1>1, <2>1
    <3>. QED  BY <3>1 DEF u
  <2>2. CASE dir # 0 /\ dir_lookup(v, dir, name) # 0
    <3>1. u = [vol |-> v, ret |-> -4]
      BY <1>1, <2>2
    <3>. QED  BY <3>1 DEF u
  <2>3. CASE dir # 0 /\ dir_lookup(v, dir, name) = 0 /\ F = {}
    <3>1. u = [vol |-> v, ret |-> -5]
      BY <1>1, <2>3
    <3>. QED  BY <3>1 DEF u
  <2>. QED  BY <1>3, <2>1, <2>2, <2>3
<1>4. CASE dir # 0 /\ dir_lookup(v, dir, name) = 0 /\ F # {}
  <2>1. u = dir_add_entry(w, dir, name, n)
    <3>. HIDE DEF n
    <3>. QED  BY <1>1, <1>4
  <2>2. n \in Inodes
    <3>1. F \in SUBSET Nat /\ F \subseteq Inodes
      BY ExtIs DEF F
    <3>. QED  BY <1>4, <3>1, MinIs
  <2>. DEFINE im == v.imap \cup {n}
              w1 == [v EXCEPT !.imap = im]
  <2>3. im \subseteq Inodes /\ v.bmap \subseteq Blocks
    BY <2>2 DEF ExtTyped
  <2>. HIDE DEF n
  <2>4. w = [w1 EXCEPT !.inode[n] = NewInode]
    <3>1. v = [bmap |-> v.bmap, imap |-> v.imap, inode |-> v.inode, blk |-> v.blk]
      BY DEF ExtTyped
    <3>. DEFINE d == [v.inode EXCEPT ![n] = NewInode]
    <3>2. w = [v EXCEPT !.imap = im, !.inode = d]
      BY <3>1 DEF w
    <3>. HIDE DEF im
    <3>3. w1 = [bmap |-> v.bmap, imap |-> im, inode |-> v.inode, blk |-> v.blk]
      BY <3>1
    <3>4. [w1 EXCEPT !.inode[n] = NewInode] = [bmap |-> v.bmap, imap |-> im, inode |-> d, blk |-> v.blk]
      <4>. HIDE DEF w1
      <4>. QED  BY <3>3
    <3>. HIDE DEF d, w1
    <3>. QED  BY <3>1, <3>2, <3>4
  <2>5. ExtTyped(w1)
    <3>. HIDE DEF im
    <3>. QED  BY <2>3, MapsPut
  <2>6. NewInode \in InodeSet
    BY DEF NewInode, NoPtrs, InodeSet, BlockPtr
  <2>. HIDE DEF w1
  <2>7. ExtTyped(w)
    BY <2>4, <2>5, <2>6, InodePut
  <2>. QED  BY <1>2, <1>4, <2>1, <2>2, <2>7, AddEntryTyped DEF u
<1>. QED  BY <1>3, <1>4

LEMMA ExtUnlinkTyped ==
  ASSUME NEW v, ExtTyped(v), NEW S, NEW path \in Seq(S)
  PROVE  ExtTyped(ext2_unlink(v, path).vol)
<1>. DEFINE n == path_resolve(v, path)
            u == ext2_unlink(v, path)
            f == free_inode_blocks(v, n)
            w == [f EXCEPT !.imap = @ \ {n}, !.inode[n].ptr = NoPtrs]
<1>1. u = IF n = 0 THEN [vol |-> v, ret |-> -1] ELSE dir_remove_entry(w, par_ino(v, path), Last(path))
  BY DEF ext2_unlink, Unlinked
<1>2. n \in Inodes \cup {0} /\ par_ino(v, path) \in Inodes \cup {0} /\ (n # 0 => par_ino(v, path) # 0)
  BY AlongTyped
<1>3. ExtTyped(f)
  BY FreeBlocksTyped
<1>. HIDE DEF n, u, f
<1>4. CASE n = 0
  <2>1. u = [vol |-> v, ret |-> -1]
    BY <1>1, <1>4
  <2>. QED  BY <2>1 DEF u
<1>5. CASE n # 0
  <2>. DEFINE im == f.imap \ {n}
              w1 == [f EXCEPT !.imap = im]
              i  == [f.inode[n] EXCEPT !.ptr = NoPtrs]
  <2>1. f = [bmap |-> f.bmap, imap |-> f.imap, inode |-> f.inode, blk |-> f.blk]
        /\ im \subseteq Inodes /\ f.bmap \subseteq Blocks /\ f.inode[n] \in InodeSet
    BY <1>2, <1>3, <1>5 DEF ExtTyped
  <2>2. w = [w1 EXCEPT !.inode[n] = i]
    <3>. DEFINE d == [f.inode EXCEPT ![n] = i]
    <3>1. w = [f EXCEPT !.imap = im, !.inode = d]
      BY <2>1
    <3>. HIDE DEF im, i, w
    <3>2. w1 = [bmap |-> f.bmap, imap |-> im, inode |-> f.inode, blk |-> f.blk]
      BY <2>1
    <3>3. [w1 EXCEPT !.inode[n] = i] = [bmap |-> f.bmap, imap |-> im, inode |-> d, blk |-> f.blk]
      <4>. HIDE DEF w1
      <4>. QED  BY <3>2
    <3>. HIDE DEF d, w1
    <3>. QED  BY <2>1, <3>1, <3>3
  <2>3. i \in InodeSet
    <3>1. NoPtrs \in [1..(NDIRECT + 1) -> BlockPtr]
      BY DEF NoPtrs, BlockPtr
    <3>. QED  BY <2>1, <3>1 DEF InodeSet
  <2>4. ExtTyped(w1)
    <3>. HIDE DEF im
    <3>. QED  BY <1>3, <2>1, MapsPut
  <2>. HIDE DEF w1, i, w
  <2>5. ExtTyped(w)
    BY <2>2, <2>3, <2>4, InodePut
  <2>6. u = dir_remove_entry(w, par_ino(v, path), Last(path))
    BY <1>1, <1>5
  <2>. QED  BY <1>2, <1>5, <2>5, <2>6, RemoveEntryTyped DEF u
<1>. QED  BY <1>4, <1>5

LEMMA ExtOpenTyped ==
  ASSUME NEW v, ExtTyped(v), NEW S, NEW path \in Seq(S), NEW o, o = ext2_open(v, path), o.ok
  PROVE  o.inode \in Inodes /\ o.size \in Nat /\ Len(ext2_read(v, o)) \in Nat
<1>. DEFINE n == path_resolve(v, path)
<1>1. n \in Inodes \cup {0}
  BY AlongTyped
<1>2. o = IF n = 0 THEN [ok |-> FALSE]
          ELSE [ok |-> TRUE, inode |-> n, size |-> v.inode[n].size, isdir |-> v.inode[n].dir]
  BY DEF ext2_open, Opened
<1>. HIDE DEF n
<1>3. n # 0
  BY <1>2
<1>4. o = [ok |-> TRUE, inode |-> n, size |-> v.inode[n].size, isdir |-> v.inode[n].dir]
  BY <1>2, <1>3
<1>5. n \in Inodes /\ v.inode[n].size \in Nat
  BY <1>1, <1>3 DEF ExtTyped, InodeSet
<1>. DEFINE m == v.inode[o.inode].size
            At(i) == LET b == inode_get_block(v, v.inode[o.inode], i)
                     IN IF b # 0 /\ v.blk[b].kind = "data" THEN v.blk[b].val ELSE "zeros"
<1>6. ext2_read(v, o) = [i \in 1..m |-> At(i)]
  BY DEF ext2_read
<1>7. m \in Nat
  BY <1>4, <1>5
<1>. HIDE DEF At, m
<1>8. Len([i \in 1..m |-> At(i)]) = m
  BY <1>7
<1>. QED  BY <1>4, <1>5, <1>6, <1>7, <1>8

LEMMA EmptyExtTyped ==
  ASSUME NEW sub
  PROVE  ExtTyped(EmptyExt(sub))
<1>. DEFINE v == EmptyExt(sub)
            r1 == <<Rec(ROOT_INO, ".", 1), Rec(ROOT_INO + 1, sub, UNITS - 1)>>
            r2 == <<Rec(ROOT_INO + 1, ".", UNITS)>>
            ino == [n \in Inodes |->
                IF n <= ROOT_INO + 1
                THEN [dir |-> TRUE, size |-> 1, ptr |-> [NoPtrs EXCEPT ![1] = n]]
                ELSE NewInode]
            blk == [b \in Blocks |-> CASE b = 1 -> Records(r1) [] b = 2 -> Records(r2) [] OTHER -> Zeros]
<1>1. v = [bmap |-> {1, 2}, imap |-> {ROOT_INO, ROOT_INO + 1}, inode |-> ino, blk |-> blk]
  BY DEF EmptyExt
<1>2. ino \in [Inodes -> InodeSet]
  <2>. SUFFICES ASSUME NEW n \in Inodes PROVE ino[n] \in InodeSet
    OBVIOUS
  <2>1. NewInode \in InodeSet /\ NoPtrs \in [1..(NDIRECT + 1) -> BlockPtr]
    BY DEF NewInode, NoPtrs, InodeSet, BlockPtr
  <2>2. CASE n <= ROOT_INO + 1
    <3>1. n \in Blocks
      <4>1. n = 1 \/ n = 2
        BY <2>2, ExtIs
      <4>. QED  BY <4>1, ExtIs
    <3>2. [NoPtrs EXCEPT ![1] = n] \in [1..(NDIRECT + 1) -> BlockPtr]
      BY <2>1, <3>1 DEF BlockPtr
    <3>3. ino[n] = [dir |-> TRUE, size |-> 1, ptr |-> [NoPtrs EXCEPT ![1] = n]]
      BY <2>2
    <3>. HIDE DEF ino
    <3>. QED  BY <3>2, <3>3 DEF InodeSet
  <2>3. CASE ~(n <= ROOT_INO + 1)
    <3>1. ino[n] = NewInode
      BY <2>3
    <3>. QED  BY <2>1, <3>1
  <2>. QED  BY <2>2, <2>3
<1>3. IsRecs(r1) /\ IsRecs(r2)
  <2>. DEFINE a == Rec(ROOT_INO, ".", 1)
              b == Rec(ROOT_INO + 1, sub, UNITS - 1)
              c == Rec(ROOT_INO + 1, ".", UNITS)
              R == {a, b, c}
  <2>1. IsRec(a) /\ IsRec(b) /\ IsRec(c)
    BY ExtIs, RecIs
  <2>2. r1 = <<a, b>> /\ r2 = <<c>>
    OBVIOUS
  <2>. HIDE DEF a, b, c, r1, r2
  <2>3. r1 \in Seq(R) /\ r2 \in Seq(R) /\ \A r \in R : IsRec(r)
    BY <2>1, <2>2
  <2>. HIDE DEF R
  <2>. QED  BY <2>3 DEF IsRecs
<1>. HIDE DEF r1, r2
<1>4. IsBlock(Records(r1)) /\ IsBlock(Records(r2)) /\ IsBlock(Zeros)
  BY <1>3 DEF IsBlock, Records, Zeros
<1>5. /\ blk = [b \in Blocks |-> blk[b]]
      /\ \A b \in Blocks : IsBlock(blk[b])
  <2>1. ASSUME NEW b \in Blocks PROVE blk[b] = Records(r1) \/ blk[b] = Records(r2) \/ blk[b] = Zeros
    OBVIOUS
  <2>2. blk = [b \in Blocks |-> blk[b]]
    OBVIOUS
  <2>. HIDE DEF blk
  <2>. QED  BY <1>4, <2>1, <2>2
<1>6. {1, 2} \subseteq Blocks /\ {ROOT_INO, ROOT_INO + 1} \subseteq Inodes
  BY ExtIs
<1>. HIDE DEF ino, blk, v
<1>7. v = [bmap |-> v.bmap, imap |-> v.imap, inode |-> v.inode, blk |-> v.blk]
      /\ v.bmap = {1, 2} /\ v.imap = {ROOT_INO, ROOT_INO + 1} /\ v.inode = ino /\ v.blk = blk
  BY <1>1
<1>8. ExtTyped(v)
  BY <1>2, <1>5, <1>6, <1>7 DEF ExtTyped
<1>. QED  BY <1>8 DEF v

-----------------------------------------------------------------------------
(* The mount tbl *)

\* The root is always mounted, so that every path has a mount, and what is
\* left of a path behind the mount point is a sequence again.
LEMMA MountTyped ==
  ASSUME mounts \in MountTables, NEW p \in Paths
  PROVE  Len(find_mount(p).point) \in Nat
<1>. DEFINE N    == Len(mounts)
            fits == { i \in 1..N : IsPrefix(mounts[i].point, p) }
            best == { i \in fits : \A j \in fits : Len(mounts[i].point) >= Len(mounts[j].point) }
<1>0. p \in Seq(Range(p)) /\ p # <<>> /\ Head(p) = "/"
  BY VolumesAssumption
<1>1. /\ N \in Nat /\ \A i \in 1..N : Len(mounts[i].point) \in 0..2
      /\ \E i \in 1..N : mounts[i].point = <<"/">>
  <2>1. CASE mounts = <<FatMount, ExtMount, RootMount>>
    BY <2>1 DEF FatMount, ExtMount, RootMount
  <2>2. CASE mounts = <<FatMount, RootMount>>
    BY <2>2 DEF FatMount, RootMount
  <2>3. CASE mounts = <<ExtMount, RootMount>>
    BY <2>3 DEF ExtMount, RootMount
  <2>4. CASE mounts = <<RootMount>>
    BY <2>4 DEF RootMount
  <2>. QED  BY <2>1, <2>2, <2>3, <2>4 DEF MountTables
<1>2. IsPrefix(<<"/">>, p)
  <2>. DEFINE S == Range(p) \cup {"/"}
  <2>1. p \in Seq(S) /\ <<"/">> \in Seq(S) /\ Len(p) \in Nat /\ Len(p) >= 1 /\ p[1] = "/"
    <3>1. Range(p) \subseteq S
      OBVIOUS
    <3>2. p \in Seq(S)
      <4>1. Len(p) \in Nat /\ p \in [1..Len(p) -> Range(p)]
        BY <1>0, LenProperties
      <4>2. p \in [1..Len(p) -> S]
        BY <4>1, <3>1
      <4>. QED  BY <4>1, <4>2, FunctionIsSeq
    <3>3. Len(p) \in Nat /\ Len(p) # 0
      BY <1>0, LenProperties, EmptySeq
    <3>. HIDE DEF S
    <3>4. <<"/">> \in Seq({"/"}) /\ "/" \in S
      BY DEF S
    <3>5. <<"/">> \in Seq(S)
      BY <3>4
    <3>. QED  BY <1>0, <3>2, <3>3, <3>5
  <2>. HIDE DEF S
  <2>2. Len(<<"/">>) = 1 /\ \A k \in 1..1 : <<"/">>[k] = p[k]
    BY <2>1
  <2>3. SubSeq(<<"/">>, 1, 1) = SubSeq(p, 1, 1)
    BY <2>1, <2>2, SameBeginning
  <2>. QED  BY <2>1, <2>2, <2>3 DEF IsPrefix
<1>3. fits # {} /\ fits \in SUBSET (1..N)
  BY <1>1, <1>2
<1>. HIDE DEF fits
<1>4. best # {} /\ best \in SUBSET Nat
  <2>. DEFINE Lens == { Len(mounts[i].point) : i \in fits }
  <2>1. Lens \in SUBSET (0..2) /\ Lens # {}
    BY <1>1, <1>3
  <2>2. PICK x \in Lens : \A y \in Lens : x >= y
    <3>. HIDE DEF Lens
    <3>. QED  BY <2>1, Greatest
  <2>3. PICK i \in fits : x = Len(mounts[i].point)
    OBVIOUS
  <2>4. i \in best
    BY <2>2, <2>3
  <2>5. best \subseteq fits /\ fits \subseteq Nat
    BY <1>1, <1>3
  <2>. HIDE DEF best
  <2>. QED  BY <2>4, <2>5
<1>5. Min(best) \in best
  <2>. HIDE DEF best
  <2>. QED  BY <1>4, MinIs
<1>6. Min(best) \in 1..N
  BY <1>5, <1>3
<1>7. find_mount(p) = mounts[Min(best)]
  BY DEF find_mount, fits
<1>. HIDE DEF best
<1>. QED  BY <1>1, <1>6, <1>7

LEMMA NameTyped ==
  ASSUME mounts \in MountTables, NEW p \in Paths
  PROVE  Name(p) \in Seq(Range(p))
<1>. DEFINE S == Range(p)
            n == Len(find_mount(p).point)
            rest == SubSeq(p, n + 1, Len(p))
<1>1. p \in Seq(S) /\ n \in Nat /\ Len(p) \in Nat
  BY VolumesAssumption, MountTyped, LenProperties
<1>2. Name(p) = IF rest # <<>> /\ Head(rest) = "/" THEN Tail(rest) ELSE rest
  BY DEF Name, strip_prefix
<1>. HIDE DEF n, S
<1>3. rest \in Seq(S)
  <2>1. \A k \in (n + 1)..Len(p) : p[k] \in S
    <3>1. p \in [1..Len(p) -> S]
      BY <1>1, LenProperties
    <3>. QED  BY <1>1, <3>1
  <2>. QED  BY <1>1, <2>1
<1>. HIDE DEF rest
<1>4. rest # <<>> => Tail(rest) \in Seq(S)
  BY <1>3
<1>. QED  BY <1>2, <1>3, <1>4 DEF S

LEMMA NamesTyped ==
  ASSUME mounts \in MountTables, NEW p \in Paths
  PROVE  Names(p) \in Seq(Range(p))
<1>. DEFINE a  == Name(p)
            S  == Range(p)
            N  == Len(a)
            Body(f, i) == IF i = 0 THEN <<>> ELSE IF a[i] = "/" THEN f[i - 1] ELSE Append(f[i - 1], a[i])
            Ok(g, m) == g = [i \in 0..m |-> Body(g, i)]
            T == { m \in Nat : \E g : Ok(g, m) }
<1>0. a \in Seq(S) /\ N \in Nat /\ \A i \in 1..N : a[i] \in S
  <2>1. a \in Seq(S)
    BY NameTyped
  <2>. HIDE DEF a, S
  <2>. QED  BY <2>1, LenProperties
<1>1. 0 \in T
  <2>. DEFINE g == [i \in 0..0 |-> <<>>]
  <2>1. Ok(g, 0)
    OBVIOUS
  <2>. HIDE DEF g, Ok
  <2>. QED  BY <2>1
<1>2. ASSUME NEW m \in Nat, m \in T PROVE m + 1 \in T
  <2>1. PICK g : Ok(g, m)
    BY <1>2
  <2>. DEFINE h == [i \in 0..(m + 1) |-> IF i = m + 1 THEN Body(g, m + 1) ELSE g[i]]
  <2>2. ASSUME NEW i \in 0..(m + 1) PROVE h[i] = Body(h, i)
    <3>1. CASE i = m + 1
      <4>1. h[m] = g[m]
        OBVIOUS
      <4>. QED  BY <3>1, <4>1
    <3>2. CASE i # m + 1
      <4>1. i \in 0..m /\ h[i] = g[i] /\ g[i] = Body(g, i)
        <5>1. i \in 0..m
          BY <3>2
        <5>2. h[i] = g[i]
          BY <3>2
        <5>3. g[i] = Body(g, i)
          <6>. HIDE DEF Body
          <6>. QED  BY <5>1, <2>1
        <5>. QED  BY <5>1, <5>2, <5>3
      <4>2. i # 0 => h[i - 1] = g[i - 1]
        BY <4>1
      <4>. QED  BY <4>1, <4>2
    <3>. QED  BY <3>1, <3>2
  <2>3. h = [i \in 0..(m + 1) |-> Body(h, i)]
    BY <2>2
  <2>. HIDE DEF h, Body
  <2>4. Ok(h, m + 1)
    BY <2>3
  <2>. QED  BY <2>4
<1>3. N \in T
  <2>1. \A m \in Nat : m \in T
    <3>. HIDE DEF T
    <3>. QED  BY <1>1, <1>2, Induction
  <2>2. N \in Nat
    BY <1>0
  <2>. HIDE DEF T
  <2>. QED  BY <2>1, <2>2
<1>4. PICK g : Ok(g, N) /\ Names(p) = g[N]
  <2>. DEFINE F == CHOOSE g : Ok(g, N)
  <2>1. Ok(F, N)
    BY <1>3
  <2>2. Names(p) = F[N]
    BY DEF Names
  <2>. HIDE DEF F, Ok
  <2>. QED  BY <2>1, <2>2
<1>5. g[0] = <<>>
  BY <1>4, <1>0
<1>6. ASSUME NEW i \in 1..N PROVE g[i] = IF a[i] = "/" THEN g[i - 1] ELSE Append(g[i - 1], a[i])
  <2>1. g[i] = Body(g, i)
    <3>. HIDE DEF Body
    <3>. QED  BY <1>4
  <2>2. i # 0
    OBVIOUS
  <2>. HIDE DEF a
  <2>. QED  BY <2>1, <2>2
<1>. HIDE DEF Ok, Body, a, S
<1>. DEFINE U == { i \in Nat : i <= N => g[i] \in Seq(S) }
<1>7. 0 \in U
  <2>1. <<>> \in Seq(S)
    OBVIOUS
  <2>. QED  BY <1>5, <2>1
<1>8. ASSUME NEW i \in Nat, i \in U PROVE i + 1 \in U
  <2>. SUFFICES ASSUME i + 1 <= N PROVE g[i + 1] \in Seq(S)
    OBVIOUS
  <2>1. i + 1 \in 1..N /\ (i + 1) - 1 = i /\ g[i] \in Seq(S)
    BY <1>8, <1>0
  <2>2. g[i + 1] = IF a[i + 1] = "/" THEN g[i] ELSE Append(g[i], a[i + 1])
    BY <2>1, <1>6
  <2>3. a[i + 1] \in S
    BY <2>1, <1>0
  <2>. QED  BY <2>1, <2>2, <2>3
<1>9. \A i \in Nat : i \in U
  <2>. HIDE DEF U
  <2>. QED  BY <1>7, <1>8, Induction
<1>10. g[N] \in Seq(S)
  BY <1>0, <1>9
<1>. QED  BY <1>4, <1>10 DEF S

-----------------------------------------------------------------------------
(* The commands *)

DiskSound(d) == d = [fat |-> d.fat, ext |-> d.ext] /\ FatSound(d.fat) /\ ExtTyped(d.ext)

\* What a call or a command leaves behind: sound volumes, and owned clusters
\* unless it says that it has spoilt the volume of the path.
Kept(d, p, r) ==
  /\ DiskSound(r.d)
  /\ Owned(d.fat) /\ ~(Fs(p) = "fat" /\ r.spoils) => Owned(r.d.fat)

LEMMA OpenSound ==
  ASSUME mounts \in MountTables, NEW d, DiskSound(d), NEW p \in Paths, NEW o, o = vfs_open(d, p)
  PROVE  /\ o.ok => o.size \in Nat /\ Len(vfs_read(d, p, o)) \in Nat
         /\ Fs(p) = "fat" =>
              IF o.ok THEN /\ FatFind(d.fat, Name(p)) # 0
                           /\ o.inode = d.fat.dir[FatFind(d.fat, Name(p))].clus
              ELSE FatFind(d.fat, Name(p)) = 0
<1>1. CASE Fs(p) = "fat"
  <2>. DEFINE s == FatFind(d.fat, Name(p))
  <2>1. o = IF s = 0 THEN None
            ELSE [ok |-> TRUE, inode |-> d.fat.dir[s].clus, size |-> d.fat.dir[s].size, isdir |-> FALSE]
    BY <1>1 DEF vfs_open, fat32_open
  <2>2. s \in FatSlots \cup {0} /\ FatSound(d.fat)
    BY FatFindIs DEF DiskSound
  <2>. HIDE DEF s
  <2>3. CASE s = 0
    <3>1. ~o.ok
      BY <2>1, <2>3 DEF None
    <3>. QED  BY <1>1, <2>3, <3>1 DEF s
  <2>4. CASE s # 0
    <3>1. o = [ok |-> TRUE, inode |-> d.fat.dir[s].clus, size |-> d.fat.dir[s].size, isdir |-> FALSE]
      BY <2>1, <2>4
    <3>2. o.ok /\ o.inode = d.fat.dir[s].clus /\ o.size = d.fat.dir[s].size
      BY <3>1
    <3>3. o.inode \in Marks /\ o.size \in Nat
      BY <2>2, <2>4, <3>2 DEF FatSound, IsSlot, Marks, FREE
    <3>4. Len(vfs_read(d, p, o)) \in Nat
      BY <1>1, <2>2, <3>3, FatReadIs DEF vfs_read
    <3>. QED  BY <2>4, <3>2, <3>3, <3>4 DEF s
  <2>. QED  BY <2>3, <2>4
<1>2. CASE Fs(p) # "fat"
  <2>1. o = ext2_open(d.ext, Names(p)) /\ vfs_read(d, p, o) = ext2_read(d.ext, o) /\ ExtTyped(d.ext)
    BY <1>2 DEF vfs_open, vfs_read, DiskSound
  <2>. QED  BY <1>2, <2>1, NamesTyped, ExtOpenTyped
<1>. QED  BY <1>1, <1>2

LEMMA PutSound ==
  ASSUME NEW d, DiskSound(d), NEW p, NEW x, NEW r, r = Put(d, p, x),
         IF Fs(p) = "fat" THEN FatSound(x.vol) ELSE ExtTyped(x.vol)
  PROVE  /\ DiskSound(r.d) /\ r = [d |-> r.d, ret |-> x.ret, spoils |-> FALSE]
         /\ r.d.fat = IF Fs(p) = "fat" THEN x.vol ELSE d.fat
<1>1. CASE Fs(p) = "fat"
  <2>1. r = [d |-> [d EXCEPT !.fat = x.vol], ret |-> x.ret, spoils |-> FALSE]
    BY <1>1 DEF Put
  <2>2. [d EXCEPT !.fat = x.vol] = [fat |-> x.vol, ext |-> d.ext]
    BY DEF DiskSound
  <2>3. r = [d |-> [fat |-> x.vol, ext |-> d.ext], ret |-> x.ret, spoils |-> FALSE]
    BY <2>1, <2>2
  <2>4. r.d = [fat |-> x.vol, ext |-> d.ext]
    BY <2>3
  <2>. QED  BY <1>1, <2>3, <2>4 DEF DiskSound
<1>2. CASE Fs(p) # "fat"
  <2>1. r = [d |-> [d EXCEPT !.ext = x.vol], ret |-> x.ret, spoils |-> FALSE]
    BY <1>2 DEF Put
  <2>2. [d EXCEPT !.ext = x.vol] = [fat |-> d.fat, ext |-> x.vol]
    BY DEF DiskSound
  <2>3. r = [d |-> [fat |-> d.fat, ext |-> x.vol], ret |-> x.ret, spoils |-> FALSE]
    BY <2>1, <2>2
  <2>4. r.d = [fat |-> d.fat, ext |-> x.vol]
    BY <2>3
  <2>. QED  BY <1>2, <2>3, <2>4 DEF DiskSound
<1>. QED  BY <1>1, <1>2

LEMMA CreateSound ==
  ASSUME mounts \in MountTables, NEW d, DiskSound(d), NEW p \in Paths, ~vfs_open(d, p).ok,
         NEW r, r = vfs_create(d, p)
  PROVE  /\ Kept(d, p, r)
         /\ r.spoils = FALSE
         /\ ~(r.ret < 0) /\ Fs(p) = "fat" => FatFind(r.d.fat, Name(p)) # 0
<1>. DEFINE x == IF Fs(p) = "fat" THEN fat32_create(d.fat, Name(p)) ELSE ext2_create(d.ext, Names(p))
<1>1. r = Put(d, p, x)
  BY DEF vfs_create
<1>2. FatSound(d.fat) /\ ExtTyped(d.ext)
  BY DEF DiskSound
<1>3. CASE Fs(p) = "fat"
  <2>1. x = fat32_create(d.fat, Name(p))
    BY <1>3
  <2>2. FatFind(d.fat, Name(p)) = 0
    BY <1>3, OpenSound
  <2>. HIDE DEF x
  <2>3. /\ FatSound(x.vol) /\ (Owned(d.fat) => Owned(x.vol))
        /\ ~(x.ret < 0) => FatFind(x.vol, Name(p)) # 0
    BY <1>2, <2>1, <2>2, FatCreateSound
  <2>4. DiskSound(r.d) /\ r = [d |-> r.d, ret |-> x.ret, spoils |-> FALSE] /\ r.d.fat = x.vol
    BY <1>1, <1>3, <2>3, PutSound
  <2>5. r.ret = x.ret /\ r.spoils = FALSE
    BY <2>4
  <2>. QED  BY <2>3, <2>4, <2>5 DEF Kept
<1>4. CASE Fs(p) # "fat"
  <2>1. ExtTyped(x.vol)
    BY <1>2, <1>4, NamesTyped, ExtCreateTyped
  <2>. HIDE DEF x
  <2>2. DiskSound(r.d) /\ r.d.fat = d.fat /\ r = [d |-> r.d, ret |-> x.ret, spoils |-> FALSE]
    BY <1>1, <1>4, <2>1, PutSound
  <2>3. r.spoils = FALSE
    BY <2>2
  <2>. QED  BY <1>4, <2>2, <2>3 DEF Kept
<1>. QED  BY <1>3, <1>4

LEMMA UnlinkSound ==
  ASSUME mounts \in MountTables, NEW d, DiskSound(d), NEW p \in Paths, NEW r, r = vfs_unlink(d, p)
  PROVE  DiskSound(r.d) /\ (Owned(d.fat) => Owned(r.d.fat)) /\ r = [d |-> r.d, ret |-> r.ret, spoils |-> FALSE]
<1>. DEFINE x == IF Fs(p) = "fat" THEN fat32_unlink(d.fat, Name(p)) ELSE ext2_unlink(d.ext, Names(p))
<1>1. r = Put(d, p, x)
  BY DEF vfs_unlink
<1>2. FatSound(d.fat) /\ ExtTyped(d.ext)
  BY DEF DiskSound
<1>3. /\ IF Fs(p) = "fat" THEN FatSound(x.vol) ELSE ExtTyped(x.vol)
      /\ Fs(p) = "fat" /\ Owned(d.fat) => Owned(x.vol)
  <2>1. CASE Fs(p) = "fat"
    BY <1>2, <2>1, FatUnlinkSound
  <2>2. CASE Fs(p) # "fat"
    BY <1>2, <2>2, NamesTyped, ExtUnlinkTyped
  <2>. QED  BY <2>1, <2>2
<1>. HIDE DEF x
<1>4. /\ DiskSound(r.d) /\ r = [d |-> r.d, ret |-> x.ret, spoils |-> FALSE]
      /\ r.d.fat = IF Fs(p) = "fat" THEN x.vol ELSE d.fat
  BY <1>1, <1>3, PutSound
<1>5. r.ret = x.ret
  BY <1>4
<1>. QED  BY <1>3, <1>4, <1>5

LEMMA FilledSound ==
  ASSUME mounts \in MountTables, NEW d, DiskSound(d), NEW p \in Paths, NEW v, Len(v) \in Nat, NEW cut,
         Fs(p) = "fat" => FatFind(d.fat, Name(p)) # 0,
         NEW r, r = Filled(d, p, vfs_open(d, p), v, cut)
  PROVE  Kept(d, p, r)
<1>. DEFINE node == vfs_open(d, p)
            x == IF Fs(p) = "fat" THEN fat32_write(d.fat, Name(p), node, v, cut) ELSE ext2_write(d.ext, node, v)
            w == vfs_write(d, p, node, v, cut)
<1>1. w = Put(d, p, x) /\ r = [w EXCEPT !.spoils = Spoils(d, p, node, w.ret)]
  BY DEF vfs_write, Filled, Judged
<1>2. FatSound(d.fat) /\ ExtTyped(d.ext)
  BY DEF DiskSound
<1>3. Fs(p) = "fat" => node.inode = d.fat.dir[FatFind(d.fat, Name(p))].clus
  BY OpenSound
<1>. HIDE DEF node, w
<1>4. /\ IF Fs(p) = "fat" THEN FatSound(x.vol) ELSE ExtTyped(x.vol)
      /\ Fs(p) = "fat" /\ Owned(d.fat) /\ x.ret # -4 => Owned(x.vol)
  <2>1. CASE Fs(p) = "fat"
    BY <1>2, <1>3, <2>1, FatWriteSound
  <2>2. CASE Fs(p) # "fat"
    BY <1>2, <2>2, ExtWriteTyped
  <2>. QED  BY <2>1, <2>2
<1>. HIDE DEF x
<1>5. /\ DiskSound(w.d) /\ w = [d |-> w.d, ret |-> x.ret, spoils |-> FALSE]
      /\ w.d.fat = IF Fs(p) = "fat" THEN x.vol ELSE d.fat
  BY <1>1, <1>4, PutSound
<1>6. w.ret = x.ret /\ r = [d |-> w.d, ret |-> x.ret, spoils |-> Spoils(d, p, node, x.ret)]
  <2>1. w.ret = x.ret
    BY <1>5
  <2>. QED  BY <1>1, <1>5, <2>1
<1>7. r.d = w.d /\ r.spoils = Spoils(d, p, node, x.ret)
  BY <1>6
<1>8. x.ret = -4 => r.spoils
  BY <1>7 DEF Spoils
<1>. QED  BY <1>4, <1>5, <1>7, <1>8 DEF Kept

LEMMA StoreSound ==
  ASSUME mounts \in MountTables, NEW d, DiskSound(d), NEW p \in Paths, NEW v, Len(v) \in Nat, NEW cut, NEW skip,
         NEW r, r = Store(d, p, v, cut, skip)
  PROVE  Kept(d, p, r)
<1>. DEFINE ok   == vfs_open(d, p).ok
            made == IF ok THEN [d |-> d, ret |-> 0, spoils |-> FALSE] ELSE vfs_create(d, p)
<1>1. r = IF made.ret < 0 \/ skip THEN made ELSE Filled(made.d, p, vfs_open(made.d, p), v, cut)
  BY DEF Store, Into
<1>2. /\ Kept(d, p, made) /\ made.spoils = FALSE
      /\ ~(made.ret < 0) /\ Fs(p) = "fat" => FatFind(made.d.fat, Name(p)) # 0
  <2>1. CASE ok
    <3>1. made = [d |-> d, ret |-> 0, spoils |-> FALSE]
      BY <2>1
    <3>. HIDE DEF made
    <3>2. made.d = d /\ made.spoils = FALSE
      BY <3>1
    <3>3. Fs(p) = "fat" => FatFind(d.fat, Name(p)) # 0
      BY <2>1, OpenSound
    <3>. QED  BY <3>2, <3>3 DEF Kept
  <2>2. CASE ~ok
    <3>1. made = vfs_create(d, p)
      BY <2>2
    <3>. HIDE DEF made
    <3>2. Kept(d, p, made) /\ made.spoils = FALSE
         /\ (~(made.ret < 0) /\ Fs(p) = "fat" => FatFind(made.d.fat, Name(p)) # 0)
      BY <2>2, <3>1, CreateSound
    <3>. QED  BY <3>2
  <2>. QED  BY <2>1, <2>2
<1>. HIDE DEF made
<1>3. CASE made.ret < 0 \/ skip
  <2>1. r = made
    BY <1>1, <1>3
  <2>. QED  BY <1>2, <2>1
<1>4. CASE ~(made.ret < 0 \/ skip)
  <2>. DEFINE e == made.d
  <2>1. r = Filled(e, p, vfs_open(e, p), v, cut)
    BY <1>1, <1>4
  <2>2. DiskSound(e) /\ (Owned(d.fat) => Owned(e.fat)) /\ (Fs(p) = "fat" => FatFind(e.fat, Name(p)) # 0)
    BY <1>2, <1>4 DEF Kept
  <2>. HIDE DEF e
  <2>3. Kept(e, p, r)
    BY <2>1, <2>2, FilledSound
  <2>. QED  BY <2>2, <2>3 DEF Kept
<1>. QED  BY <1>3, <1>4

-----------------------------------------------------------------------------
(* The inductive invariant *)

VolumesInv ==
  /\ mounts \in MountTables
  /\ FatSound(fat) /\ ExtTyped(ext)
  /\ "fat" \notin spoilt => Owned(fat)

LEMMA DoneSound ==
  ASSUME VolumesInv, NEW paths, NEW p, p = paths[1], NEW r, Kept(Disk, p, r), NEW cut, Done(paths, r, cut)
  PROVE  VolumesInv'
<1>1. Disk.fat = fat /\ mounts' = mounts /\ fat' = r.d.fat /\ ext' = r.d.ext
  BY DEF Disk, Done
<1>2. FatSound(r.d.fat) /\ ExtTyped(r.d.ext)
  BY DEF Kept, DiskSound
<1>3. ASSUME "fat" \notin spoilt' PROVE Owned(r.d.fat)
  <2>1. spoilt' = IF r.spoils THEN spoilt \cup {Fs(p)} ELSE spoilt
    BY DEF Done
  <2>2. "fat" \notin spoilt /\ ~(Fs(p) = "fat" /\ r.spoils)
    BY <1>3, <2>1
  <2>. QED  BY <1>1, <2>2 DEF VolumesInv, Kept
<1>. QED  BY <1>1, <1>2, <1>3 DEF VolumesInv

LEMMA InvDisk ==
  ASSUME VolumesInv
  PROVE  mounts \in MountTables /\ DiskSound(Disk)
<1>1. Disk = [fat |-> fat, ext |-> ext] /\ Disk.fat = fat /\ Disk.ext = ext
  BY DEF Disk
<1>. QED  BY <1>1 DEF VolumesInv, DiskSound

LEMMA SourceSound ==
  ASSUME VolumesInv, NEW s \in Paths, IsFile(s)
  PROVE  Len(Source(s)) \in Nat
<1>. DEFINE o == vfs_open(Disk, s)
<1>1. o.ok /\ Source(s) = vfs_read(Disk, s, o)
  BY DEF IsFile, Source
<1>. HIDE DEF o
<1>2. mounts \in MountTables /\ DiskSound(Disk)
  BY InvDisk
<1>. QED  BY <1>1, <1>2, OpenSound DEF o

LEMMA VolumesStep ==
  ASSUME VolumesInv, [VolumesNext]_volumesVars
  PROVE  VolumesInv'
<1>0. mounts \in MountTables /\ DiskSound(Disk)
  BY InvDisk
<1>1. ASSUME NEW p \in Paths, NEW v \in Values, cmd_write(p, v) PROVE VolumesInv'
  <2>1. PICK cut : Done(<<p>>, Store(Disk, p, v, cut, FALSE), cut)
    BY <1>1 DEF cmd_write
  <2>2. Len(v) \in Nat
    BY VolumesAssumption, LenProperties
  <2>3. Kept(Disk, p, Store(Disk, p, v, cut, FALSE))
    BY <1>0, <2>2, StoreSound
  <2>. QED  BY <2>1, <2>3, DoneSound
<1>2. ASSUME NEW p \in Paths, cmd_delete(p) PROVE VolumesInv'
  <2>1. Done(<<p>>, vfs_unlink(Disk, p), 0)
    BY <1>2 DEF cmd_delete
  <2>2. Kept(Disk, p, vfs_unlink(Disk, p))
    BY <1>0, UnlinkSound DEF Kept
  <2>. QED  BY <2>1, <2>2, DoneSound
<1>3. ASSUME NEW s \in Paths, NEW p \in Paths, NEW cut, IsFile(s)
      PROVE  Kept(Disk, p, Copied(s, p, Source(s), cut))
  <2>1. Len(Source(s)) \in Nat
    BY <1>3, SourceSound
  <2>. QED  BY <1>0, <2>1, StoreSound DEF Copied
<1>4. ASSUME NEW s \in Paths, NEW p \in Paths, cmd_copy(s, p) PROVE VolumesInv'
  <2>1. PICK cut : Done(<<p, s>>, Copied(s, p, Source(s), cut), cut)
    BY <1>4 DEF cmd_copy
  <2>2. Kept(Disk, p, Copied(s, p, Source(s), cut))
    BY <1>3, <1>4 DEF cmd_copy
  <2>3. <<p, s>>[1] = p
    OBVIOUS
  <2>. QED  BY <2>1, <2>2, <2>3, DoneSound
<1>5. ASSUME NEW s \in Paths, NEW p \in Paths, cmd_move(s, p) PROVE VolumesInv'
  <2>1. PICK cut : Done(<<p, s>>, Removed(Copied(s, p, Source(s), cut), s), cut)
    BY <1>5 DEF cmd_move
  <2>. DEFINE r == Copied(s, p, Source(s), cut)
              u == vfs_unlink(r.d, s)
  <2>2. Kept(Disk, p, r)
    BY <1>3, <1>5 DEF cmd_move
  <2>3. Done(<<p, s>>, Removed(r, s), cut)
    BY <2>1
  <2>. HIDE DEF r
  <2>4. Kept(Disk, p, Removed(r, s))
    <3>1. CASE r.ret < 0
      BY <2>2, <3>1 DEF Removed
    <3>2. CASE ~(r.ret < 0)
      <4>1. /\ DiskSound(u.d) /\ (Owned(r.d.fat) => Owned(u.d.fat))
            /\ u = [d |-> u.d, ret |-> u.ret, spoils |-> FALSE]
        BY <1>0, <2>2, UnlinkSound DEF Kept
      <4>2. Removed(r, s) = [u EXCEPT !.spoils = r.spoils]
        BY <3>2 DEF Removed
      <4>. HIDE DEF u
      <4>3. Removed(r, s) = [d |-> u.d, ret |-> u.ret, spoils |-> r.spoils]
        BY <4>1, <4>2
      <4>4. Removed(r, s).d = u.d /\ Removed(r, s).spoils = r.spoils
        BY <4>3
      <4>. QED  BY <2>2, <4>1, <4>4 DEF Kept
    <3>. QED  BY <3>1, <3>2
  <2>5. <<p, s>>[1] = p
    OBVIOUS
  <2>. QED  BY <2>3, <2>4, <2>5, DoneSound
<1>6. CASE UNCHANGED volumesVars
  BY <1>6 DEF VolumesInv, volumesVars
<1>. QED  BY <1>1, <1>2, <1>4, <1>5, <1>6 DEF VolumesNext

LEMMA VolumesInvariance == VolumesSpec => []VolumesInv
<1>1. VolumesInit => VolumesInv
  BY EmptyFatSound, EmptyExtTyped DEF VolumesInit, VolumesInv
<1>2. VolumesInv /\ [VolumesNext]_volumesVars => VolumesInv'
  BY VolumesStep
<1>. QED  BY <1>1, <1>2, PTL DEF VolumesSpec

(* Chains end: in every reachable state the walk of fat_free_chain,        *)
(* total_dir_slots and fat32_read over a file's clusters stops, whatever   *)
(* the disk, the I/O errors and the commands were.                         *)
THEOREM AlwaysChainsEnd == VolumesSpec => []ChainsEnd
<1>1. VolumesInv => ChainsEnd
  <2>. SUFFICES ASSUME VolumesInv, NEW s \in FatFiles PROVE Ends(fat.table, fat.dir[s].clus)
    BY DEF ChainsEnd
  <2>1. fat.dir[s].clus \in Marks /\ fat.table \in FatTables /\ NoLoop(fat.table)
    BY DEF VolumesInv, FatSound, FatFiles, IsSlot, Marks, FREE
  <2>. QED  BY <2>1, NoLoopEnds
<1>. QED  BY <1>1, VolumesInvariance, PTL

(* Chains end, and until an I/O error strikes in the middle of a write,    *)
(* every cluster of a FAT file is marked and is that file's alone, and no  *)
(* two files have one name.                                                *)
THEOREM AlwaysFatConsistent == VolumesSpec => []FatConsistent
<1>1. ASSUME VolumesInv, ChainsEnd PROVE FatConsistent
  <2>. SUFFICES ASSUME "fat" \notin spoilt, NEW s \in FatFiles
                PROVE  /\ \A c \in FatChain(s) : fat.table[c] # FREE
                       /\ \A t \in FatFiles : s # t => /\ FatChain(s) \cap FatChain(t) = {}
                                                       /\ fat.dir[s].name # fat.dir[t].name
    BY <1>1 DEF FatConsistent
  <2>1. FatSound(fat) /\ Owned(fat)
    BY <1>1 DEF VolumesInv
  <2>2. s \in FatSlots /\ fat.dir[s].st = "file"
    BY DEF FatFiles
  <2>3. ASSUME NEW c \in FatChain(s)
        PROVE  /\ fat.table[c] # FREE
               /\ \A t \in FatSlots : fat.dir[t].st = "file" /\ t # s => c \notin FatChain(t)
    BY <2>1, <2>2, OwnedApart DEF FatChain
  <2>4. ASSUME NEW t \in FatFiles, s # t PROVE fat.dir[s].name # fat.dir[t].name
    <3>1. t \in FatSlots /\ fat.dir[t].st = "file" /\ Listed(fat.dir)
      BY <2>1 DEF FatFiles, FatSound
    <3>2. s < t \/ t < s
      BY <2>2, <2>4, <3>1, MarkIs DEF FatSlots
    <3>. QED  BY <2>2, <3>1, <3>2 DEF Listed
  <2>. QED  BY <2>3, <2>4 DEF FatFiles
<1>2. VolumesInv /\ ChainsEnd => FatConsistent
  BY <1>1
<1>. QED  BY <1>2, VolumesInvariance, AlwaysChainsEnd, PTL
=============================================================================
