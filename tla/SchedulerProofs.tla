-------------------------- MODULE SchedulerProofs --------------------------
(***************************************************************************)
(* What Scheduler guarantees for every table size, quantum, word size and  *)
(* build, and however the timer is wired.                                  *)
(***************************************************************************)
EXTENDS Scheduler, TLAPS

(* The boot thread is only ever outside the file or inside proc_create. *)
BootThreadPoint == pc[0] \in {"body", "create"}

(* proc_create runs on the boot thread only, and never fills slot 0. *)
CreatingSlot ==
  /\ \A s \in Slots : pc[s] = "create" => s = 0
  /\ pc[0] = "create" => newslot # 0

(* While another thread has the processor, the boot thread's context is saved. *)
BootStackSaved == current_idx # 0 => esp[0] = "saved"

(* Pids are issued in increasing order. *)
PidsIssued == \A s \in Slots : pid[s] < next_pid

(* The thread on the processor has a stack; the boot thread's is the boot stack. *)
RunningHasStack ==
  cpu = "up" /\ esp[current_idx] = "null" => current_idx = 0

(* A dead thread still on the processor is at the end of proc_exit. *)
DeadIsLeaving ==
  state[current_idx] = "DEAD" => pc[current_idx] \in {"exit_yield", "halt"}

(***************************************************************************)
(* The inductive invariant.  BootThreadRunnable needs BootThreadPoint,     *)
(* which keeps slot 0 out of proc_sleep and proc_exit; OneRunning and      *)
(* NullStackOnlyWhileCreating need both to know who is switched to.        *)
(***************************************************************************)
IInv ==
  /\ TypeOK
  /\ OneRunning
  /\ BootThreadRunnable
  /\ BootThreadPoint
  /\ BootStackSaved
  /\ CreatingSlot
  /\ PidsIssued
  /\ PidsUnique
  /\ RunningHasStack
  /\ NullStackOnlyWhileCreating
  /\ DeadIsLeaving

(* Slot 0 is a slot, and remainders of counters are counters. *)
LEMMA SlotFacts ==
  /\ 0 \in Slots
  /\ Slots \subseteq Int
  /\ \A n \in Nat : n % Word \in Nat
BY SchedulerAssumption, SMT DEF Slots

(* Below its bound next_pid does not wrap. *)
LEMMA NextPid ==
  ASSUME next_pid \in Nat, next_pid <= MaxPid
  PROVE  (next_pid + 1) % Word = next_pid + 1
<1>1. next_pid + 1 \in Nat /\ Word \in Nat /\ next_pid + 1 < Word
  BY SchedulerAssumption
<1>2. \A a, b \in Nat : a < b => a % b = a
  BY SMT
<1> QED
  BY <1>1, <1>2

(***************************************************************************)
(* find_next_ready: called on the woken table while another slot than the  *)
(* current one is chosen, it chooses a READY slot: the fallback to slot 0  *)
(* is taken only when slot 0 is the current slot.                          *)
(***************************************************************************)
LEMMA NextIsReady ==
  ASSUME TypeOK, BootThreadRunnable,
         NEW now, NEW s \in Slots \ {current_idx},
         FindNextReady(Woken(now), s)
  PROVE  Woken(now)[s] = "READY" /\ state[s] \in {"READY", "SLEEPING"}
<1>1. CASE Woken(now)[s] = "READY"
  BY <1>1 DEF Woken, TypeOK, States
<1>2. CASE s = 0 /\ \A r \in Slots : Woken(now)[r] # "READY"
  <2>1. state[0] = "READY"
    BY <1>2 DEF BootThreadRunnable
  <2>2. Woken(now)[0] = "READY"
    BY <2>1, SlotFacts DEF Woken
  <2> QED
    BY <1>2, <2>2, SlotFacts
<1> QED
  BY <1>1, <1>2 DEF FindNextReady

(* Waking sleepers changes SLEEPING into READY and nothing else. *)
LEMMA WokenFacts ==
  ASSUME TypeOK, NEW now
  PROVE  /\ Woken(now) \in [Slots -> States]
         /\ \A s \in Slots : \/ Woken(now)[s] = state[s]
                             \/ state[s] = "SLEEPING" /\ Woken(now)[s] = "READY"
BY DEF Woken, TypeOK, States

LEMMA InitIInv == Init => IInv
BY SlotFacts, SchedulerAssumption
DEF Init, IInv, TypeOK, OneRunning, BootThreadRunnable, BootThreadPoint,
    BootStackSaved, CreatingSlot, PidsIssued, PidsUnique, RunningHasStack, NullStackOnlyWhileCreating,
    DeadIsLeaving, States, Stacks, Points

(***************************************************************************)
(* A switch, with the table the tick has woken and the slot it has chosen. *)
(***************************************************************************)
LEMMA SwitchPreserves ==
  ASSUME IInv, NEW now \in Nat, NEW next \in Slots \ {current_idx},
         FindNextReady(Woken(now), next), Switch(Woken(now), next),
         cpu = "up", ticks' \in [Slots -> Nat], tick' \in Nat,
         UNCHANGED <<pid, sleep_until, next_pid, newslot>>
  PROVE  IInv'
<1> DEFINE st == Woken(now)
<1> USE SlotFacts DEF IInv
<1>1. st[next] = "READY"
  BY NextIsReady
<1>2. st \in [Slots -> States] /\ current_idx \in Slots
  BY WokenFacts DEF TypeOK
<1>3. /\ state' \in [Slots -> States]
      /\ state'[next] = "RUNNING"
      /\ state'[current_idx] =
           IF st[current_idx] = "RUNNING" THEN "READY" ELSE st[current_idx]
      /\ \A s \in Slots \ {next, current_idx} : state'[s] = st[s]
      /\ esp' = [esp EXCEPT ![current_idx] = "saved"]
      /\ current_idx' = next
  BY <1>2 DEF Switch, States
<1>4. /\ esp[next] = "null" => cpu' = "fault"
      /\ cpu' \in {"up", "fault"} /\ iflag' \in BOOLEAN
      /\ pc' \in [Slots -> Points]
      /\ \A s \in Slots \ {next} : pc'[s] = pc[s]
      /\ esp[next] = "saved" => pc' = pc
  BY DEF Switch, Resume, TypeOK, Points
<1> HIDE DEF st
<1>5. TypeOK'
  BY <1>3, <1>4 DEF TypeOK, Stacks
<1>6. OneRunning'
  <2> SUFFICES ASSUME NEW s \in Slots, s # next PROVE state'[s] # "RUNNING"
    BY <1>3 DEF OneRunning
  <2>1. CASE s = current_idx
    BY <2>1, <1>3
  <2>2. CASE s # current_idx
    <3>1. state[s] # "RUNNING"
      BY <2>2 DEF OneRunning
    <3> QED
      BY <3>1, <2>2, <1>3, WokenFacts DEF st
  <2> QED
    BY <2>1, <2>2
<1>7. BootThreadRunnable'
  <2>1. CASE next = 0
    BY <2>1, <1>3 DEF BootThreadRunnable
  <2>2. CASE next # 0 /\ current_idx = 0
    <3>1. st[0] = "RUNNING"
      BY <2>2, WokenFacts DEF BootThreadRunnable, st
    <3> QED
      BY <3>1, <2>2, <1>3 DEF BootThreadRunnable
  <2>3. CASE next # 0 /\ current_idx # 0
    <3>1. st[0] = "READY"
      BY <2>3, WokenFacts DEF BootThreadRunnable, st
    <3> QED
      BY <3>1, <2>3, <1>3 DEF BootThreadRunnable
  <2> QED
    BY <2>1, <2>2, <2>3
<1>8. pc'[0] = pc[0]
  <2>1. CASE next = 0
    <3>1. esp[0] = "saved"
      BY <2>1 DEF BootStackSaved
    <3> QED
      BY <3>1, <2>1, <1>4
  <2>2. CASE next # 0
    BY <2>2, <1>4
  <2> QED
    BY <2>1, <2>2
<1>9. BootThreadPoint' /\ BootStackSaved' /\ CreatingSlot'
  <2>1. BootThreadPoint'
    BY <1>8 DEF BootThreadPoint
  <2>2. BootStackSaved'
    BY <1>2, <1>3 DEF BootStackSaved, TypeOK
  <2>3. pc'[next] = "create" => next = 0
    BY <1>8, <1>2 DEF CreatingSlot, Switch, Resume, TypeOK
  <2>4. CreatingSlot'
    BY <1>4, <1>8, <2>3 DEF CreatingSlot
  <2> QED
    BY <2>1, <2>2, <2>4
<1>10. PidsIssued' /\ PidsUnique'
  BY DEF PidsIssued, PidsUnique
<1>11. RunningHasStack'
  BY <1>2, <1>3, <1>4 DEF RunningHasStack, TypeOK
<1>12. NullStackOnlyWhileCreating'
  <2> SUFFICES ASSUME NEW s \in Slots, state'[s] # "DEAD", esp'[s] = "null"
               PROVE  s = newslot' /\ pc'[0] = "create"
    BY DEF NullStackOnlyWhileCreating
  <2>1. s # current_idx /\ esp[s] = "null"
    BY <1>2, <1>3 DEF TypeOK
  <2>2. state[s] # "DEAD"
    BY <2>1, <1>1, <1>3, WokenFacts, NextIsReady DEF st
  <2>3. s = newslot /\ pc[0] = "create"
    BY <2>1, <2>2 DEF NullStackOnlyWhileCreating
  <2> QED
    BY <2>3, <1>8
<1>13. DeadIsLeaving'
  BY <1>3 DEF DeadIsLeaving
<1> QED
  BY <1>5, <1>6, <1>7, <1>9, <1>10, <1>11, <1>12, <1>13

(***************************************************************************)
(* A tick: the pit handler alone, a tick that leaves the thread on the     *)
(* processor, or a switch.                                                 *)
(***************************************************************************)
LEMMA KeepRunningPreserves ==
  ASSUME IInv, NEW now, KeepRunning(Woken(now)),
         ticks' \in [Slots -> Nat], tick' \in Nat,
         UNCHANGED <<pid, sleep_until, next_pid, newslot>>
  PROVE  IInv'
<1> USE SlotFacts DEF IInv, KeepRunning
<1>1. \A s \in Slots : \/ state'[s] = state[s]
                       \/ state[s] = "SLEEPING" /\ state'[s] = "READY"
  BY WokenFacts
<1>2. TypeOK'
  BY WokenFacts DEF TypeOK
<1>3. OneRunning'
  BY <1>1 DEF OneRunning
<1>4. BootThreadRunnable'
  BY <1>1 DEF BootThreadRunnable
<1>5. BootThreadPoint' /\ BootStackSaved' /\ CreatingSlot'
  BY DEF BootThreadPoint, BootStackSaved, CreatingSlot
<1>6. PidsIssued' /\ PidsUnique' /\ RunningHasStack'
  BY DEF PidsIssued, PidsUnique, RunningHasStack
<1>7. NullStackOnlyWhileCreating'
  BY <1>1 DEF NullStackOnlyWhileCreating
<1>8. DeadIsLeaving'
  BY <1>1 DEF TypeOK, DeadIsLeaving
<1> QED
  BY <1>2, <1>3, <1>4, <1>5, <1>6, <1>7, <1>8

LEMMA Irq0Preserves == IInv /\ Irq0 => IInv'
<1> SUFFICES ASSUME IInv, Irq0 PROVE IInv'
  OBVIOUS
<1> USE SlotFacts DEF IInv
<1>1. tick' \in Nat /\ cpu = "up"
  BY DEF Irq0, TypeOK
<1>2. CASE ~SchedHooked
  BY <1>1, <1>2
  DEF Irq0, TypeOK, OneRunning, BootThreadRunnable, BootThreadPoint,
      BootStackSaved, CreatingSlot, PidsIssued, PidsUnique, RunningHasStack,
      NullStackOnlyWhileCreating, DeadIsLeaving
<1>3. CASE SchedHooked
  <2>1. sched_tick(tick')
    BY <1>3 DEF Irq0
  <2>2. /\ ticks' \in [Slots -> Nat]
        /\ UNCHANGED <<pid, sleep_until, next_pid, newslot>>
    <3>1. (ticks[current_idx] + 1) % Word \in Nat
      BY DEF TypeOK
    <3> QED
      BY <2>1, <3>1 DEF sched_tick, TypeOK
  <2>3. CASE KeepRunning(Woken(tick'))
    BY <1>1, <2>2, <2>3, KeepRunningPreserves
  <2>4. CASE \E next \in Slots \ {current_idx} :
               FindNextReady(Woken(tick'), next) /\ Switch(Woken(tick'), next)
    BY <1>1, <2>2, <2>4, SwitchPreserves
  <2> QED
    BY <2>1, <2>3, <2>4 DEF sched_tick
<1> QED
  BY <1>2, <1>3

(***************************************************************************)
(* The steps of the running thread.                                        *)
(***************************************************************************)
LEMMA CreatePreserves == IInv /\ CreateStep => IInv'
<1> SUFFICES ASSUME IInv, CreateStep PROVE IInv'
  OBVIOUS
<1> USE SlotFacts DEF IInv, At, Goto
<1>1. CASE ProcCreateReserve
  <2>0. next_pid' = next_pid + 1
    BY <1>1, NextPid DEF ProcCreateReserve, TakePid, TypeOK
  <2> USE <1>1, <2>0 DEF TakePid, ProcCreateReserve
  <2>1. PICK s \in Slots : 
          /\ FirstDead(s)
          /\ newslot' = s
          /\ pid' = [pid EXCEPT ![s] = next_pid]
          /\ state' = [state EXCEPT ![s] = "READY"]
          /\ ticks' = [ticks EXCEPT ![s] = 0]
          /\ sleep_until' = [sleep_until EXCEPT ![s] = 0]
          /\ esp' = [esp EXCEPT ![s] = "null"]
          /\ pc' = [pc EXCEPT ![s] = "unborn", ![0] = "create"]
    OBVIOUS
  <2>2. s # 0 /\ s # current_idx
    BY <2>1 DEF FirstDead
  <2>3. TypeOK'
    BY <2>1, <2>2 DEF TypeOK, States, Stacks, Points
  <2>4. OneRunning' /\ BootThreadRunnable' /\ BootThreadPoint'
    BY <2>1, <2>2 DEF TypeOK, OneRunning, BootThreadRunnable, BootThreadPoint
  <2>5. BootStackSaved' /\ CreatingSlot'
    BY <2>1, <2>2 DEF TypeOK, BootStackSaved, CreatingSlot
  <2>6. PidsIssued' /\ PidsUnique'
    BY <2>1, <2>2 DEF TypeOK, PidsIssued, PidsUnique
  <2>7. RunningHasStack' /\ NullStackOnlyWhileCreating'
    BY <2>1, <2>2
    DEF TypeOK, RunningHasStack, NullStackOnlyWhileCreating, BootThreadPoint
  <2>8. DeadIsLeaving'
    BY <2>1, <2>2 DEF TypeOK, BootThreadRunnable, DeadIsLeaving
  <2> QED
    BY <2>3, <2>4, <2>5, <2>6, <2>7, <2>8
<1>2. CASE ProcCreateFinish
  <2> USE <1>2 DEF ProcCreateFinish
  <2>1. current_idx = 0
    BY DEF TypeOK, CreatingSlot
  <2>2. TypeOK'
    BY DEF TypeOK, Stacks, Points
  <2>3. OneRunning' /\ BootThreadRunnable' /\ BootThreadPoint' /\ CreatingSlot'
    BY <2>1 DEF TypeOK, OneRunning, BootThreadRunnable, BootThreadPoint,
                CreatingSlot
  <2>4. BootStackSaved' /\ PidsIssued' /\ PidsUnique'
    BY <2>1 DEF TypeOK, BootStackSaved, PidsIssued, PidsUnique
  <2>5. RunningHasStack' /\ NullStackOnlyWhileCreating'
    BY <2>1 DEF TypeOK, RunningHasStack, NullStackOnlyWhileCreating, Stacks
  <2>6. DeadIsLeaving'
    BY <2>1 DEF TypeOK, BootThreadRunnable, DeadIsLeaving
  <2> QED
    BY <2>2, <2>3, <2>4, <2>5, <2>6
<1> QED
  BY <1>1, <1>2 DEF CreateStep

LEMMA KillPreserves ==
  ASSUME IInv, NEW p, ProcKill(p)
  PROVE  IInv'
<1> USE SlotFacts DEF IInv, At, ProcKill
<1>1. PICK s \in Slots : FirstWithPid(s, p) /\ state' = [state EXCEPT ![s] = "DEAD"]
  OBVIOUS
<1>2. s # 0
  BY <1>1 DEF FirstWithPid
<1>3. TypeOK'
  BY <1>1 DEF TypeOK, States
<1>4. OneRunning' /\ BootThreadRunnable' /\ NullStackOnlyWhileCreating'
  BY <1>1, <1>2
  DEF TypeOK, OneRunning, BootThreadRunnable, NullStackOnlyWhileCreating
<1>5. /\ BootThreadPoint' /\ BootStackSaved' /\ CreatingSlot'
      /\ PidsIssued' /\ PidsUnique' /\ RunningHasStack'
  BY DEF BootThreadPoint, BootStackSaved, CreatingSlot, PidsIssued, PidsUnique,
         RunningHasStack
<1>6. DeadIsLeaving'
  BY <1>1, <1>2 DEF TypeOK, BootThreadRunnable, DeadIsLeaving
<1> QED
  BY <1>3, <1>4, <1>5, <1>6

(***************************************************************************)
(* proc_sleep and proc_exit change the state of the current slot only, and *)
(* are not run by the boot thread.                                         *)
(***************************************************************************)
LEMMA OwnSlotPreserves ==
  ASSUME IInv, cpu = "up", current_idx # 0,
         NEW p \in Points \ {"create"}, pc' = [pc EXCEPT ![current_idx] = p],
         NEW st \in {"SLEEPING", "DEAD"},
         \/ state' = state
         \/ state' = [state EXCEPT ![current_idx] = st],
         state'[current_idx] = "DEAD" => p \in {"exit_yield", "halt"},
         ticks' \in [Slots -> Nat], sleep_until' \in [Slots -> Nat],
         iflag' \in BOOLEAN,
         UNCHANGED <<pid, esp, current_idx, next_pid, newslot, tick, cpu>>
  PROVE  IInv'
<1> USE SlotFacts DEF IInv
<1>1. TypeOK'
  BY DEF TypeOK, States, Points
<1>2. OneRunning' /\ BootThreadRunnable'
  BY DEF TypeOK, OneRunning, BootThreadRunnable
<1>3. BootThreadPoint' /\ BootStackSaved' /\ CreatingSlot'
  BY DEF TypeOK, BootThreadPoint, BootStackSaved, CreatingSlot
<1>4. PidsIssued' /\ PidsUnique' /\ RunningHasStack'
  BY DEF TypeOK, PidsIssued, PidsUnique, RunningHasStack
<1>5. NullStackOnlyWhileCreating'
  BY DEF TypeOK, NullStackOnlyWhileCreating, RunningHasStack
<1>6. DeadIsLeaving'
  BY DEF TypeOK, DeadIsLeaving
<1> QED
  BY <1>1, <1>2, <1>3, <1>4, <1>5, <1>6

LEMMA ThreadPreserves == IInv /\ (EntryStart \/ SleepStep \/ ExitStep) => IInv'
<1> SUFFICES ASSUME IInv, EntryStart \/ SleepStep \/ ExitStep PROVE IInv'
  OBVIOUS
<1> USE SlotFacts DEF At, Goto
<1>1. /\ current_idx \in Slots /\ tick \in Nat /\ iflag \in BOOLEAN
      /\ ticks \in [Slots -> Nat] /\ sleep_until \in [Slots -> Nat]
      /\ pc[0] \in {"body", "create"}
      /\ state \in [Slots -> States]
      /\ state[current_idx] = "DEAD" => pc[current_idx] \in {"exit_yield", "halt"}
  BY DEF IInv, TypeOK, BootThreadPoint, DeadIsLeaving
<1>2. Quantum - 1 \in Nat
  BY SchedulerAssumption
<1>3. CASE EntryStart
  BY <1>1, <1>3, OwnSlotPreserves DEF EntryStart, Points
<1>4. CASE SleepStep
  <2>1. CASE ProcSleepMark
    BY <1>1, <2>1, OwnSlotPreserves DEF ProcSleepMark, Points
  <2>2. CASE \E ms \in SleepMs : ProcSleepDeadline(ms)
    <3>1. PICK ms \in SleepMs : ProcSleepDeadline(ms)
      BY <2>2
    <3>2. (tick + ms) % Word \in Nat
      BY <1>1, SchedulerAssumption
    <3>3. sleep_until' \in [Slots -> Nat]
      BY <1>1, <3>1, <3>2 DEF ProcSleepDeadline
    <3> QED
      BY <1>1, <3>1, <3>3, OwnSlotPreserves DEF ProcSleepDeadline, Points
  <2>3. CASE ProcSleepYield
    <3>1. ticks' \in [Slots -> Nat]
      BY <1>1, <1>2, <2>3 DEF ProcSleepYield, proc_yield
    <3> QED
      BY <1>1, <2>3, <3>1, OwnSlotPreserves DEF ProcSleepYield, Points
  <2>4. CASE ProcSleepReturn
    BY <1>1, <2>4, OwnSlotPreserves DEF ProcSleepReturn, Points
  <2> QED
    BY <1>4, <2>1, <2>2, <2>3, <2>4 DEF SleepStep
<1>5. CASE ExitStep
  <2>1. CASE EntryReturn
    BY <1>1, <2>1, OwnSlotPreserves DEF EntryReturn, Points
  <2>2. CASE SysExit
    BY <1>1, <2>2, OwnSlotPreserves DEF SysExit, Points
  <2>3. CASE ProcExitDead
    BY <1>1, <2>3, OwnSlotPreserves DEF ProcExitDead, Points
  <2>4. CASE ProcExitYield
    <3>1. ticks' \in [Slots -> Nat]
      BY <1>1, <1>2, <2>4 DEF ProcExitYield, proc_yield
    <3> QED
      BY <1>1, <2>4, <3>1, OwnSlotPreserves DEF ProcExitYield, Points
  <2> QED
    BY <1>5, <2>1, <2>2, <2>3, <2>4 DEF ExitStep
<1> QED
  BY <1>3, <1>4, <1>5

LEMMA StepPreserves == IInv /\ [Next]_vars => IInv'
<1> SUFFICES ASSUME IInv, [Next]_vars PROVE IInv'
  OBVIOUS
<1>1. CASE UNCHANGED vars
  BY <1>1
  DEF vars, IInv, TypeOK, OneRunning, BootThreadRunnable, BootThreadPoint,
      BootStackSaved, CreatingSlot, PidsIssued, PidsUnique, RunningHasStack,
      NullStackOnlyWhileCreating, DeadIsLeaving
<1>2. CASE \E p \in 0 .. MaxPid : ProcKill(p)
  BY <1>2, KillPreserves
<1> QED
  BY <1>1, <1>2, CreatePreserves, ThreadPreserves, Irq0Preserves DEF Next

----------------------------------------------------------------------------
(* The inductive invariant holds throughout, whatever the constants are. *)
THEOREM Invariance == Spec => []IInv
BY InitIInv, StepPreserves, PTL DEF Spec

(* Every variable keeps its type. *)
THEOREM TypeCorrect == Spec => []TypeOK
<1>1. IInv => TypeOK
  BY DEF IInv
<1> QED
  BY <1>1, Invariance, PTL

(* Only the slot on the processor is RUNNING. *)
THEOREM OnlyCurrentRuns == Spec => []OneRunning
<1>1. IInv => OneRunning
  BY DEF IInv
<1> QED
  BY <1>1, Invariance, PTL

(* The boot thread can always be scheduled: schedule() finds someone. *)
THEOREM BootThreadSchedulable == Spec => []BootThreadRunnable
<1>1. IInv => BootThreadRunnable
  BY DEF IInv
<1> QED
  BY <1>1, Invariance, PTL

(* No two slots ever share a pid. *)
THEOREM PidsNeverShared == Spec => []PidsUnique
<1>1. IInv => PidsUnique
  BY DEF IInv
<1> QED
  BY <1>1, Invariance, PTL

(* The window in which a live slot has no stack is exactly proc_create's. *)
THEOREM NullStackWindow == Spec => []NullStackOnlyWhileCreating
<1>1. IInv => NullStackOnlyWhileCreating
  BY DEF IInv
<1> QED
  BY <1>1, Invariance, PTL

(* The processor is never given to a dead slot. *)
THEOREM DeadStaysOff == Spec => DeadNeverDispatched
<1>1. ASSUME IInv, [Next]_vars, current_idx' # current_idx
      PROVE  state[current_idx'] # "DEAD" /\ state'[current_idx'] = "RUNNING"
  <2>1. Irq0 /\ SchedHooked /\ sched_tick(tick')
    BY <1>1
    DEF Next, vars, CreateStep, TakePid, ProcCreateReserve, ProcCreateFinish, ProcKill,
        EntryStart, SleepStep, ProcSleepMark, ProcSleepDeadline, ProcSleepYield,
        ProcSleepReturn, ExitStep, EntryReturn, SysExit, ProcExitDead,
        ProcExitYield, Irq0
  <2>2. PICK next \in Slots \ {current_idx} :
          FindNextReady(Woken(tick'), next) /\ Switch(Woken(tick'), next)
    BY <1>1, <2>1 DEF sched_tick, KeepRunning
  <2>3. state[next] \in {"READY", "SLEEPING"}
    BY <1>1, <2>2, NextIsReady DEF IInv
  <2>4. state'[next] = "RUNNING" /\ current_idx' = next
    BY <1>1, <2>2, WokenFacts DEF Switch, IInv, TypeOK
  <2> QED
    BY <2>3, <2>4
<1>2. IInv /\ [Next]_vars =>
        [current_idx' # current_idx =>
           state[current_idx'] # "DEAD" /\ state'[current_idx'] = "RUNNING"]_vars
  BY <1>1
<1> QED
  BY <1>2, Invariance, PTL DEF Spec, DeadNeverDispatched

(***************************************************************************)
(* A dead slot is live again only under the next pid to be issued: the     *)
(* running thread is dead only at the end of proc_exit, where it cannot    *)
(* sleep, and a switch makes READY only a slot that was RUNNING.           *)
(***************************************************************************)
LEMMA DeadRevivedByCreate ==
  ASSUME IInv, [Next]_vars, NEW s \in Slots,
         state[s] = "DEAD", state'[s] # "DEAD"
  PROVE  pid'[s] # pid[s]
<1> USE SlotFacts DEF IInv
<1>1. state \in [Slots -> States] /\ current_idx \in Slots
  BY DEF TypeOK
<1>2. CASE ProcCreateReserve
  BY <1>2, NextPid DEF ProcCreateReserve, TakePid, TypeOK, PidsIssued
<1>3. CASE ProcSleepMark
  BY <1>1, <1>3 DEF ProcSleepMark, At, DeadIsLeaving
<1>4. CASE Irq0
  <2>1. CASE ~SchedHooked
    BY <1>4, <2>1 DEF Irq0
  <2>2. CASE SchedHooked
    <3>1. sched_tick(tick')
      BY <1>4, <2>2 DEF Irq0
    <3>2. Woken(tick')[s] = "DEAD"
      BY WokenFacts
    <3>3. CASE KeepRunning(Woken(tick'))
      BY <3>2, <3>3 DEF KeepRunning
    <3>4. CASE \E next \in Slots \ {current_idx} :
                 FindNextReady(Woken(tick'), next) /\ Switch(Woken(tick'), next)
      <4>1. PICK next \in Slots \ {current_idx} :
              FindNextReady(Woken(tick'), next) /\ Switch(Woken(tick'), next)
        BY <3>4
      <4>2. next # s
        BY <3>2, <4>1, NextIsReady
      <4> QED
        BY <1>1, <3>2, <4>1, <4>2, WokenFacts DEF Switch
    <3> QED
      BY <3>1, <3>3, <3>4 DEF sched_tick
  <2> QED
    BY <2>1, <2>2
<1>5. CASE \E p \in 0 .. MaxPid : ProcKill(p)
  BY <1>1, <1>5 DEF ProcKill
<1>6. CASE UNCHANGED state
  BY <1>6
<1>7. CASE ProcExitDead
  BY <1>1, <1>7 DEF ProcExitDead
<1> QED
  BY <1>2, <1>3, <1>4, <1>5, <1>6, <1>7
  DEF Next, vars, CreateStep, ProcCreateFinish, EntryStart, SleepStep,
      ProcSleepDeadline, ProcSleepYield, ProcSleepReturn, ExitStep, EntryReturn,
      SysExit, ProcExitYield

(* A pid that was killed belongs to no live process, then or ever after. *)
THEOREM KillLeavesNoneAlive == Spec => KillIsFinal
<1>1. ASSUME IInv, NEW p \in 1 .. MaxPid, ProcKill(p),
             NEW s \in Slots \ {0}, pid'[s] = p
      PROVE  state'[s] = "DEAD"
  <2>1. PICK r \in Slots : FirstWithPid(r, p) /\ state' = [state EXCEPT ![r] = "DEAD"]
    BY <1>1 DEF ProcKill
  <2>2. r = s
    BY <1>1, <2>1, SMT DEF ProcKill, FirstWithPid, IInv, PidsUnique
  <2> QED
    BY <1>1, <2>1, <2>2 DEF IInv, TypeOK
<1>2. IInv /\ [Next]_vars =>
        [/\ \A p \in 1 .. MaxPid : ProcKill(p) =>
               \A s \in Slots \ {0} : pid'[s] = p => state'[s] = "DEAD"
         /\ \A s \in Slots :
              state[s] = "DEAD" /\ pid'[s] = pid[s] => state'[s] = "DEAD"]_vars
  BY <1>1, DeadRevivedByCreate
<1> QED
  BY <1>2, Invariance, PTL DEF Spec, KillIsFinal
=============================================================================
