----------------------------- MODULE Scheduler -----------------------------
(***************************************************************************)
(* The process table of kernel/scheduler.c and the threads that run on it. *)
(*                                                                         *)
(* One processor executes the thread of slot current_idx; the only         *)
(* concurrency is the timer interrupt (Irq0), which may fall between any   *)
(* two steps of the running thread while the interrupt flag is set.  Each  *)
(* function of scheduler.c is therefore cut where an interrupt between two *)
(* of its stores would see something different, and pc[s] is the place     *)
(* where the thread of slot s is.                                          *)
(*                                                                         *)
(* Slot 0 is the boot thread (kmain, then the shell).  It is the only      *)
(* caller of proc_create (kernel.c:162, elf_loader.c:184) and of proc_kill *)
(* (stellash.c:263).  The threads of the other slots sleep and exit.       *)
(***************************************************************************)
EXTENDS Integers

CONSTANTS
  MaxProcs,      \* MAX_PROCS: slots of procs[]
  Quantum,       \* the 20 of "ticks % 20"
  Word,          \* 2^32: the unsigned counters count modulo Word
  SleepMs,       \* the arguments proc_sleep is called with
  MaxPid,        \* bound on the pids issued: next_pid does not wrap below it
  SchedHooked,   \* does the handler of IRQ0 call sched_tick
  FramePointer,  \* does the build keep a frame pointer in context_switch
  EntryEnables,  \* does the entry function start by setting the interrupt flag
  AppExits       \* do entry functions exit through INT 0x80 (sys_exit) too

ASSUME SchedulerAssumption ==
  /\ MaxProcs \in Nat /\ MaxProcs > 1
  /\ Quantum \in Nat /\ Quantum > 1
  /\ Word \in Nat /\ Word > Quantum
  /\ SleepMs \subseteq Nat
  /\ MaxPid \in Nat /\ MaxPid + 1 < Word
  /\ SchedHooked \in BOOLEAN /\ FramePointer \in BOOLEAN
  /\ EntryEnables \in BOOLEAN /\ AppExits \in BOOLEAN

VARIABLES
  pid, state, ticks, sleep_until, esp,  \* the fields of procs[s], per slot s
  current_idx, next_pid,                \* the file's static variables
  newslot,                              \* local `slot` of proc_create
  pc,                                   \* where the thread of each slot is
  tick,                                 \* drivers/pit.c: interrupts since boot
  iflag,                                \* the processor's interrupt flag
  cpu                                   \* "fault" once a null stack is loaded

vars == <<pid, state, ticks, sleep_until, esp, current_idx, next_pid, newslot,
          pc, tick, iflag, cpu>>

Slots  == 0 .. MaxProcs - 1
States == {"DEAD", "READY", "RUNNING", "SLEEPING"}

(***************************************************************************)
(* Saved stack pointers: none (the field is zero), the frame proc_create   *)
(* lays out, or the context that context_switch pushed.                    *)
(***************************************************************************)
Stacks == {"null", "frame", "saved"}

(***************************************************************************)
(* Program points.  "body" is code outside this file; "entry" the first    *)
(* instruction of the entry function; the others are inside the function   *)
(* they name.  "unborn" is a slot whose stack no thread has run on.        *)
(***************************************************************************)
Points == {"unborn", "entry", "body", "create", "sleep_mark", "sleep_yield",
           "sleep_wait", "exit", "exit_yield", "halt"}

Init ==
  /\ pid = [s \in Slots |-> 0]
  /\ state = [s \in Slots |-> IF s = 0 THEN "RUNNING" ELSE "DEAD"]
  /\ ticks = [s \in Slots |-> 0]
  /\ sleep_until = [s \in Slots |-> 0]
  /\ esp = [s \in Slots |-> "null"]
  /\ current_idx = 0
  /\ next_pid = 1
  /\ newslot = 0
  /\ pc = [s \in Slots |-> IF s = 0 THEN "body" ELSE "unborn"]
  /\ tick = 0
  /\ iflag = TRUE
  /\ cpu = "up"

----------------------------------------------------------------------------
(* The thread on the processor is at program point p. *)
At(p) == cpu = "up" /\ pc[current_idx] = p

Goto(p) == pc' = [pc EXCEPT ![current_idx] = p]

(* proc_yield: the next tick ends the quantum, whatever has been consumed. *)
proc_yield == ticks' = [ticks EXCEPT ![current_idx] = Quantum - 1]

(***************************************************************************)
(* proc_create: the first DEAD slot is wiped, named and made READY; its    *)
(* stack pointer is stored only at the end of the function.                *)
(***************************************************************************)
FirstDead(s) ==
  /\ s \in Slots \ {0}
  /\ state[s] = "DEAD"
  /\ \A r \in Slots \ {0} : state[r] = "DEAD" => s <= r

(* A bug to catch: `next_pid' without `++'. *)
TakePidTwice(s) ==
  /\ pid' = [pid EXCEPT ![s] = next_pid]
  /\ UNCHANGED next_pid

TakePid(s) ==
  /\ pid' = [pid EXCEPT ![s] = next_pid]
  /\ next_pid' = (next_pid + 1) % Word

ProcCreateReserve ==
  /\ At("body") /\ current_idx = 0
  /\ next_pid <= MaxPid
  /\ \E s \in Slots :
       /\ FirstDead(s)
       /\ newslot' = s
       /\ TakePid(s)
       /\ state' = [state EXCEPT ![s] = "READY"]
       /\ ticks' = [ticks EXCEPT ![s] = 0]
       /\ sleep_until' = [sleep_until EXCEPT ![s] = 0]
       /\ esp' = [esp EXCEPT ![s] = "null"]
       /\ pc' = [pc EXCEPT ![s] = "unborn", ![0] = "create"]
  /\ UNCHANGED <<current_idx, tick, iflag, cpu>>

(* A bug to catch: p->esp is not stored. *)
ProcCreateNoStack ==
  /\ At("create")
  /\ Goto("body")
  /\ UNCHANGED <<pid, state, ticks, sleep_until, esp, current_idx, next_pid, newslot,
                 tick, iflag, cpu>>

ProcCreateFinish ==
  /\ At("create")
  /\ esp' = [esp EXCEPT ![newslot] = "frame"]
  /\ Goto("body")
  /\ UNCHANGED <<pid, state, ticks, sleep_until, current_idx, next_pid, newslot,
                 tick, iflag, cpu>>

(***************************************************************************)
(* proc_kill: the first slot from 1 on with that pid, alive or not.  The   *)
(* pid comes from the user, so any pid ever issued, or 0, is possible.     *)
(***************************************************************************)
(* A bug to catch: the search starts at slot 0. *)
FirstFromZero(s, p) ==
  /\ s \in Slots
  /\ pid[s] = p
  /\ \A r \in Slots : pid[r] = p => s <= r

FirstWithPid(s, p) ==
  /\ s \in Slots \ {0}
  /\ pid[s] = p
  /\ \A r \in Slots \ {0} : pid[r] = p => s <= r

ProcKill(p) ==
  /\ At("body") /\ current_idx = 0
  /\ \E s \in Slots :
       /\ FirstWithPid(s, p)
       /\ state' = [state EXCEPT ![s] = "DEAD"]
  /\ UNCHANGED <<pid, ticks, sleep_until, esp, current_idx, next_pid, newslot,
                 pc, tick, iflag, cpu>>

(***************************************************************************)
(* A created thread starts with the interrupt flag of the handler that     *)
(* switched to it; only its own code can set it.                           *)
(***************************************************************************)
EntryStart ==
  /\ At("entry")
  /\ iflag' = (iflag \/ EntryEnables)
  /\ Goto("body")
  /\ UNCHANGED <<pid, state, ticks, sleep_until, esp, current_idx, next_pid,
                 newslot, tick, cpu>>

(***************************************************************************)
(* proc_sleep: SLEEPING first, the deadline next, then proc_yield and the  *)
(* hlt loop, which is left when the state is no longer SLEEPING.           *)
(***************************************************************************)
ProcSleepMark ==
  /\ At("body") /\ current_idx # 0
  /\ state' = [state EXCEPT ![current_idx] = "SLEEPING"]
  /\ Goto("sleep_mark")
  /\ UNCHANGED <<pid, ticks, sleep_until, esp, current_idx, next_pid, newslot,
                 tick, iflag, cpu>>

ProcSleepDeadline(ms) ==
  /\ At("sleep_mark")
  /\ sleep_until' = [sleep_until EXCEPT ![current_idx] = (tick + ms) % Word]
  /\ Goto("sleep_yield")
  /\ UNCHANGED <<pid, state, ticks, esp, current_idx, next_pid, newslot, tick,
                 iflag, cpu>>

ProcSleepYield ==
  /\ At("sleep_yield")
  /\ proc_yield
  /\ Goto("sleep_wait")
  /\ UNCHANGED <<pid, state, sleep_until, esp, current_idx, next_pid, newslot,
                 tick, iflag, cpu>>

ProcSleepReturn ==
  /\ At("sleep_wait")
  /\ state[current_idx] # "SLEEPING"
  /\ Goto("body")
  /\ UNCHANGED <<pid, state, ticks, sleep_until, esp, current_idx, next_pid,
                 newslot, tick, iflag, cpu>>

(***************************************************************************)
(* proc_exit is reached when the entry function returns, or through the    *)
(* gate of INT 0x80, which clears the interrupt flag.                      *)
(***************************************************************************)
EntryReturn ==
  /\ At("body") /\ current_idx # 0
  /\ Goto("exit")
  /\ UNCHANGED <<pid, state, ticks, sleep_until, esp, current_idx, next_pid,
                 newslot, tick, iflag, cpu>>

SysExit ==
  /\ AppExits
  /\ At("body") /\ current_idx # 0
  /\ iflag' = FALSE
  /\ Goto("exit")
  /\ UNCHANGED <<pid, state, ticks, sleep_until, esp, current_idx, next_pid,
                 newslot, tick, cpu>>

ProcExitDead ==
  /\ At("exit")
  /\ state' = [state EXCEPT ![current_idx] = "DEAD"]
  /\ Goto("exit_yield")
  /\ UNCHANGED <<pid, ticks, sleep_until, esp, current_idx, next_pid, newslot,
                 tick, iflag, cpu>>

ProcExitYield ==
  /\ At("exit_yield")
  /\ proc_yield
  /\ Goto("halt")
  /\ UNCHANGED <<pid, state, sleep_until, esp, current_idx, next_pid, newslot,
                 tick, iflag, cpu>>

----------------------------------------------------------------------------
(* sched_tick, first loop: whoever is SLEEPING past its deadline wakes up. *)
Woken(now) ==
  [s \in Slots |-> IF state[s] = "SLEEPING" /\ now >= sleep_until[s]
                   THEN "READY" ELSE state[s]]

(* How many slots find_next_ready looks at before s: current_idx is last. *)
Distance(s) == (s - current_idx - 1) % MaxProcs

(* A bug to catch: the search stops at any slot that does not sleep. *)
FindNextAwake(st, s) ==
  /\ st[s] # "SLEEPING"
  /\ \A r \in Slots : st[r] # "SLEEPING" => Distance(s) <= Distance(r)

(* find_next_ready: the nearest READY slot in cyclic order, 0 if none is. *)
FindNextReady(st, s) ==
  \/ /\ st[s] = "READY"
     /\ \A r \in Slots : st[r] = "READY" => Distance(s) <= Distance(r)
  \/ s = 0 /\ \A r \in Slots : st[r] # "READY"

(***************************************************************************)
(* The end of context_switch, on the stack of slot s.  A saved context     *)
(* leaves through the IRET of the interrupt that saved it.  The frame laid *)
(* out by proc_create has seven registers, entry and proc_exit: without a  *)
(* frame pointer the RET of context_switch takes entry; with one, entry is *)
(* popped into ebp and the RET takes proc_exit.                            *)
(***************************************************************************)
Resume(s) ==
  \/ /\ esp[s] = "null"
     /\ cpu' = "fault"
     /\ UNCHANGED <<iflag, pc>>
  \/ /\ esp[s] = "frame"
     /\ iflag' = FALSE
     /\ pc' = [pc EXCEPT ![s] = IF FramePointer THEN "exit" ELSE "entry"]
     /\ UNCHANGED cpu
  \/ /\ esp[s] = "saved"
     /\ iflag' = TRUE
     /\ UNCHANGED <<pc, cpu>>

(* Bugs to catch: the slot switched from stays RUNNING; it becomes READY *)
(* whatever its state was.                                               *)
SwitchKeepsOld(st, next) ==
  /\ state' = [st EXCEPT ![next] = "RUNNING"]
  /\ esp' = [esp EXCEPT ![current_idx] = "saved"]
  /\ current_idx' = next
  /\ Resume(next)

SwitchRevives(st, next) ==
  /\ state' = [st EXCEPT ![current_idx] = "READY", ![next] = "RUNNING"]
  /\ esp' = [esp EXCEPT ![current_idx] = "saved"]
  /\ current_idx' = next
  /\ Resume(next)

Switch(st, next) ==
  /\ state' = [st EXCEPT ![current_idx] = IF @ = "RUNNING" THEN "READY" ELSE @,
                         ![next] = "RUNNING"]
  /\ esp' = [esp EXCEPT ![current_idx] = "saved"]
  /\ current_idx' = next
  /\ Resume(next)

KeepRunning(st) ==
  /\ state' = st
  /\ UNCHANGED <<esp, current_idx, iflag, pc, cpu>>

sched_tick(now) ==
  LET st   == Woken(now)
      used == (ticks[current_idx] + 1) % Word
  IN  /\ ticks' = [ticks EXCEPT ![current_idx] = used]
      /\ \/ /\ used % Quantum # 0
            /\ KeepRunning(st)
         \/ /\ used % Quantum = 0
            /\ FindNextReady(st, current_idx)
            /\ KeepRunning(st)
         \/ /\ used % Quantum = 0
            /\ \E next \in Slots \ {current_idx} :
                 FindNextReady(st, next) /\ Switch(st, next)
      /\ UNCHANGED <<pid, sleep_until, next_pid, newslot>>

(* The interrupt gate of IRQ0: drivers/pit.c counts, then sched_tick if hooked. *)
Irq0 ==
  /\ cpu = "up" /\ iflag
  /\ tick' = (tick + 1) % Word
  /\ IF SchedHooked
     THEN sched_tick(tick')
     ELSE UNCHANGED <<pid, state, ticks, sleep_until, esp, current_idx, next_pid,
                      newslot, pc, iflag, cpu>>

----------------------------------------------------------------------------
CreateStep == ProcCreateReserve \/ ProcCreateFinish
SleepStep  == \/ ProcSleepMark
              \/ \E ms \in SleepMs : ProcSleepDeadline(ms)
              \/ ProcSleepYield
              \/ ProcSleepReturn
ExitStep   == EntryReturn \/ SysExit \/ ProcExitDead \/ ProcExitYield

Next ==
  \/ CreateStep
  \/ \E p \in 0 .. MaxPid : ProcKill(p)
  \/ EntryStart
  \/ SleepStep
  \/ ExitStep
  \/ Irq0

Spec == Init /\ [][Next]_vars

(***************************************************************************)
(* The timer keeps ticking while interrupts are enabled (pit.c programs    *)
(* channel 0 as a periodic source).  Nothing is assumed of the threads.    *)
(***************************************************************************)
LiveSpec == Spec /\ WF_vars(Irq0)

----------------------------------------------------------------------------
TypeOK ==
  /\ pid \in [Slots -> Nat]
  /\ state \in [Slots -> States]
  /\ ticks \in [Slots -> Nat]
  /\ sleep_until \in [Slots -> Nat]
  /\ esp \in [Slots -> Stacks]
  /\ current_idx \in Slots
  /\ next_pid \in Nat
  /\ newslot \in Slots
  /\ pc \in [Slots -> Points]
  /\ tick \in Nat
  /\ iflag \in BOOLEAN
  /\ cpu \in {"up", "fault"}

(***************************************************************************)
(* Only the slot on the processor is RUNNING, through every interleaving   *)
(* of ticks with proc_sleep, proc_exit and proc_kill: sched_tick's rule    *)
(* that only a RUNNING slot goes back to READY never leaves two.           *)
(***************************************************************************)
OneRunning == \A s \in Slots : state[s] = "RUNNING" => s = current_idx

(***************************************************************************)
(* The boot thread is always schedulable, so the fallback `return 0' of    *)
(* find_next_ready never hands the processor to a slot that is not READY.  *)
(***************************************************************************)
BootThreadRunnable ==
  state[0] = IF current_idx = 0 THEN "RUNNING" ELSE "READY"

(***************************************************************************)
(* A pid names one process for ever: no two slots, live or dead, share     *)
(* one, so proc_kill's `first slot with that pid' is the only one.         *)
(***************************************************************************)
PidsUnique ==
  \A s, r \in Slots \ {0} : pid[s] = pid[r] /\ pid[s] # 0 => s = r

(***************************************************************************)
(* A live slot whose stack pointer is null is the one proc_create is still *)
(* filling, or the boot thread before its first switch.                    *)
(***************************************************************************)
NullStackOnlyWhileCreating ==
  cpu = "up" =>
    \A s \in Slots : state[s] # "DEAD" /\ esp[s] = "null" =>
      \/ s = 0 /\ current_idx = 0
      \/ s = newslot /\ pc[0] = "create"

(***************************************************************************)
(* The processor never goes to a slot that is dead: a killed or exited     *)
(* process runs no further instruction, whatever its thread was doing.     *)
(***************************************************************************)
DeadNeverDispatched ==
  [][current_idx' # current_idx =>
       state[current_idx'] # "DEAD" /\ state'[current_idx'] = "RUNNING"]_vars

(***************************************************************************)
(* proc_kill(pid) leaves no live process with that pid (stellash's         *)
(* `kill'), and no step of its thread, of a tick or of a switch brings a   *)
(* killed or exited process back: its slot lives again under a new pid.    *)
(***************************************************************************)
KillIsFinal ==
  [][/\ \A p \in 1 .. MaxPid : ProcKill(p) =>
          \A s \in Slots \ {0} : pid'[s] = p => state'[s] = "DEAD"
     /\ \A s \in Slots : state[s] = "DEAD" /\ pid'[s] = pid[s] => state'[s] = "DEAD"]_vars

(***************************************************************************)
(* sched_tick is `Chamado pelo IRQ0' (scheduler.h:47): while the timer     *)
(* ticks a READY process eventually gets the processor, or is killed.      *)
(***************************************************************************)
ReadyRuns ==
  \A s \in Slots : state[s] = "READY" ~> state[s] \in {"RUNNING", "DEAD"}
=============================================================================
