# Verification of StellaresOS

TLA+ modules, TLC configurations and TLAPS proofs about StellaresOS, a small i386 kernel
with a process scheduler, a RAM file system, a disk file system, an installer, a login
and a shell.  Line numbers refer to the files of the repository; module and operator
names follow the C functions.

1. [The system](#the-system)
2. [Modules](#modules)
3. [Runs](#runs)
4. [Proofs](#proofs)
5. [What is not modelled](#what-is-not-modelled)
6. [Plan](#plan)

## The system

| Part | State it keeps | Operations | What makes it correct |
|---|---|---|---|
| Scheduler `kernel/scheduler.c` | `procs[16]` (pid, state, ticks, sleep_until, esp, stack), `current_idx`, `next_pid` | create, yield, sleep, exit, kill, tick | one RUNNING slot, dead slots stay off, pids unique, nobody starves, a new process starts at its entry |
| PIT `drivers/pit.c` | `tick`, `hz` | IRQ0, `pit_sleep_ms` | time goes on, sleepers return |
| IDT, PIC `kernel/idt.c`, `boot/isr.asm` | handler table | dispatch, acknowledge, panic | handlers run with interrupts disabled, once per interrupt |
| Keyboard `drivers/keyboard.c` | ring of 256, shift, ext | IRQ1 push, poll, getchar, flush | keys in order, dropped only when the ring is full |
| PMM `kernel/pmm.c` | frame bitmap, used | mark, alloc, free | no frame handed out twice or twice counted |
| Heap `kernel/heap.c` | block list | kmalloc, kfree, krealloc | blocks partition the heap, free neighbours merge |
| System calls `kernel/syscall.c` | `fds[16]`, break | exit, read, write, open, close, brk | offsets within files, descriptors of live files |
| ELF loader `kernel/elf_loader.c` | `pending_ctx`, one process stack | exec | each process gets its own entry and stack |
| RamFS `fs/ramfs.c` | 128 nodes, children lists | mkdir, create, write, delete, resolve | parents and children agree, nothing is lost or doubled that nobody asked for |
| DiskFS `fs/diskfs.c` | superblock and 32 inodes in memory, the same on disk, 32 slots | init, format, write, read, delete, list | files keep to their slot, memory agrees with disk, acknowledged writes survive |
| ATA `drivers/ata.c` | detected disk | read and write sectors | a success means all sectors are on the disk |
| `apps/install.py` | none (edits the image) | install or update an app | the kernel finds what was installed |
| Installer `kernel/installer.c` | the answers | screens, format, four files | done means the account can log in, for ever |
| Login `kernel/login.c` | `users[8]` | load or make accounts, login screen | the accounts on the disk are those that can log in |
| `kernel/kernel.c` | none | boot sequence | every boot ends in a shell |
| Shell `shell/stellash.c` | cwd, history, user | file commands, kill, exec, spkg | RamFS and DiskFS tell the same story |
| Editor `shell/editor.c` | `lines[]`, cursor, window, `dirty` | one per key, load, save | keys edit one text, nothing unsaved is lost without a question |
| Snake `shell/snake.c` | the snake, its direction, the food | steer, move | no key turns it into itself |
| spkg `pkg/spk.c` | none | install, remove, list | files land where the package says |
| VGA, serial, libc | cursor, attributes | output, pure functions | |

**How they interact.**  The kernel is one thread of control plus interrupts.  IRQ0 and
IRQ1 are callbacks that share variables with the code they interrupt.  The scheduler is
meant to add more threads, all in one address space, without locks.  RamFS and DiskFS are
two stores that the shell, the editor, `spkg` and the system calls each keep in step by
themselves.  DiskFS shares the disk image with `install.py`, which runs on the host
between boots.  Boot calls DiskFS from login, installer, kmain and shell in turn.

**What is hard here.**  Ticks between any two stores of `proc_create`, `proc_sleep` and
`proc_exit`; power failures between any two of the up to 13 sectors of a write; errors
whose return value is ignored; the order of the installer's writes; two file systems
updated one after the other; key by key editing of buffers whose rest is never cleared;
the keyboard interrupt between any two accesses of its reader; and counters that wrap.

## Modules

```
FileStore  <--refines--  DiskFS  <----EXTENDS----  Boot            Scheduler
                         |                         |    \             |     \
                     MCDiskFS                  MCBoot  DiskProofs  MCScheduler  SchedulerProofs

                        Files           KeyQueue  <--refines--  Keyboard
                        |   \                                   |     \
                   MCFiles   FilesProofs               MCKeyboard   KeyboardProofs

Readline   Snake                        TextBuffer  <--refines--  Editor
      \     |                                                     |     \
       Console                                              MCEditor   EditorProofs
       |      \
 MCConsole   ConsoleProofs              Session                 Setup
                                        |    \                  |    \
                                MCSession   SessionProofs  MCSetup   SetupProofs
```

An arrow `refines` is an `INSTANCE ... WITH` whose specification is a property of a run.
Which lines of the source a definition stands for is in `PROJECT.json` ("map").

### Scheduler

The process table and the threads on it.  `pid`, `state`, `ticks`, `sleep_until` and
`esp` are the fields of `procs[s]`; `current_idx` and `next_pid` the static variables;
`tick` the PIT's counter; `iflag` the interrupt flag; `pc[s]` the place where the thread
of slot `s` is.  A function is cut into actions exactly where an interrupt could see a
difference:

| Code | Actions |
|---|---|
| `proc_create` | `ProcCreateReserve` (slot READY, line 70), `ProcCreateFinish` (esp, line 92) |
| `proc_sleep` | `ProcSleepMark`, `ProcSleepDeadline`, `ProcSleepYield`, `ProcSleepReturn` |
| `proc_exit` | `EntryReturn` or `SysExit`, `ProcExitDead`, `ProcExitYield` |
| `proc_kill` | `ProcKill` |
| `irq_handler`, PIT handler, `sched_tick`, `context_switch` | `Irq0` (one action: the gate disables interrupts) |

`esp` has three values: `"null"`, the `"frame"` of `proc_create` and a `"saved"` context.

Four constants describe how the code is built and wired, because the outcome depends on
it.  `SchedHooked`: does IRQ0 call `sched_tick` (no, as shipped, although `scheduler.h:47`
says so).  `FramePointer`: does `context_switch` end with `pop ebp` (yes, with the flags of
the Makefile).  `EntryEnables`: does an entry function execute `sti` (no, as shipped).
`AppExits`: do processes exit through INT 0x80 (yes, the apps do).

| Run | `SchedHooked` | `FramePointer` | `EntryEnables` | |
|---|---|---|---|---|
| `scheduler_irq0` | no | yes | no | the code as shipped: no process ever runs |
| `scheduler_hooked` | yes | no | yes | three things no build of this tree has, so that threads do run, interrupted anywhere |

So `scheduler_hooked` is not about the code as it is built, nor about the code the day the call
is added: that day, with the frame pointer, the first dispatch of a process would enter
`proc_exit` (`scheduler.c:79` lays out a word less than `context_switch` pops).  It is there to
exercise the safety of the process table with as many interleavings as possible, and it
makes no claim that a process ever gets the processor.  The theorems of `SchedulerProofs` hold for every value of the four, the shipped
ones included.  `next_pid` counts modulo `Word`, but `MaxPid` stops the creations before it
wraps: after 2^32 of them pids would repeat, and `PidsUnique` is not claimed.

### DiskFS and FileStore

`disk_magic`, `disk_inodes` and `disk_data` are the disk; `inodes` and `fs_ready` the
static variables; `op` the call under way: which stage (data, table, superblock) and which
sector is next.  Each call starts by changing the table in memory (`diskfs_write`,
`diskfs_delete`, `diskfs_format`, `diskfs_init`) and goes on with `DataSector`,
`TableSector`, `SuperSector`, one per sector.  `Crash` may fall between any two.  `Spec`
is a disk that reports no error; in `FaultySpec` one may come instead of any sector
(`IOError`) and while the table is read at boot (`InitError`).  `install_app` is the host's
script.  The superblock is its magic number: nothing in the kernel reads `nfiles` back.

A file's data is one abstract value per sector.  Slots are indices, as in the code.  A name in `LongNames` (48
characters or more) is stored as `CutName` and looked for whole, as the code does: it is never
found again.  `Fitting` are the names that are neither long nor what a long one is cut to.

`FileStore` is what the callers may believe: named files, one update at a time; a new file
appears whole or not at all; an overwritten file may be torn, old size and each sector old
or new; an acknowledged update is done and stays; no update touches another file.  `DiskFS`
is shown to implement it for the names that fit (`ImplementsFileStore`; calls with other names
change none of these files), with the refinement mapping `files` =
what the next boot would read (`OnDisk`), `update` = the arguments in `op`.

### Boot

kmain from the disk to the shell.  `phase` is the place in kmain, `users` whose passwd file
`login_init` has loaded, `cfg` the account given to the installer, `session` who the shell
runs as.  It extends DiskFS: every file operation is DiskFS's own, sector by sector, so a
power failure (`PowerOff`) may fall anywhere in login, format or installation, and the
disk may report an error at any sector.  The host may put apps on the disk while the
machine is off (`InstallApps`).  Two histories: `promised` is the account of the last
completed installation, `sound` that the disk has reported no error so far.

| Code | Definitions |
|---|---|
| `kmain` with and without a drive | `PowerOn` |
| `login_init`, called by kmain and again after an installation | `login_init(p, made, q)` |
| `installer_run`, the last screen, `screen_installing` | `installer_run`, `Confirm`, `screen_installing` (one `WriteFile` per file), `Installed` |
| `login_screen` | `login_screen` (who it lets in; how is in Setup) |

### Files

What a session works with on a machine without a disk (`diskfs_ready()` is 0): `nodes` is the
table of ramfs.c, `cwd_node` and `cwd_path` the shell's two records of where it is, `fds` the
descriptors, one table for all processes.

| Code | Definitions |
|---|---|
| `ramfs_find`, `_resolve`, `_mkdir`, `_create`, `_write`, `_abs_path` | operators of the same names, on a table |
| `ramfs_delete` | `Deletable` and `Freed`, in `cmd_rm` |
| `cd`, `touch`, `mkdir`, `rm`, `cp`, `mv`, `write` | `cmd_cd` ... `cmd_write`, one action each; `cd_root` is `cd` alone |
| F2 in the editor | `ed_save`; it saves in the root, wherever the shell is |
| `spk_install`, one file of a package | `spk_install`, the missing directories in `spk_directories` |
| `sys_open`, `sys_close`, `sys_read`, `sys_write` | actions of the same names |

A call to RamFS is atomic: applications enter through INT 0x80, behind an interrupt gate, and
as shipped no tick switches threads.  A file's text is its size.

*Nothing is asked of the callers.*  The handlers have the guards of the code and no others: `mv`
to a name that is taken or of a directory above the current one, a package or an open below
a file, `rm`, `O_TRUNC` and rewriting of an open file, `O_APPEND` with `O_TRUNC` are all steps.

*Words and names.*  A word is the sequence of its parts between slashes, and a node is called by
a word: `touch a/b` makes one node of that literal name, which no path finds.  `strncpy`
into a name is `Kept`: a word in `Cut` loses all behind its first 63 characters, and the whole
word never finds the node.  `Chars` is the length of a path as characters.

*Buffers.*  `full[256]`, `buf[256]`, `cwd_path[256]`, `base[64]` of `sys_open` and `base[]` of
`spk_install` are filled with `strcpy`.  Where a path is longer, the write leaves the
buffer and the model ends there: `overrun` is set and no step follows.  The same for the copy
of a 63-character name in `parts[]`, which has no end (`Endless`; it may end by chance, so the
step may also go on), and for a write beyond `RAMFS_DATA_MAX`.  Every property of Files speaks
of the behaviour up to there.

A node that is freed keeps its children and size, because `ramfs_create` does not reset the count
of children and descriptors still read the size.  `ramfs_abs_path` climbs from the node to
the root and keeps the last `MaxParts` names; `PathParts` has that for every node and every
number of parts at once.  A length of 0 is modelled as the code has it: `strlen` of whatever
the buffer holds.

What such a table still promises:

- parents and children agree, below files too (`Tree`), and the shell's directory is never
  removed or replaced (`CwdIsDirectory`);
- no directory is lost while it has entries, and an entry goes only by its own removal
  (`EntriesStay`);
- only `mv`, or the cut of a long name, makes two entries of one name (`TwinsByRename`);
- the path in the prompt leads to where `touch`, `mkdir` and `rm` work, except through
  names that resolving does not find, `..` kept as a name, or after an `mv`
  (`PromptLeadsHere`);
- only shortening or removing a file leaves a descriptor behind its end (`LeftBehind`).  This
  is a bound on a defect, not its absence: what `sys_read` does next is a wrapped difference.

What it does not promise is among the facts below: files may have nodes below them, and a
name given to `mv` may lead to another file.

### Setup

The account a user makes on the installer's screens, the passwd file made of it, and the
login screen that reads it.  The two password buffers are modelled cell by cell, because
`read_field` writes the terminator on ENTER only: after ESC what an earlier attempt left is
still in them (`Type`, `Backspace`, `Leave`).  `hash_pass` is the real hash, modulo 2^32
(`Word`).  The two names are entered as a whole: a valid one, none, or one that is refused.
The histories `typed`, `account` and `entered` are what the user saw in the fields, the
account of the last installation, and what was typed at the last login.

### Editor and TextBuffer

`lines`, `cx`, `cy`, `scroll_y` and `dirty` are the static variables of editor.c, `file` the
node that `edit` opened, `room` whether RamFS has a node for a new one.  One action per key;
`Save` is ^S and F2, `Quit` is ESC and ^Q, `Answer` the question that follows.
`TextBuffer` is one sequence of characters with a cursor: insert, erase, kill a line, move.
`Editor` implements it (`ImplementsTextBuffer`): joining, splitting and killing lines is one
of these on the sequence, or nothing at a limit.  `LinesOf` is the loop of `ed_load`, one
character at a time (`Put`), and `Serialized` the one of `ed_save`, one line at a time.

### Keyboard and KeyQueue

The ring of keyboard.c and the two that share it: IRQ1 (`handler`, atomic behind its gate)
and a reader, whose accesses are steps of their own (`PollTest`, `PollRead`, `PollAdvance`,
`Halt`), with the flag that says whether interrupts are on.  `keyboard_getchar` may be
entered with interrupts off, as INT 0x80 does for a read of descriptor 0; `Timer` is any
other interrupt, which ends a `hlt`.  `KeyQueue` is a bounded queue: keys in order, each
once, a new one lost when it is full.

### Readline, Snake and Console

`Readline` is the shell's line editor with its ring of `HIST_SIZE` lines, and what the
console shows of it: `shown` is the text from the prompt to the cursor, and a backspace
stops at the left edge, as `vga_putchar` does.  `Snake` is the game: keys steer, any number
of them between two moves.  `Console` composes them: a line whose first word is `snake`
(`SnakeLines`) starts a game, and the command line comes back with its history when it is over.

### Session

The two file systems behind one command, from login to login.  RamFS (`ram`) has the root,
`/home`, the homes of the `Users` and the one directory below each, and is gone with the power;
the disk knows no directories and keeps a file under the very word the command was given.
`setup_user_home` makes the one from the other; root's home is `/`, which it leaves alone.  The
history `said` is what the shell last told the user of a word: the text it saved, or that it
removed it.  Calls of DiskFS are atomic here: what happens inside them is DiskFS's matter.

A word is again the sequence of its parts, with `""`, `.` and `..` among them, and `disk` is the
table, inode by inode: the first one of a name is found, the first free one taken, a word of 48
characters or more is stored cut (`Stored`) and searched for whole, so that copies of it pile up,
and `diskfs_list` may not return a name of full length in one piece (`lost`, in
`setup_user_home`).  `cat`, `write`, `touch`, `rm` and `cd` are given any of the `Words`.

`SavedReadsBack` and `RemovedStaysRemoved` then say what the code keeps, and their exceptions
are what it does not:

- words of 47 characters or more (`CutWord` stands for the one word of 47; neither is in
  `Short`): stored cut, or read back garbled;
- words that lead, as a path, to a file of another name (`LeadsElsewhere`): after the login
  `cat ./a` shows the file `a` of the home, not what `write ./a` put on the disk
  (`stellash.c:99-106`);
- a full table: `SavedReadsBack` is proved while an inode is left, and `session_full` shows
  the other case;
- `README.txt`: after `rm README.txt` the next login makes it again, as a copy of `README`
  (`stellash.c:498-502`);
- directories: `rm docs` of an empty default directory is undone by the next login
  (`stellash.c:489-491`); the property looks through `cat`, which shows files only.

`Words` leaves out the three names the system keeps for itself on the disk (`System`: passwd, the
installer's flag and the home path), because `write passwd` changes the accounts and not only a
file; `MAX_FILES` is the table without them.  Packages and programs write on the disk too, and
are not in this module.  Paths beyond their buffers and a full node table are in Files.

## Runs

All bounds are in the .cfg files.

| Run | Shows |
|---|---|
| `scheduler_hooked` | With a tick that switches and threads that run (see Scheduler for the constants): one RUNNING slot, the boot thread always schedulable, unique pids, no null stack outside `proc_create`, no dead slot dispatched, kill is final |
| `scheduler_irq0` | violation: as shipped a READY process never runs |
| `diskfs_crash` | Slots disjoint, names that fit unique, memory equal to disk between calls, acknowledged writes on the disk under every name that is not too long, and DiskFS implements FileStore, with power failures between any two sectors |
| `boot_crash` | Power failures and disk errors at every sector: as long as there was no error a finished installation is kept and asked for by every later boot, and the login has accounts; every boot reaches the shell, errors or not |
| `files_ram` | Types, and the promises listed under Files, under every command, package and system call, for plain, absolute and long words and `..`, and every set of flags |
| `setup_accounts` | What the user confirms is what the user typed (unless ESC left a field), it opens a session on every later boot if it fits the login screen and was typed without ESC, and no session is opened without the password of its account (but guest's, after the last try) |
| `setup_long` | violation: the installer takes longer passwords than the login screen reads |
| `editor_text` | The keys of the editor edit one sequence of characters, at all limits too; cursor and lines stay inside their arrays; a text without the mark of a modified one is what is in the file |
| `keyboard_ring` | The ring is a bounded queue of keys under every interleaving, and a key that waits is always taken, although a reader may halt before it |
| `console_snake` | The line on the screen, while it is short of the right edge, is the one ENTER executes; the arrows recall what was executed, within the last `HIST_SIZE` lines, before and after games; the snake stays in one piece and never turns into its neck |
| `session_disk` | What `write` saved and `rm` removed is what `cat` shows after the next login of any user, with the exceptions listed under Session |
| `session_full` | violation: with the table full, `write` says saved, and the next login has lost the file |

The three violations are the `findings` of `PROJECT.json`.

**Bounds.**

- *Scheduler*: 3 slots (the boot thread and two processes, enough for starvation and for a
  slot between two others), quantum 2, counters modulo 4 (so every wrap but `next_pid`'s happens), two
  creations (`MaxPid`; each slot may be used again after an exit or kill), sleeps of 0 and 2
  ticks.
- *DiskFS*: 2 inodes and slots with 3 names that fit and a long one, which is cut to one of
  them (the table fills), one inode a sector (tables
  mix), 2 sectors a file (files tear), a request of 3 sectors (sizes are cut), 2 contents.
- *Boot*: 5 files (the four of the installer and an app), a table of 3 sectors, one account
  besides the default ones, one sector a file.
- *Files*: 4 nodes and 2 children a directory, so that the table, the home directory and the
  root all fill; a plain word, `..`, an absolute one below the home directory (its directory
  may be missing), and one with more characters than a name keeps; paths of at most 7
  characters and 2 parts (both limits are passed); sizes 0 and 1, calls and packages of length
  2 (cut); one descriptor, all 8 sets of flags, offsets modulo 4 (a difference that wraps is
  seen).  The proofs have any number of descriptors on any files.
- *Setup*: passwords of up to 3 characters of 2, at least 2, of which the login screen reads
  2: fields that are too short, full, and longer than the login can type all happen; two
  names, one of which (`root`) is also a default account; the hash modulo 2^16, in which
  these passwords have different hashes.
- *Editor*: 3 lines of 3 characters, a window of 2 rows, files that fit and that have a line
  or a character too many; 3 characters typed (`MaxText`), the limits of the buffer besides.
- *Keyboard*: a ring of 3, which fills, empties and wraps with 2 keys; a key with and one
  without a capital, one without a character, an arrow.
- *Console*: a history of 2 lines, of which 3 are entered (`MaxHist`), lines of 3 characters
  after a prompt of 2 on a screen of 5 columns (the edge is reached), 5 characters shown
  (`MaxShown`); a board of 4 by 2 with at most 5 cells of snake, so that it curls up, fills
  more than half of the board and reaches its greatest length.
- *Session*: 9 words: a file by its name and by an absolute word, a word through `..` to the
  README.txt of `/home`, the name of a directory and a file below it, README and its copy,
  a word that is cut and the one it is cut to; one user besides root; 3 entries a directory
  (the home fills), a table of 4 inodes or, in `session_full`, 2 (it fills with 4 too: words
  that are cut take an inode each time); 3 commands that change files (`MaxCommands`; logins
  and `cd` in any number).

Deadlock is not checked where the system may stop: processes may all be dead, the power off,
a read of standard input halted behind its gate with an empty ring.

**Fairness.**  Scheduler (`scheduler_irq0`): weak fairness of `Irq0` alone, as channel 0 of the
PIT is periodic (`pit.c:9`).  Boot: weak fairness of the boot thread; the disk's waits count
down (`ata.c:31-38`), the user is assumed to end the installer's and login's screens, and
power may fail for ever.  Keyboard: weak fairness of the reader (a processor executes its
next instruction) and of the timer (the PIT); no key need ever be pressed.

**Facts TLC gives and no run keeps.**

- *Scheduler.*  With `FramePointer` (the flags of the Makefile) and `SchedHooked` the first
  dispatch of a process enters `proc_exit`, although `scheduler.c:77` says it returns to the
  entry.  A tick between lines 146 and 147 wakes a process on its previous deadline, so
  `proc_sleep` may return early; a tick between lines 70 and 92 may switch to the null stack
  (the exception in `NullStackOnlyWhileCreating` is reachable); a process that exits through
  INT 0x80 halts with interrupts disabled, and the machine with it.  All of these need a tick that
  calls `sched_tick`.
- *DiskFS.*  With an error on the table or the superblock a size is returned although the
  file is not on the disk (`AckDurable` over `FaultySpec`).  After an error on its data a
  new file stays in memory and is saved by the next call.  Without `\ LongNames`, `AckDurable`
  fails: a name of 48 characters is stored cut and never found (`diskfs.c:100`), though
  "salvo no disco" is printed for it.  `install.py` writes the new data of
  an app that is there under its old size (`install.py:115`).
- *Boot.*  A crash after the flag file and before `passwd` skips the installer for good,
  with the default accounts (`installer.c:368-379`); `SomebodyCanLogIn` is what is left.
  The installer's format wipes apps that the host put on the disk before.  One read error in
  `login_init` replaces the accounts by the default ones (`login.c:91`).  "Instalacao
  concluida com sucesso!" is printed whatever the writes returned.
- *Files.*  A package, or an open with `O_CREAT`, whose path leads through a file creates a node
  below it (`ramfs.c:107`; `spk.c:49-60`, `syscall.c:136-138`), which no path finds and no `rm`
  removes.  `mv` to the name of an earlier entry hides the renamed file behind it
  (`stellash.c:222`).  `cp` of an empty file stores what the stack held.  `O_APPEND` with `O_TRUNC` in
  one open leaves an offset beyond the file (`syscall.c:145-147`), and so does truncating a
  file that is open elsewhere; the next `sys_read` has a wrapped difference and reads past the
  text.  A descriptor of a removed file keeps the node, and reads and writes the file that
  takes it.  With more directories above the current one than `MaxParts` (16 in the code),
  `cwd_path` loses its head.  `touch` of a file that exists fails in a full directory:
  `ramfs_create` counts before it searches.
- *Session.*  `touch` of a file that exists keeps it in RamFS and empties its copy on the
  disk; `rm` removes the copy of the word even where RamFS refused; `mkdir`, `cp`, `mv` and
  `edit` touch RamFS alone, although the installer's README says "Seus arquivos sao salvos
  no disco automaticamente".
- *Setup.*  ESC in a password field keeps what an earlier attempt typed: the user sees one
  text, and confirms another (`installer.c:81`).  `atoi` of the hashes written in passwd
  overflows `int` from 2^31 on (modelled as the wrap that gives the same 32 bits back).
- *Editor.*  It works on the root directory wherever the shell is; joining lines or killing
  the last one may leave the cursor above the window; a file cut on loading is saved cut;
  saving under the name of a directory clears `dirty`; S leaves even where nothing was
  saved; keyboard.c never sends ^S, ^Q, ^K, 0x117 or 0x118, so F2 and ESC are all there is.
- *Keyboard.*  A read of standard input with an empty ring halts for ever, interrupts off.
- *Console.*  Going up past `HIST_SIZE` lines shows newer lines in the place of the older
  ones; a line that reached the right edge stays on the screen when it is gone from
  `input[]`.  Food may lie under the new head, and at `MAX_SNAKE` the snake gets a gap.

**Definitions named "a bug to catch"** are variants of the operator that follows them; each
property has one that TLC finds it violated by.

## Proofs

Checked by TLAPS for every value of the constants that satisfies the modules' ASSUMEs.  The
type invariants of Scheduler, DiskFS, Keyboard, Readline, Snake and Session are proved (`TypeCorrect`)
and not run again by TLC.

`SchedulerProofs`: the inductive invariant `IInv` adds to `TypeOK` and the invariants the
bounds that pids and `next_pid` need (a pid in the table is below `next_pid`), and that only
the boot thread is ever inside `proc_create`.  From it: `TypeCorrect`, `OnlyCurrentRuns`,
`BootThreadSchedulable`, `PidsNeverShared`, `NullStackWindow`, and the action properties
`DeadStaysOff` and `KillLeavesNoneAlive` (which also needs `DeadIsLeaving`: the thread of a
dead slot can do nothing but leave).  They hold for every wiring: `SchedHooked`,
`FramePointer`, `EntryEnables`, `AppExits` are arbitrary.

`DiskProofs`: disjoint slots are not inductive, because a crash or an error leaves a table
on disk whose sectors are of different ages.  The invariant that survives the mixture is
`OwnSlot`: inodes and slots are both taken lowest first, so a used inode has the slot of its
own index, in memory and on disk, inode by inode.  From it, over `FaultySpec`:
`TypeCorrect` and `SlotsNeverShared`, with errors, crashes, long names and host installations.

For a disk without errors (`Spec`), also in `DiskProofs`, and with files of any names on it: `NamesNeverShared`, `MemoryIsDisk`, `AcknowledgedIsThere` and
`DiskIsStore`, the refinement of FileStore.  The invariant `SInv` says that at every moment
memory and disk disagree on one inode at most, the one of the call under way, and how far
the call has come; a table mixed of old and new sectors is then the old or the new one, and
a crash leaves what FileStore allows.  `NamesNeverShared` and `DiskIsStore` speak of the names in
`Fitting`, `AcknowledgedIsThere` of all that are not too long, `MemoryIsDisk` of everything.  Only
for the names that fit is one inode the only one of its name (`Apart`), which the first two need.

Its second part is Boot: what a sector does to the files is taken from the refinement,
never from the sectors.  Over `BootSpec`, with errors and power failures anywhere:
`BootTypeCorrect`, `InstallationIsKept`, `LaterBootsAskForIt` and `SomebodyCan`, for any
accounts, apps and size of the disk.  The invariant `Story` says what is on the disk at each
stage of the installer (`Installing`), that passwd is of one sector and names accounts
(`GoodPasswd`), and that after a finished installation no call of the kernel is under way
(`Kept`): nothing but the host writes, and not to these files.  `Story` and `SInv`
hold while `sound`; the last three theorems say nothing after an error.

`FilesProofs` has no hypotheses: the theorems hold for any words, names that are cut, sizes of
the table, of directories and of files, numbers of descriptors and sets of flags, whatever the
shell, spkg and the applications do up to the first overrun of a buffer.  They are
`TypeCorrect`, `TreeSound`, `ShellInDirectory`, `EntriesAreKept`, `OnlyRenamesMakeTwins` and
`OnlyShorteningLeavesBehind`.

- *The invariant.*  `Tree` is not inductive alone.  Nodes below a file may have a
  parent that is free again, and a walk through such a node would end in a free one, to which
  `ramfs_create` would then append.  `IInv` adds that this cannot happen: there is a set of
  nodes in use, with the root and the current directory in it, that has with a directory
  all it lists, and in which every node is listed by a directory of the set (`Rooted`).  Paths
  start at the root or at the current directory, so they stay in the set (`ResolveStays`).
- *Steps.*  One lemma for each change of the table: a node that is made (`AddedKeeps`), a
  size (`Resized`), a name (`MvStep`), a child removed (`FreedTable`).  `Keeps` collects what the
  first two leave alone and is transitive (`KeepsOn`), so that a package's directories are an
  induction over the components of its path (`DirectoriesPlace`).
- *Names.*  A call that makes an entry has looked for its name in that directory
  (`FreshWell`): what is then listed twice can only be a cut name.
- *Descriptors.*  `NoWrap` shows the modular subtractions of `sys_read` and `sys_write` to be the
  true ones for a descriptor within its file; `StaysWithin` is the rest, step by step.
- *Recursion.*  `ramfs_resolve`, `PathParts` and `spk_directories` are recursive functions; their
  equations are derived from a function that satisfies them, whose existence is shown by
  induction (`Counting`, `Recursion`, `ResolveSteps`, `PathEquations`).

`PromptLeadsHere` is only model-checked.

`KeyboardProofs`, for any ring and keymap: `TypeCorrect`, and `RingIsQueue`, the refinement
of KeyQueue.  Its invariant has what the reader may rely on between its accesses: a key it
has tested for is still there (`KeyIsThere`), and what it has read is still the first
(`KeyIsRead`), whatever IRQ1 pushed since.

`SetupProofs`, for any characters, field sizes, names, number of tries and word of the hash:
`TypeCorrect`, `ConfirmsWhatWasTyped` (where ENTER left both fields), `AccountAlwaysOpens` (for
passwords of at most `LoginMax` characters typed without ESC) and `SessionsAreEarned`.  The
buffers are the difficulty: nobody clears the cells behind the cursor, so the invariant says
that those before it are a text (`FieldIsText`), and that what the first field holds is what
it showed unless ESC left it (`TypedIsText`).  From the installer to the login there is a
chain: the flag file is not there while the screens are shown (`Fresh`), the second line of
passwd is the account (`AccountKept`), and `users[]` is passwd (`Loaded`).  Of the hash only
that it is a function of the text is used.

`ConsoleProofs`, over `ConsoleSpec` and for any board: `TypeCorrect`, `NeverCrossed` and
`NeckNeverHit`.  That the neck is safe is not inductive: `NoReverse` (the next move is never
the reverse of the last one) and `NeckBehind` (the last move led from the neck to the head)
make it so.  And for any console, line length and history: `LineTypeCorrect`,
`ShownIsExecuted` (of lines short of the right edge) and `ArrowsRecall` (of the last `HIST_SIZE`
lines).  `LineIsShown` is inductive because a line that has
reached the right edge is never rubbed out to below it (`RubbedOut`); the arrows need
`HistoryKept`: each slot that was not reused has the line that was entered into it.

`SessionProofs`, for any words, texts, users and sizes: `TypeCorrect`; `SavesAreKept`, under the
hypothesis that the table always has an inode left (`[](FreeInodes # {})`), which the code
does not ensure and `session_full` shows to be needed; and `RemovalsAreKept`, without it.  Both
are about `Short` words that do not lead elsewhere, as the properties say.  The invariant:
no short name is twice in the table (`OnlyOnce`, although words that are cut are), what was removed
is not in it (`RemovedIsGone`), and until the first change after a login the home has nothing
but what is on the disk (`HomeFromDisk`); `SavedIsThere` joins them while there is room.

`EditorProofs`, for any limits, characters and file: `TypeCorrect`, `CleanIsSavedAlways` and
`EditorIsTextBuffer`, the refinement of TextBuffer.

- *The invariant* (`IInv`) adds to `EditorTypeOK` that the file is a text, so that what is
  opened is a buffer, and that only a modified text is asked about, so that an answer leaves
  no clean text that was not saved.  Every key is a change at one line: the buffer is `Mid(a,
  l, b)`, the lines before it, it, and those after it, and one lemma per key says what the
  three become (`InsertShape`, `JoinShape`, `NewlineShape`, `KillShape` and so on).
- *Loading what was saved.*  `Serialized` and `LinesOf` are recursive functions, of which
  `Counting` and `Recursion` give one equation per line and per character
  (`SerializedAppend`, `LinesAppend`).  Reading one line behind others adds it (`ReadLine`),
  so what was written of a whole buffer is read as that buffer and an empty line
  (`ReadBack`), and `ed_load` takes one of the two (`LoadSaved`).  The save that writes less
  than the buffer is the one `Fits` excludes (`SavedIs`).
- *Refinement.*  The text is what is saved of the lines before, the line, and the rest
  (`TextMid`).  A saved part is empty or ends with NL, and the rest is empty or starts with
  one, so the line of the cursor is what TextBuffer finds between two NL (`LineOf`); each
  key is then one cut of the same text (`InsertSimulates`, `DeleteSimulates`,
  `KillSimulates`, `UpSimulates` and so on).

It assumes of the constants (`EditorAssumption`) that a line with its NL fits the file
(`ED_LINELEN` is 128 and `RAMFS_DATA_MAX` 4096), that NL is no printable character, and that
"no file" and "a directory" are told from a text.

Only model-checked: liveness (`BootCompletes`, `WaitingKeyIsTaken`), as fairness and ENABLED are
beyond the prover, `PromptLeadsHere`, and the three runs that expect a violation.

Assumptions of the models: sectors are written whole and in order; one call at a time
(nothing calls DiskFS from an interrupt, and no second thread runs, see `scheduler_irq0`);
the disk starts as the Makefile's zero-filled image.

## What is not modelled

- *Heap and PMM* (`kernel/heap.c`, `kernel/pmm.c`): nobody calls `kmalloc`, `kfree`,
  `krealloc`, `pmm_alloc` or `pmm_free`; kmain initialises both and the shell prints the
  free count.
- *ELF loader* (`kernel/elf_loader.c`): `exec` checks a header, copies segments to the
  addresses it finds in the file, and makes a process that is never dispatched as shipped
  (`scheduler_irq0`).  Read for the day it is: `pending_ctx` and `proc_stack` are one for
  all processes, so a second `exec` before the first process starts takes its entry and
  stack; `setup_stack` pushes its words downwards from the end of the argument strings, over
  the strings.
- *C library*: pure functions, modelled where a caller depends on them (a cut `strncpy`, a
  name that is too long, `atoi` of a hash).
- *Output*: VGA attributes, scrolling and boxes, the serial log, the panic screen, and
  the commands that only print.
- *spkg on the disk*: the copies and records `spk_install` and `spk_remove` write with
  DiskFS, by base name: two files of one name in different directories of a package are one
  file there, and the next login finds it in the home directory.
- *System calls* `brk`, `getpid`, `uname`, and the copy that `sys_write` makes on the disk.
- *Boot assembly, the native apps*: straight-line code; ATA's ports and IDENTIFY are reduced
  to sectors and errors.  A disk that acknowledges sectors and loses them (the wait after
  FLUSH is not checked, `ata.c:99`) is not modelled.

## Plan

Done: Scheduler, DiskFS and FileStore, Boot, Files, Setup, Editor and
TextBuffer, Keyboard and KeyQueue, Readline, Snake and Console, Session, with the theorems
above.  What is left:

1. *spkg and the system calls in Session*: packages and programs over both file systems, by
   base name and by path; then `SavedReadsBack` across them.
2. *Exec*: elf_loader composed with Scheduler, with the intended wiring: which programs start
   with the entry and stack made for them.
3. *A disk with a cache*: sectors acknowledged before they are on the medium; what is left
   of FileStore.
