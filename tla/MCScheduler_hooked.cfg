SPECIFICATION Spec
CONSTANTS
  MaxProcs = 3
  Quantum = 2
  Word = 4
  SleepMs = {0, 2}
  MaxPid = 2
  SchedHooked = TRUE
  FramePointer = FALSE
  EntryEnables = TRUE
  AppExits = TRUE
INVARIANTS
  OneRunning
  BootThreadRunnable
  PidsUnique
  NullStackOnlyWhileCreating
PROPERTIES
  DeadNeverDispatched
  KillIsFinal
CHECK_DEADLOCK FALSE
