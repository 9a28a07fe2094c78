SPECIFICATION LiveSpec
CONSTANTS
  MaxProcs = 3
  Quantum = 2
  Word = 4
  SleepMs = {1}
  MaxPid = 2
  SchedHooked = FALSE
  FramePointer = TRUE
  EntryEnables = FALSE
  AppExits = TRUE
PROPERTIES
  ReadyRuns
CHECK_DEADLOCK FALSE
