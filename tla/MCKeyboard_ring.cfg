SPECIFICATION LiveSpec
CONSTANTS
  BUF = 3
  Plain <- MCPlain
  Norm <- MCNorm
  Shft <- MCShft
  Arrows = {"sc_48"}
  Arrow <- MCArrow
  ShiftCode = "sc_2A"
PROPERTIES
  ImplementsKeyQueue
  WaitingKeyIsTaken
CHECK_DEADLOCK FALSE
