SPECIFICATION ConsoleSpec
CONSTANTS
  Chars = {"a"}
  Blank = " "
  MAX_INPUT = 4
  HIST_SIZE = 2
  Cols = 5
  Prompt = 2
  MaxHist = 3
  MaxShown = 5
  W = 4
  H = 2
  MaxSnake = 5
  SnakeLines <- MCSnakeLines
INVARIANTS
  LineIsShown
  InOnePiece
  NeckIsSafe
PROPERTIES
  RecallsHistory
