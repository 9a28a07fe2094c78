SPECIFICATION Spec
CONSTANTS
  Words <- MCWords
  LongWords <- MCLong
  CutWord <- MCCut
  Texts = {v, w}
  Users = {"u"}
  Docs = "docs"
  MAX_CHILDREN = 3
  MAX_FILES = 4
  MaxCommands = 3
SYMMETRY MCTexts
INVARIANTS
  SavedReadsBack
  RemovedStaysRemoved
