SPECIFICATION Spec
CONSTANTS
  Chars = {"a", "b"}
  NL = NL
  NoFile = NoFile
  Directory = Directory
  MaxLines = 3
  LineMax = 3
  DataMax = 7
  Rows = 2
  Files <- MCFiles
  MaxText = 3
INVARIANTS
  EditorTypeOK
  CleanIsSaved
PROPERTIES
  ImplementsTextBuffer
