SPECIFICATION Spec
CHECK_DEADLOCK FALSE
CONSTANTS
  Empty = Empty
  Here = Here
  Up = Up
  h = h
  u = u
  a = a
  A = A
  AA = AA
  Home = h
  User = u
  Parts <- MCParts
  Words <- MCWords
  Cut <- MCCut
  Width <- MCWidth
  PathMax = 7
  BaseMax = 3
  SpkMax = 3
  MaxNodes = 4
  MaxChildren = 2
  MaxParts = 2
  DataMax = 1
  Lengths = {2}
  Word = 4
  Fds = {3}
  Flags <- AllFlags
INVARIANTS
  FilesTypeOK
  Tree
  CwdIsDirectory
PROPERTIES
  EntriesStay
  TwinsByRename
  PromptLeadsHere
  LeftBehind
