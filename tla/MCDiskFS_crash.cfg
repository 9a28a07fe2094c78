SPECIFICATION Spec
CONSTANTS
  Names = {a, b, c, l}
  LongNames = {l}
  CutName = a
  Apps = {c}
  Vals = {v, w}
  Zero = zero
  Missing = Missing
  MaxFiles = 2
  PerSector = 1
  SecsFile = 2
  MaxSize = 3
INVARIANTS
  SlotsDisjoint
  NamesUnique
  CacheCoherent
PROPERTIES
  AckDurable
  ImplementsFileStore
