SPECIFICATION BootLiveSpec
CONSTANTS
  Accounts = {"ana"}
  Apps = {"app"}
  Names <- MCNames
  Vals <- MCVals
  LongNames = {}
  CutName = "cut"
  Zero = zero
  Missing = Missing
  MaxFiles = 5
  PerSector = 2
  SecsFile = 1
  MaxSize = 1
INVARIANTS
  BootTypeOK
  InstallationLasts
  InstallationKept
  SomebodyCanLogIn
PROPERTIES
  BootCompletes
CHECK_DEADLOCK FALSE
