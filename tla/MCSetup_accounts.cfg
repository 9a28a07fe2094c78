SPECIFICATION Spec
CONSTANTS
  Chars = {97, 98}
  FieldMax = 3
  LoginMax = 2
  PwMin = 2
  HostNames = {"casa"}
  UserNames = {"ana", "root"}
  Word = 65536
  MaxTries = 3
INVARIANTS
  TypeOK
  ConfirmedPassword
  InstalledAccountOpens
  SessionIsEarned
