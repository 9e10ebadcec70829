SPECIFICATION Spec
CONSTANTS
  a1 = a1
  r1 = r1
  r2 = r2
  s1 = s1
  s2 = s2
  x = x
  y = y
  None = None
  Accounts <- OneAccount
  Calls <- MCCalls
  Names <- MCNames
  BaseOf <- MCBaseOf
  Reserved <- MCReserved
  Suffixes <- MCSuffixes
  ConfigKeys <- MCKeys
  Sizes <- MCSizes
  AppLimit = 1
  UnclaimedLimit = 1
  MaxConfigKeys = 2
  MaxConfigTotal = 3
  MaxApps = 2
  MaxUploads = 2
  MaxDeployments = 2
  MaxMints = 2
  MaxCalls = 2
  MaxFaults = 1
SYMMETRY MCSymmetry
CONSTRAINT WithinBounds
INVARIANTS
  AppsTypeOK
  CeilingsHold
  HostnamesAreForever
  FilesAndRowsAgree
  TokenFetchesOnce
  ConfigWithinBounds
CHECK_DEADLOCK FALSE
