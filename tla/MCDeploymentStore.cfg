SPECIFICATION StoreSpec
CONSTANTS
  a1 = a1
  a2 = a2
  c1 = c1
  u1 = u1
  NoApp = NoApp
  NoUpload = NoUpload
  Apps <- MCApps
  Configs <- MCConfigs
  InitialConfig = c1
  Uploads <- MCUploads
  Engines <- MCEngines
  FailureCodes <- MCCodes
  MaxDeployments = 2
SYMMETRY Symmetry
INVARIANTS
  TypeOK
  InFlightIsNewest
  DeletedAppIsQuiet
  ReleaseHistory
  SupersededHasSuccessor
  EventsTellTheRow
PROPERTIES
  EndedStaysEnded
  ContractSpec
CHECK_DEADLOCK FALSE
